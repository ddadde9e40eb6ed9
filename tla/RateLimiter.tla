---------------------------- MODULE RateLimiter ----------------------------
(***************************************************************************)
(* src/internal/ratelimit: Wait reserves the next slot under the lock and  *)
(* sleeps until it comes, without the lock, or until the context ends.     *)
(* Time is discrete; goroutines may wake up late.                          *)
(***************************************************************************)
EXTENDS Integers, FiniteSets

CONSTANTS Calls,      \* the calls of Wait
          Interval,   \* the time between two slots
          Horizon     \* bound: the last instant

ASSUME LimiterAssumption ==
  IsFiniteSet(Calls) /\ Interval \in Nat \ {0} /\ Horizon \in Nat

VARIABLES now,
          next,      \* Limiter.next
          pc,        \* [Calls -> {"idle", "waiting", "started", "cancelled"}]
          arrival,   \* [Calls]: when the call took the lock
          slot       \* [Calls]: the slot it reserved

vars == <<now, next, pc, arrival, slot>>

Reserved == {c \in Calls : pc[c] # "idle"}

Init == /\ now = 0 /\ next = 0
        /\ pc = [c \in Calls |-> "idle"]
        /\ arrival = [c \in Calls |-> 0]
        /\ slot = [c \in Calls |-> 0]

Later(a, b) == IF a < b THEN b ELSE a

\* The critical section of Wait; a slot that has come needs no timer.
Reserve(c) ==
  /\ pc[c] = "idle"
  /\ LET granted == Later(next, now)
     IN /\ slot' = [slot EXCEPT ![c] = granted]
        /\ next' = granted + Interval
        /\ pc' = [pc EXCEPT ![c] = IF granted = now THEN "started" ELSE "waiting"]
  /\ arrival' = [arrival EXCEPT ![c] = now]
  /\ UNCHANGED now

\* The timer fires at the slot or later.
Wake(c) == /\ pc[c] = "waiting" /\ slot[c] <= now
           /\ pc' = [pc EXCEPT ![c] = "started"]
           /\ UNCHANGED <<now, next, arrival, slot>>

\* Faulty variant: a cancelled call hands its slot back.
CancelReturnsSlot(c) ==
  /\ pc[c] = "waiting"
  /\ pc' = [pc EXCEPT ![c] = "cancelled"]
  /\ next' = next - Interval
  /\ UNCHANGED <<now, arrival, slot>>

\* ctx.Done: the slot stays reserved.
Cancel(c) == /\ pc[c] = "waiting"
             /\ pc' = [pc EXCEPT ![c] = "cancelled"]
             /\ UNCHANGED <<now, next, arrival, slot>>

Tick == /\ now < Horizon
        /\ now' = now + 1
        /\ UNCHANGED <<next, pc, arrival, slot>>

Next == Tick \/ \E c \in Calls : Reserve(c) \/ Wake(c) \/ Cancel(c)

Spec == Init /\ [][Next]_vars

-----------------------------------------------------------------------------
TypeOK == /\ now \in Nat /\ next \in Nat
          /\ pc \in [Calls -> {"idle", "waiting", "started", "cancelled"}]
          /\ arrival \in [Calls -> Nat]
          /\ slot \in [Calls -> Nat]

\* When a call starts unless it is woken late.
Due(c) == Later(slot[c], arrival[c])

\* "No more than one starts per interval": calls that are not cancelled are due
\* a whole interval apart, after idle times and cancellations too.
Spaced ==
  \A c, d \in Reserved :
    c # d /\ pc[c] # "cancelled" /\ pc[d] # "cancelled" =>
      Due(c) + Interval <= Due(d) \/ Due(d) + Interval <= Due(c)

\* The inductive invariant behind Spaced: every slot given out is an interval
\* before the next one, and never in the past when it is given.
NextIsFree ==
  \A c \in Reserved : slot[c] + Interval <= next /\ arrival[c] <= slot[c]
SlotsApart ==
  \A c, d \in Reserved :
    c # d => slot[c] + Interval <= slot[d] \/ slot[d] + Interval <= slot[c]
IInv == TypeOK /\ NextIsFree /\ SlotsApart
=============================================================================
