-------------------------------- MODULE Ping --------------------------------
(***************************************************************************)
(* The shared ICMP prober of src/internal/ping: one socket, one reader     *)
(* and a waiter for each echo under way, found by its address and its      *)
(* sequence number, which is Wrap values wide as the code's is 2^16.       *)
(***************************************************************************)
EXTENDS Integers, FiniteSets

CONSTANTS Pings,    \* the calls of Ping
          Host,     \* [Pings -> the address each one asks]
          Alive,    \* the addresses that answer
          Wrap,     \* how many sequence numbers there are
          MaxStray  \* replies that are duplicated or belong to no one

VARIABLES
  call,        \* [Pings -> where the call is]
  seq, number, \* the counter; [Pings -> its number]
  woken,       \* the calls whose channel holds a value
  waiters,     \* the registered [key, ping]
  air,         \* the replies under way, a set of keys
  reader,      \* the waiters signal has taken and not woken yet
  closed,      \* done is closed
  stray,
  answered     \* history: the calls whose own echo was answered

vars == <<call, seq, number, woken, waiters, air, reader, closed, stray, answered>>

Replies == [host : {Host[p] : p \in Pings}, seq : 0..(Wrap - 1)]
Key(p) == [host |-> Host[p], seq |-> number[p]]

Init ==
  /\ call = [p \in Pings |-> "new"]
  /\ seq = 0 /\ number = [p \in Pings |-> 0]
  /\ woken = {} /\ waiters = {} /\ air = {} /\ reader = {}
  /\ closed = FALSE /\ stray = 0 /\ answered = {}

\* resolveIPv4 fails: nothing is registered.
NoAddress(p) ==
  /\ call[p] = "new"
  /\ call' = [call EXCEPT ![p] = "error"]
  /\ UNCHANGED <<seq, number, woken, waiters, air, reader, closed, stray, answered>>

\* Under the lock: the next number, and a waiter for it.
Register(p) ==
  /\ call[p] = "new"
  /\ seq' = (seq + 1) % Wrap
  /\ number' = [number EXCEPT ![p] = seq']
  /\ waiters' = waiters \cup {[key |-> [host |-> Host[p], seq |-> seq'], ping |-> p]}
  /\ call' = [call EXCEPT ![p] = "send"]
  /\ UNCHANGED <<woken, air, reader, closed, stray, answered>>

\* The echo is sent.  A live host answers, unless the network loses it.
Send(p, arrives) ==
  /\ call[p] = "send" /\ ~closed
  /\ arrives => Host[p] \in Alive
  /\ air' = IF arrives THEN air \cup {Key(p)} ELSE air
  /\ answered' = IF arrives THEN answered \cup {p} ELSE answered
  /\ call' = [call EXCEPT ![p] = "wait"]
  /\ UNCHANGED <<seq, number, woken, waiters, reader, closed, stray>>

SendFails(p) ==
  /\ call[p] = "send"
  /\ call' = [call EXCEPT ![p] = "leave_error"]
  /\ UNCHANGED <<seq, number, woken, waiters, air, reader, closed, stray, answered>>

\* The network repeats a reply that it has delivered before.
Repeat(r) ==
  /\ stray < MaxStray /\ stray' = stray + 1
  /\ \E p \in answered : r = Key(p)
  /\ air' = air \cup {r}
  /\ UNCHANGED <<call, seq, number, woken, waiters, reader, closed, answered>>

-----------------------------------------------------------------------------
(* readLoop and signal.                                                    *)

Matches(w, r) == w.key = r

\* signal takes the waiters of the key away under the lock...
Receive(r) ==
  /\ ~closed /\ r \in air /\ reader = {}
  /\ air' = air \ {r}
  /\ reader' = {w.ping : w \in {w \in waiters : Matches(w, r)}}
  /\ waiters' = {w \in waiters : ~Matches(w, r)}
  /\ UNCHANGED <<call, seq, number, woken, closed, stray, answered>>

\* ...and wakes them without it; the channel has room for one value.
Wake(p) ==
  /\ p \in reader
  /\ reader' = reader \ {p}
  /\ woken' = woken \cup {p}
  /\ UNCHANGED <<call, seq, number, waiters, air, closed, stray, answered>>

-----------------------------------------------------------------------------
(* The select of Ping: whichever case is ready, and removeWaiter at last.  *)

Answered(p) ==
  /\ call[p] = "wait" /\ p \in woken
  /\ call' = [call EXCEPT ![p] = "leave_ok"]
  /\ UNCHANGED <<seq, number, woken, waiters, air, reader, closed, stray, answered>>

\* The timer, or the context.
TimesOut(p) ==
  /\ call[p] = "wait"
  /\ call' = [call EXCEPT ![p] = "leave_error"]
  /\ UNCHANGED <<seq, number, woken, waiters, air, reader, closed, stray, answered>>

Closed(p) ==
  /\ call[p] = "wait" /\ closed
  /\ call' = [call EXCEPT ![p] = "leave_error"]
  /\ UNCHANGED <<seq, number, woken, waiters, air, reader, closed, stray, answered>>

\* Faulty variant: the whole entry of the key is deleted.
RemoveEntry(p) == {w \in waiters : w.key # Key(p)}

\* removeWaiter looks for its own channel in the list of the key.
RemoveWaiter(p) == {w \in waiters : w.ping # p}

Leave(p) ==
  /\ call[p] \in {"leave_ok", "leave_error"}
  /\ waiters' = RemoveWaiter(p)
  /\ call' = [call EXCEPT ![p] = IF @ = "leave_ok" THEN "ok" ELSE "error"]
  /\ UNCHANGED <<seq, number, woken, air, reader, closed, stray, answered>>

\* Close; the sweep it serves may still have calls under way.
Close ==
  /\ ~closed /\ closed' = TRUE
  /\ UNCHANGED <<call, seq, number, woken, waiters, air, reader, stray, answered>>

Ask(p) == NoAddress(p) \/ Register(p)

Ping(p) ==
  \/ (\E arrives \in BOOLEAN : Send(p, arrives)) \/ SendFails(p)
  \/ Answered(p) \/ TimesOut(p) \/ Closed(p) \/ Leave(p)

Read == (\E r \in Replies : Receive(r)) \/ (\E p \in Pings : Wake(p))

Next == (\E p \in Pings : Ask(p) \/ Ping(p)) \/ Read \/ (\E r \in Replies : Repeat(r)) \/ Close

\* Calls that have been made go on.
Fairness == WF_vars(\E p \in Pings : Ping(p))

Spec == Init /\ [][Next]_vars /\ Fairness

-----------------------------------------------------------------------------
Over(p) == call[p] \in {"ok", "error"}

TypeOK ==
  /\ call \in [Pings -> {"new", "send", "wait", "leave_ok", "leave_error", "ok", "error"}]
  /\ seq \in 0..(Wrap - 1) /\ number \in [Pings -> 0..(Wrap - 1)]
  /\ woken \cup reader \cup answered \subseteq Pings
  /\ waiters \subseteq [key : Replies, ping : Pings] /\ air \subseteq Replies
  /\ closed \in BOOLEAN /\ stray \in 0..MaxStray

\* A call that waits is either registered under its key or has been taken by
\* the reader, which wakes it: a call with the same key, after the numbers have
\* come round, does not take it away when it leaves.  And none is left behind.
WaitersAreFound ==
  /\ \A p \in Pings : call[p] \in {"send", "wait"} =>
       [key |-> Key(p), ping |-> p] \in waiters \/ p \in reader \cup woken
  /\ (\A p \in Pings : Over(p)) => waiters = {}

\* A host is taken for alive only if it has answered an echo: a reply that is
\* late, repeated or of another host does not vouch for it.
OnlyAliveHosts ==
  \A p \in Pings : call[p] = "ok" => \E q \in answered : Host[q] = Host[p]

\* What a sweep may rely on.
PingsAreHonest == TypeOK /\ WaitersAreFound /\ OnlyAliveHosts

-----------------------------------------------------------------------------
(* The inductive invariant behind these.                                   *)

PingAssumption == Wrap \in Nat \ {0} /\ MaxStray \in Nat

\* Some echo to the address of p was answered.
Vouched(p) == \E q \in answered : Host[q] = Host[p]

\* A waiter stands under the key of its call, which has not left yet.
WaitersAreOwn ==
  \A w \in waiters : /\ w.key = Key(w.ping)
                     /\ call[w.ping] \in {"send", "wait", "leave_ok", "leave_error"}

\* The replies under way are those of answered calls, which keep their number.
RepliesAreOwn ==
  /\ \A r \in air : \E q \in answered : r = Key(q)
  /\ \A q \in answered : call[q] \notin {"new", "send"} /\ Host[q] \in Alive

\* Whoever was woken, or is about to be, has been vouched for.
WakingIsEarned ==
  \A p \in Pings : p \in reader \cup woken \/ call[p] \in {"leave_ok", "ok"} => Vouched(p)

IInv == TypeOK /\ WaitersAreFound /\ WaitersAreOwn /\ RepliesAreOwn /\ WakingIsEarned

-----------------------------------------------------------------------------
\* What comes of every call, whatever is lost and also when the socket is closed.
PingsAreBack == \A p \in Pings : call[p] = "new" \/ Over(p)
=============================================================================
