--------------------------- MODULE ScrapeThrottle ---------------------------
(***************************************************************************)
(* The burst throttle of src/internal/scrape/scrape.go: every request of a *)
(* crawl goes through acquire, which first waits for the throttle and then *)
(* for the rate limiter, here an arbitrary wait.  A worker is one place in *)
(* the semaphore of crawlSeed.                                             *)
(***************************************************************************)
EXTENDS Integers, FiniteSets

CONSTANTS Workers,
          Every, Delay,   \* DelayEvery; Delay, in ticks
          Horizon         \* bound: the clock stops there

ASSUME ThrottleAssumption ==
  /\ IsFiniteSet(Workers)
  /\ Every \in Nat \ {0} /\ Delay \in Nat \ {0} /\ Horizon \in Nat

Ticks == 0..Horizon

VARIABLES
  now, cancelled,
  count, until,   \* the throttle's fields
  at,             \* [Workers]: where the worker is
  due,            \* [Workers]: the waitUntil of the call under way
  index,          \* [Workers]: the count of the call under way
  starts,         \* the requests started, each with its call's count and tick
  openings        \* the cooldowns opened so far

throttle == <<count, until>>
call == <<at, due, index>>
vars == <<now, cancelled, throttle, call, starts, openings>>

Init ==
  /\ now = 0 /\ cancelled = FALSE
  /\ count = 0 /\ until = 0
  /\ at = [w \in Workers |-> "crawling"]
  /\ due = [w \in Workers |-> 0]
  /\ index = [w \in Workers |-> 0]
  /\ starts = {}
  /\ openings = {}

-----------------------------------------------------------------------------
\* throttle.wait as far as Unlock.  An expired waitUntil returns at once, and
\* does not look at the context.
Arrive(w, waitUntil) ==
  /\ at[w] = "crawling"
  /\ count' = count + 1
  /\ due' = [due EXCEPT ![w] = waitUntil]
  /\ index' = [index EXCEPT ![w] = count + 1]
  /\ at' = [at EXCEPT ![w] = IF waitUntil > now THEN "paused" ELSE "cleared"]
  /\ UNCHANGED <<now, cancelled, starts>>

Opens == (count + 1) % Every = 0

Follow(w) ==
  /\ ~Opens
  /\ Arrive(w, until)
  /\ UNCHANGED <<until, openings>>

Cooldown == [index |-> count + 1, end |-> now + Delay]

\* Faulty variant: the call that opens the cooldown does not wait it out.
OpenAndPass(w) ==
  /\ Opens
  /\ Arrive(w, until)
  /\ until' = now + Delay
  /\ openings' = openings \cup {Cooldown}

\* Faulty variant: only the call that opens the cooldown waits.
OpenAlone(w) ==
  /\ Opens
  /\ Arrive(w, now + Delay)
  /\ openings' = openings \cup {Cooldown}
  /\ UNCHANGED until

Open(w) ==
  /\ Opens
  /\ Arrive(w, now + Delay)
  /\ until' = now + Delay
  /\ openings' = openings \cup {Cooldown}

\* The timer fires; until is not read again.
Wake(w) ==
  /\ at[w] = "paused" /\ now >= due[w]
  /\ at' = [at EXCEPT ![w] = "cleared"]
  /\ UNCHANGED <<now, cancelled, throttle, due, index, starts, openings>>

\* The limiter has let the call pass and the request is sent.
Start(w) ==
  /\ at[w] = "cleared" /\ ~cancelled
  /\ at' = [at EXCEPT ![w] = "crawling"]
  /\ starts' = starts \cup {[index |-> index[w], at |-> now]}
  /\ UNCHANGED <<now, cancelled, throttle, due, index, openings>>

\* The context's case in either wait, a request it aborts, and the end of the
\* crawl.
Leave(w) ==
  /\ cancelled /\ at[w] # "gone"
  /\ at' = [at EXCEPT ![w] = "gone"]
  /\ UNCHANGED <<now, cancelled, throttle, due, index, starts, openings>>

Tick ==
  /\ now < Horizon
  /\ now' = now + 1
  /\ UNCHANGED <<cancelled, throttle, call, starts, openings>>

Cancel ==
  /\ ~cancelled
  /\ cancelled' = TRUE
  /\ UNCHANGED <<now, throttle, call, starts, openings>>

Step(w) == Follow(w) \/ Open(w) \/ Wake(w) \/ Start(w) \/ Leave(w)

Next == Tick \/ Cancel \/ \E w \in Workers : Step(w)

\* Goroutines run.  The clock need not.
Fairness == WF_vars(\E w \in Workers : Leave(w) \/ Wake(w))

Spec == Init /\ [][Next]_vars /\ Fairness

-----------------------------------------------------------------------------
\* A call never passes the throttle before the end of a cooldown that it or an
\* earlier call opened, whatever opened meanwhile (throttle.wait).
PauseHolds ==
  \A w \in Workers : at[w] = "cleared" =>
    \A o \in openings : o.index <= index[w] => now >= o.end

\* The inductive invariant behind PauseHolds: the newest cooldown ends last, and
\* a call waits out every cooldown opened by a call not after it.
CooldownsOrdered ==
  \A o \in openings : o.index \in 1..count /\ o.end \in Nat /\ o.end <= until
CallCovered ==
  \A w \in Workers :
    /\ index[w] <= count
    /\ \A o \in openings : o.index <= index[w] => o.end <= due[w]
    /\ at[w] = "cleared" => due[w] <= now
IInv ==
  /\ now \in Nat /\ count \in Nat /\ until \in Nat
  /\ at \in [Workers -> {"crawling", "paused", "cleared", "gone"}]
  /\ due \in [Workers -> Nat] /\ index \in [Workers -> Nat]
  /\ until <= now + Delay
  /\ CooldownsOrdered /\ CallCovered

InWindow(t) == {r \in starts : r.at \in t..(t + Delay - 1)}

\* What the throttle is for: in any stretch as long as the pause no more
\* requests start than DelayEvery - 1 and one per worker, also when cooldowns
\* overlap and the limiter releases late.
BurstBounded == \A t \in Ticks : Cardinality(InWindow(t)) < Cardinality(Workers) + Every

\* The inductive invariant behind BurstBounded: a request has waited out every
\* cooldown opened by a call not after it, and of the calls up to the one that
\* opened a cooldown no more start after that moment than there are workers,
\* for each of them was under way then.
Waiting(w) == at[w] \in {"paused", "cleared"}
CallsApart ==
  /\ \A w \in Workers : Waiting(w) =>
       index[w] \in 1..count /\ \A r \in starts : r.index # index[w]
  /\ \A v, w \in Workers : Waiting(v) /\ Waiting(w) /\ index[v] = index[w] => v = w
StartsOrdered ==
  /\ IsFiniteSet(starts)
  /\ \A r \in starts : r.index \in 1..count /\ r.at \in 0..now
  /\ \A r, q \in starts : r.index = q.index => r = q
  /\ \A r \in starts, o \in openings : o.index <= r.index => o.end <= r.at
EveryOpens ==
  \A k \in 1..count : k % Every = 0 => \E o \in openings : o.index = k
Held(o) == {w \in Workers : Waiting(w) /\ index[w] <= o.index}
Late(o) == {r \in starts : r.index <= o.index /\ r.at > o.end - Delay}
LateBounded ==
  \A o \in openings : Cardinality(Late(o)) + Cardinality(Held(o)) <= Cardinality(Workers)
BurstInv == CallsApart /\ StartsOrdered /\ EveryOpens /\ LateBounded

\* Cancelling ends every call in the pause; it need not be waited out.
CancelCutsPause == cancelled ~> \A w \in Workers : at[w] = "gone"
=============================================================================
