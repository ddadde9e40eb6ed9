----------------------------- MODULE CancelSlot -----------------------------
(***************************************************************************)
(* What a canceler promises its callers (src/cancel.go): a family of       *)
(* operations of which at most one has a usable context at any time.       *)
(* Starting an operation evicts the one in the slot, and an operation that *)
(* left the slot never comes back.                                         *)
(***************************************************************************)
CONSTANT Runs

VARIABLES live,     \* the runs whose context is not cancelled
          started   \* the runs that ever asked for a context

vars == <<live, started>>

Init == live = {} /\ started = {}

Start(r) == /\ r \notin started
            /\ started' = started \cup {r}
            /\ live' = {r}

\* The slot empties: the run ended, or somebody pressed Cancel.
Vacate == /\ live # {}
          /\ live' = {}
          /\ UNCHANGED started

Next == Vacate \/ \E r \in Runs : Start(r)

Spec == Init /\ [][Next]_vars
=============================================================================
