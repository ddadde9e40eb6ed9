------------------------------ MODULE Canceler ------------------------------
(***************************************************************************)
(* The canceler of src/cancel.go: one stored cancel function, guarded by a *)
(* mutex and stamped with a generation, shared by every run of one kind of *)
(* operation (App.ops, portOps, scrapeOps, ...).                           *)
(*                                                                         *)
(* begin and stop are single critical sections.  The end function that     *)
(* begin returns is two steps: it cancels its own context before it takes  *)
(* the lock, so anything may happen between the two.                       *)
(***************************************************************************)
EXTENDS Naturals

CONSTANTS Runs,    \* the calls of begin; every call is its own run
          NoRun    \* the nil cancel function

ASSUME NoRunAssumption == NoRun \notin Runs

VARIABLES gen,     \* c.gen
          fn,      \* the run whose cancel function is stored in c.fn, or NoRun
          myGen,   \* the gen captured by each run's end closure
          ctx,     \* each run's context
          pc       \* how far each run has come

cancelerVars == <<gen, fn, myGen, ctx, pc>>

\* The definitions of a specification carry the module's name, so that MCOperations
\* can extend Canceler together with Netcat.
CancelerInit ==
  /\ gen = 0 /\ fn = NoRun
  /\ myGen = [r \in Runs |-> 0]
  /\ ctx = [r \in Runs |-> "none"]
  /\ pc = [r \in Runs |-> "idle"]

\* Cancelling is idempotent, and calling a nil function is guarded against.
CtxAfterCancel(f) == [r \in Runs |-> IF r = f THEN "cancelled" ELSE ctx[r]]

\* Faulty variant: the previous operation is replaced, not cancelled.
BeginKeepsPrevious(r) ==
  /\ pc[r] = "idle"
  /\ gen' = gen + 1
  /\ fn' = r
  /\ myGen' = [myGen EXCEPT ![r] = gen + 1]
  /\ ctx' = [ctx EXCEPT ![r] = "live"]
  /\ pc' = [pc EXCEPT ![r] = "running"]

Begin(r) ==
  /\ pc[r] = "idle"
  /\ gen' = gen + 1
  /\ fn' = r
  /\ myGen' = [myGen EXCEPT ![r] = gen + 1]
  /\ ctx' = [CtxAfterCancel(fn) EXCEPT ![r] = "live"]
  /\ pc' = [pc EXCEPT ![r] = "running"]

EndCancel(r) ==
  /\ pc[r] = "running"
  /\ ctx' = CtxAfterCancel(r)
  /\ pc' = [pc EXCEPT ![r] = "ending"]
  /\ UNCHANGED <<gen, fn, myGen>>

\* Faulty variant: no generation check.
EndClearAlways(r) ==
  /\ pc[r] = "ending"
  /\ fn' = NoRun
  /\ pc' = [pc EXCEPT ![r] = "done"]
  /\ UNCHANGED <<gen, myGen, ctx>>

EndClear(r) ==
  /\ pc[r] = "ending"
  /\ fn' = IF gen = myGen[r] THEN NoRun ELSE fn
  /\ pc' = [pc EXCEPT ![r] = "done"]
  /\ UNCHANGED <<gen, myGen, ctx>>

\* The stored function stays: the run itself clears it when it ends.
Stop ==
  /\ fn # NoRun
  /\ ctx' = CtxAfterCancel(fn)
  /\ UNCHANGED <<gen, fn, myGen, pc>>

CancelerNext == Stop \/ \E r \in Runs : Begin(r) \/ EndCancel(r) \/ EndClear(r)

CancelerSpec == CancelerInit /\ [][CancelerNext]_cancelerVars

-----------------------------------------------------------------------------
\* The variables of the canceler hold what src/cancel.go can store in them.
CancelerTypeOK ==
  /\ gen \in Nat
  /\ fn \in Runs \cup {NoRun}
  /\ myGen \in [Runs -> Nat]
  /\ ctx \in [Runs -> {"none", "live", "cancelled"}]
  /\ pc \in [Runs -> {"idle", "running", "ending", "done"}]

\* The promise of the comment on canceler: a run that finishes after a newer
\* one has started cannot leave the newer run uncancellable.  The newest run,
\* until its end clears the handle itself, is the one stop would cancel,
\* whatever the older runs do with their end functions meanwhile.
NewestCancellable ==
  \A r \in Runs : pc[r] \in {"running", "ending"} /\ myGen[r] = gen => fn = r

\* begin cancels the running operation: two runs never have a usable context
\* at once, also when the older one is still on its way through end.
SingleLive ==
  \A r, s \in Runs : ctx[r] = "live" /\ ctx[s] = "live" => r = s

\* Whatever has a usable context is reachable by stop, and the handle never
\* outlives its run: once every run has ended the handle is nil again.
HandleMatchesRun ==
  /\ \A r \in Runs : ctx[r] = "live" => fn = r
  /\ fn # NoRun => pc[fn] \in {"running", "ending"}

\* The inductive strengthening: generations are handed out once each, in order,
\* and the handle is that of the newest generation.
GenerationsDistinct ==
  /\ \A r \in Runs : myGen[r] <= gen
  /\ \A r \in Runs : myGen[r] = 0 <=> pc[r] = "idle"
  /\ \A r, s \in Runs : myGen[r] = myGen[s] /\ pc[r] # "idle" => r = s
HandleIsNewest == fn # NoRun => myGen[fn] = gen
ContextFollowsRun ==
  \A r \in Runs : /\ ctx[r] = "none" <=> pc[r] = "idle"
                  /\ ctx[r] = "live" => pc[r] = "running"

CancelerIInv ==
  /\ CancelerTypeOK /\ GenerationsDistinct /\ HandleIsNewest /\ ContextFollowsRun
  /\ NewestCancellable /\ HandleMatchesRun

\* The canceler implements the single-slot abstraction of CancelSlot.
Slot == INSTANCE CancelSlot
          WITH live <- {r \in Runs : ctx[r] = "live"},
               started <- {r \in Runs : pc[r] # "idle"}
SlotSpec == Slot!Spec
=============================================================================
