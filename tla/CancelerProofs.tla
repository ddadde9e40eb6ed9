--------------------------- MODULE CancelerProofs ---------------------------
(***************************************************************************)
(* Canceler is correct for every set of runs: the inductive invariant CancelerIInv *)
(* and what follows from it, and that Canceler implements CancelSlot.      *)
(***************************************************************************)
EXTENDS Canceler, TLAPS

LEMMA InitIInv == CancelerInit => CancelerIInv
BY NoRunAssumption
   DEF CancelerInit, CancelerIInv, CancelerTypeOK, GenerationsDistinct, HandleIsNewest,
       ContextFollowsRun, NewestCancellable, HandleMatchesRun

LEMMA BeginIInv == ASSUME CancelerIInv, NEW r \in Runs, Begin(r) PROVE CancelerIInv'
<1> USE NoRunAssumption DEF CancelerIInv, Begin, CtxAfterCancel
<1>1. CancelerTypeOK'
  BY DEF CancelerTypeOK
<1>2. GenerationsDistinct'
  BY DEF CancelerTypeOK, GenerationsDistinct
<1>3. HandleIsNewest'
  BY DEF CancelerTypeOK, HandleIsNewest
<1>4. ContextFollowsRun'
  BY DEF CancelerTypeOK, ContextFollowsRun, HandleMatchesRun
<1>5. NewestCancellable'
  BY DEF CancelerTypeOK, NewestCancellable, GenerationsDistinct
<1>6. HandleMatchesRun'
  BY DEF CancelerTypeOK, HandleMatchesRun, ContextFollowsRun
<1>7. QED
  BY <1>1, <1>2, <1>3, <1>4, <1>5, <1>6

LEMMA EndCancelIInv == ASSUME CancelerIInv, NEW r \in Runs, EndCancel(r) PROVE CancelerIInv'
<1> USE NoRunAssumption DEF CancelerIInv, EndCancel, CtxAfterCancel
<1>1. CancelerTypeOK'
  BY DEF CancelerTypeOK
<1>2. GenerationsDistinct' /\ HandleIsNewest'
  BY DEF CancelerTypeOK, GenerationsDistinct, HandleIsNewest
<1>3. ContextFollowsRun'
  BY DEF CancelerTypeOK, ContextFollowsRun
<1>4. NewestCancellable' /\ HandleMatchesRun'
  BY DEF CancelerTypeOK, NewestCancellable, HandleMatchesRun
<1>5. QED
  BY <1>1, <1>2, <1>3, <1>4

\* The interesting step: the handle is cleared only by the run it belongs to.
LEMMA EndClearIInv == ASSUME CancelerIInv, NEW r \in Runs, EndClear(r) PROVE CancelerIInv'
<1> USE NoRunAssumption DEF CancelerIInv, EndClear
<1>1. gen = myGen[r] => fn = r
  BY DEF NewestCancellable
<1>2. gen # myGen[r] => fn # r
  BY DEF HandleIsNewest
<1>3. CancelerTypeOK'
  BY DEF CancelerTypeOK
<1>4. GenerationsDistinct' /\ HandleIsNewest'
  BY DEF CancelerTypeOK, GenerationsDistinct, HandleIsNewest
<1>5. ContextFollowsRun'
  BY DEF CancelerTypeOK, ContextFollowsRun
<1>6. NewestCancellable'
  BY DEF CancelerTypeOK, NewestCancellable, GenerationsDistinct
<1>7. HandleMatchesRun'
  BY <1>1, <1>2 DEF CancelerTypeOK, HandleMatchesRun, ContextFollowsRun
<1>8. QED
  BY <1>3, <1>4, <1>5, <1>6, <1>7

LEMMA StopIInv == ASSUME CancelerIInv, Stop PROVE CancelerIInv'
<1> USE NoRunAssumption DEF CancelerIInv, Stop, CtxAfterCancel
<1>1. CancelerTypeOK'
  BY DEF CancelerTypeOK
<1>2. GenerationsDistinct' /\ HandleIsNewest' /\ NewestCancellable'
  BY DEF GenerationsDistinct, HandleIsNewest, NewestCancellable
<1>3. ContextFollowsRun' /\ HandleMatchesRun'
  BY DEF CancelerTypeOK, ContextFollowsRun, HandleMatchesRun
<1>4. QED
  BY <1>1, <1>2, <1>3

LEMMA StutterIInv == ASSUME CancelerIInv, UNCHANGED cancelerVars PROVE CancelerIInv'
BY DEF cancelerVars, CancelerIInv, CancelerTypeOK, GenerationsDistinct, HandleIsNewest,
       ContextFollowsRun, NewestCancellable, HandleMatchesRun

LEMMA NextIInv == CancelerIInv /\ [CancelerNext]_cancelerVars => CancelerIInv'
<1> SUFFICES ASSUME CancelerIInv, [CancelerNext]_cancelerVars PROVE CancelerIInv'
  OBVIOUS
<1>1. CASE Stop
  BY <1>1, StopIInv
<1>2. ASSUME NEW r \in Runs, Begin(r) PROVE CancelerIInv'
  BY <1>2, BeginIInv
<1>3. ASSUME NEW r \in Runs, EndCancel(r) PROVE CancelerIInv'
  BY <1>3, EndCancelIInv
<1>4. ASSUME NEW r \in Runs, EndClear(r) PROVE CancelerIInv'
  BY <1>4, EndClearIInv
<1>5. CASE UNCHANGED cancelerVars
  BY <1>5, StutterIInv
<1>6. QED
  BY <1>1, <1>2, <1>3, <1>4, <1>5 DEF CancelerNext

\* The strengthened invariant holds in every reachable state of begin, end and
\* stop, for any number of runs: in particular every variable keeps its type.
THEOREM Invariance == CancelerSpec => []CancelerIInv
<1>1. QED
  BY InitIInv, NextIInv, PTL DEF CancelerSpec

\* The promise of the comment on canceler (src/cancel.go): a late end of an
\* older run never leaves the newest run without its cancel function.
THEOREM Cancellable == CancelerSpec => []NewestCancellable
<1>1. CancelerIInv => NewestCancellable
  BY DEF CancelerIInv
<1>2. QED
  BY <1>1, Invariance, PTL

LEMMA IInvSingleLive == CancelerIInv => SingleLive
BY DEF CancelerIInv, HandleMatchesRun, SingleLive

\* begin cancels the run it replaces: never two usable contexts.
THEOREM OneLiveRun == CancelerSpec => []SingleLive
<1>1. QED
  BY IInvSingleLive, Invariance, PTL

\* stop reaches whatever is running: everything with a usable context is the
\* run whose cancel function is stored, and the handle dies with its run.
THEOREM HandleCorrect == CancelerSpec => []HandleMatchesRun
<1>1. CancelerIInv => HandleMatchesRun
  BY DEF CancelerIInv
<1>2. QED
  BY <1>1, Invariance, PTL

-----------------------------------------------------------------------------
\* Every step of the canceler is a step or a stutter of the single slot.
LEMMA StepRefines ==
  ASSUME CancelerIInv, [CancelerNext]_cancelerVars
  PROVE  [Slot!Next]_(Slot!vars)
<1> DEFINE L == {r \in Runs : ctx[r] = "live"}
           S == {r \in Runs : pc[r] # "idle"}
<1> USE NoRunAssumption DEF CancelerIInv, Slot!vars
<1>1. CASE Stop
  <2>1. L' = {}
    BY <1>1 DEF Stop, CtxAfterCancel, CancelerTypeOK, HandleMatchesRun
  <2>2. S' = S
    BY <1>1 DEF Stop
  <2>3. QED
    BY <2>1, <2>2 DEF Slot!Next, Slot!Vacate
<1>2. ASSUME NEW r \in Runs, Begin(r) PROVE Slot!Start(r)
  <2>1. r \notin S /\ S' = S \cup {r}
    BY <1>2 DEF Begin, CancelerTypeOK
  <2>2. L' = {r}
    BY <1>2 DEF Begin, CtxAfterCancel, CancelerTypeOK, HandleMatchesRun
  <2>3. QED
    BY <2>1, <2>2 DEF Slot!Start
<1>3. ASSUME NEW r \in Runs, EndCancel(r) PROVE [Slot!Next]_(Slot!vars)
  <2>1. S' = S
    BY <1>3 DEF EndCancel, CancelerTypeOK
  <2>2. CASE r \in L
    <3>1. L' = {}
      BY <1>3, <2>2 DEF EndCancel, CtxAfterCancel, CancelerTypeOK, HandleMatchesRun
    <3>2. QED
      BY <2>1, <2>2, <3>1 DEF Slot!Next, Slot!Vacate
  <2>3. CASE r \notin L
    <3>1. L' = L
      BY <1>3, <2>3 DEF EndCancel, CtxAfterCancel, CancelerTypeOK
    <3>2. QED
      BY <2>1, <3>1
  <2>4. QED
    BY <2>2, <2>3
<1>4. ASSUME NEW r \in Runs, EndClear(r) PROVE UNCHANGED Slot!vars
  BY <1>4 DEF EndClear, CancelerTypeOK
<1>5. CASE UNCHANGED cancelerVars
  BY <1>5 DEF cancelerVars
<1>6. QED
  BY <1>1, <1>2, <1>3, <1>4, <1>5 DEF CancelerNext, Slot!Next

\* Canceler implements CancelSlot: whatever the interleaving of begin, the two
\* halves of end, and stop, the callers see a slot that holds one operation.
THEOREM Refinement == CancelerSpec => SlotSpec
<1>1. CancelerInit => Slot!Init
  BY DEF CancelerInit, Slot!Init
<1>2. QED
  BY <1>1, Invariance, StepRefines, PTL DEF CancelerSpec, SlotSpec, Slot!Spec
=============================================================================
