---------------------------- MODULE ScannerProofs ---------------------------
(***************************************************************************)
(* For any number of workers, scans and ports: the WaitGroup of Pool.run   *)
(* counts exactly the probes in somebody's hands, so that no worker can    *)
(* call the observer of a scan that has returned; every port is offered    *)
(* and counted once and none is lost, so that Pool.Scan keeps the contract *)
(* of ScanContract; and the total is announced exactly once.               *)
(* The operation over it, for any number of hosts and slots.  The names    *)
(* and the targets of a scan, for any zone.                                *)
(***************************************************************************)
EXTENDS Scanners, FiniteSetTheorems, SequenceTheorems, WellFoundedInduction, TLAPS

LEMMA HoldersFinite == ASSUME NEW s \in Scans
                       PROVE  IsFiniteSet(Holders(s)) /\ Cardinality(Holders(s)) \in Nat
BY PoolAssumption, FS_Subset, FS_CardinalityType DEF Holders

LEMMA OfferCardinality ==
  ASSUME OfferPending, NEW s \in Scans
  PROVE  IF offer[s] = {} THEN Cardinality(offer[s]) = 0 ELSE Cardinality(offer[s]) = 1
BY FS_EmptySet, FS_Singleton DEF OfferPending

LEMMA InitIInv == Init => IInv
<1> SUFFICES ASSUME Init PROVE IInv
  OBVIOUS
<1>1. \A s \in Scans : Holders(s) = {}
  BY DEF Init, Holders
<1>2. InflightExact
  <2>1. \A s \in Scans : offer[s] = {} /\ inflight[s] = 0
    BY DEF Init
  <2>2. Cardinality({}) = 0
    BY FS_EmptySet
  <2>3. QED
    BY <1>1, <2>1, <2>2 DEF InflightExact
<1>3. TypeOK
  <2>1. progress \in [Scans -> Seq(Nat)]
    <3>1. << >> \in Seq(Nat)
      OBVIOUS
    <3>2. QED
      BY <3>1 DEF Init
  <2>2. QED
    BY <2>1 DEF Init, TypeOK
<1>4. QED
  BY <1>2, <1>3 DEF Init, IInv, StepMatchesJob, OfferPending, QuietOutside

\* A step that leaves the workers' jobs, the offers and the counter alone.
LEMMA Unmoved ==
  ASSUME InflightExact, UNCHANGED <<inflight, job, offer>>
  PROVE  InflightExact'
<1>1. \A s \in Scans : Holders(s)' = Holders(s)
  BY DEF Holders
<1>2. QED
  BY <1>1 DEF InflightExact

\* A worker gives up its job (Finish): one holder fewer, the counter follows.
LEMMA FinishKeepsExact ==
  ASSUME IInv, NEW w \in Workers, job[w] # NoJob, Finish(w), UNCHANGED offer
  PROVE  InflightExact'
<1> DEFINE t == job[w][1]
<1>1. t \in Scans /\ job' = [job EXCEPT ![w] = NoJob] /\ inflight' = [inflight EXCEPT ![t] = @ - 1]
  BY DEF IInv, TypeOK, Jobs, Finish
<1>2. ASSUME NEW s \in Scans PROVE Holders(s)' = Holders(s) \ {w}
  BY <1>1 DEF Holders, IInv, TypeOK
<1>3. ASSUME NEW s \in Scans
      PROVE  inflight'[s] = Cardinality(Holders(s)') + Cardinality(offer'[s])
  <2>1. w \in Holders(s) <=> s = t
    BY <1>1 DEF Holders
  <2>2. Cardinality(Holders(s)') = IF s = t THEN Cardinality(Holders(s)) - 1
                                            ELSE Cardinality(Holders(s))
    BY <1>2, <2>1, HoldersFinite, FS_RemoveElement
  <2>3. Cardinality(offer[s]) \in Nat
    BY OfferCardinality DEF IInv
  <2>4. inflight[s] \in Nat /\ inflight[s] = Cardinality(Holders(s)) + Cardinality(offer[s])
    BY DEF IInv, TypeOK, InflightExact
  <2>5. inflight'[s] = IF s = t THEN inflight[s] - 1 ELSE inflight[s]
    BY <1>1 DEF IInv, TypeOK
  <2>6. QED
    BY <2>2, <2>3, <2>4, <2>5, HoldersFinite
<1>4. QED
  BY <1>3 DEF InflightExact

-----------------------------------------------------------------------------
(* The actions of the submitting goroutine.                                *)

\* Those that only move the call along.
LEMMA CallMoves ==
  ASSUME IInv, NEW s \in Scans,
         Enter(s) \/ Plan(s) \/ PlanFails(s) \/ AllSubmitted(s) \/ Return(s)
  PROVE  IInv'
<1> USE DEF Enter, Plan, PlanFails, AllSubmitted, Return, Goto, worker, tally
<1>1. TypeOK'
  BY DEF IInv, TypeOK
<1>2. InflightExact'
  BY Unmoved DEF IInv
<1>3. StepMatchesJob' /\ OfferPending'
  <2>1. StepMatchesJob'
    BY DEF IInv, StepMatchesJob
  <2>2. offer[s] = {}
    BY DEF IInv, OfferPending
  <2>3. \A t \in Scans : offer'[t] = offer[t] /\ (t # s => call'[t] = call[t])
    BY DEF IInv, TypeOK
  <2>4. OfferPending'
    BY <2>2, <2>3 DEF IInv, OfferPending
  <2>5. QED
    BY <2>1, <2>4
<1>4. QuietOutside'
  BY DEF IInv, TypeOK, QuietOutside
<1>5. QED
  BY <1>1, <1>2, <1>3, <1>4 DEF IInv

LEMMA OfferIInv == ASSUME IInv, NEW s \in Scans, Offer(s) PROVE IInv'
<1> USE DEF Offer, worker, tally
<1>1. PICK p \in Ports : offer' = [offer EXCEPT ![s] = {p}]
  OBVIOUS
<1>2. TypeOK'
  BY <1>1 DEF IInv, TypeOK
<1>3. StepMatchesJob' /\ OfferPending' /\ QuietOutside'
  BY <1>1 DEF IInv, TypeOK, StepMatchesJob, OfferPending, QuietOutside
<1>4. ASSUME NEW t \in Scans
      PROVE  inflight'[t] = Cardinality(Holders(t)') + Cardinality(offer'[t])
  <2>1. Holders(t)' = Holders(t)
    BY DEF Holders
  <2>2. inflight[t] = Cardinality(Holders(t)) + Cardinality(offer[t])
    BY DEF IInv, InflightExact
  <2>3. CASE t = s
    <3>1. offer'[t] = {p} /\ offer[t] = {} /\ inflight'[t] = inflight[t] + 1
      BY <1>1, <2>3 DEF IInv, TypeOK
    <3>2. Cardinality(offer'[t]) = 1 /\ Cardinality(offer[t]) = 0
      BY <3>1, FS_EmptySet, FS_Singleton
    <3>3. Cardinality(Holders(t)) \in Nat
      BY HoldersFinite
    <3>4. QED
      BY <2>1, <2>2, <3>1, <3>2, <3>3
  <2>4. CASE t # s
    BY <1>1, <2>1, <2>2, <2>4 DEF IInv, TypeOK
  <2>5. QED
    BY <2>3, <2>4
<1>5. QED
  BY <1>2, <1>3, <1>4 DEF IInv, InflightExact

LEMMA HandoffIInv ==
  ASSUME IInv, NEW s \in Scans, NEW w \in Workers, Handoff(s, w) PROVE IInv'
<1> USE DEF Handoff, tally
<1>1. PICK p \in offer[s] : job' = [job EXCEPT ![w] = <<s, p>>]
  OBVIOUS
<1>2. /\ p \in Ports /\ offer[s] = {p} /\ job[w] = NoJob
      /\ <<s, p>> \in Jobs /\ <<s, p>> # NoJob
  <2>1. p \in Ports /\ offer[s] = {p}
    BY DEF IInv, OfferPending
  <2>2. job[w] = NoJob
    BY DEF IInv, StepMatchesJob
  <2>3. <<s, p>> \in Jobs /\ <<s, p>> # NoJob
    BY <2>1, PoolAssumption DEF Jobs
  <2>4. QED
    BY <2>1, <2>2, <2>3
<1>3. TypeOK'
  BY <1>1, <1>2 DEF IInv, TypeOK
<1>4. StepMatchesJob' /\ OfferPending' /\ QuietOutside'
  BY <1>1, <1>2 DEF IInv, TypeOK, StepMatchesJob, OfferPending, QuietOutside
<1>5. ASSUME NEW t \in Scans
      PROVE  inflight'[t] = Cardinality(Holders(t)') + Cardinality(offer'[t])
  <2>1. inflight'[t] = Cardinality(Holders(t)) + Cardinality(offer[t])
    BY DEF IInv, InflightExact
  <2>2. CASE t = s
    <3>1. Holders(t)' = Holders(t) \cup {w} /\ w \notin Holders(t)
      BY <1>1, <1>2, <2>2 DEF Holders, IInv, TypeOK
    <3>2. Cardinality(Holders(t)') = Cardinality(Holders(t)) + 1
      BY <3>1, HoldersFinite, FS_AddElement
    <3>3. offer'[t] = {} /\ offer[t] = {p}
      BY <1>2, <2>2 DEF IInv, TypeOK
    <3>4. Cardinality({p}) = 1 /\ Cardinality({}) = 0
      BY FS_EmptySet, FS_Singleton
    <3>5. QED
      BY <2>1, <3>2, <3>3, <3>4, HoldersFinite
  <2>3. CASE t # s
    <3>1. Holders(t)' = Holders(t)
      BY <1>1, <1>2, <2>3 DEF Holders, IInv, TypeOK
    <3>2. offer'[t] = offer[t]
      BY <2>3 DEF IInv, TypeOK
    <3>3. QED
      BY <2>1, <3>1, <3>2
  <2>4. QED
    BY <2>2, <2>3
<1>6. QED
  BY <1>3, <1>4, <1>5 DEF IInv, InflightExact

LEMMA GiveUpIInv == ASSUME IInv, NEW s \in Scans, GiveUp(s) PROVE IInv'
<1> USE DEF GiveUp, Goto, worker, tally
<1>1. PICK p \in Ports : offer[s] = {p}
  BY DEF IInv, OfferPending
<1>2. \A t \in Scans : inflight[t] = Cardinality(Holders(t)) + Cardinality(offer[t])
  BY DEF IInv, InflightExact
<1>3. inflight[s] = Cardinality(Holders(s)) + 1
  BY <1>1, <1>2, FS_Singleton
<1>4. TypeOK'
  BY <1>3, HoldersFinite DEF IInv, TypeOK
<1>5. StepMatchesJob' /\ OfferPending' /\ QuietOutside'
  BY <1>1 DEF IInv, TypeOK, StepMatchesJob, OfferPending, QuietOutside
<1>6. ASSUME NEW t \in Scans
      PROVE  inflight'[t] = Cardinality(Holders(t)') + Cardinality(offer'[t])
  <2>1. Holders(t)' = Holders(t)
    BY DEF Holders
  <2>2. CASE t = s
    <3>1. offer'[t] = {} /\ inflight'[t] = inflight[t] - 1
      BY <2>2 DEF IInv, TypeOK
    <3>2. QED
      BY <1>3, <2>1, <2>2, <3>1, HoldersFinite, FS_EmptySet
  <2>3. CASE t # s
    BY <1>2, <2>1, <2>3 DEF IInv, TypeOK
  <2>4. QED
    BY <2>2, <2>3
<1>7. QED
  BY <1>4, <1>5, <1>6 DEF IInv, InflightExact

-----------------------------------------------------------------------------
(* The actions of a worker.                                                *)

\* Those that keep the job.
LEMMA StepMoves ==
  ASSUME IInv, NEW w \in Workers,
         Count(w) \/ Exit(w) \/ Probe(w)
  PROVE  IInv'
<1> USE DEF Count, Exit, Probe, submitter, tally
<1>1. step[w] # "idle" => job[w] \in Jobs
  <2>1. CASE Exit(w)
    BY <2>1
  <2>2. CASE ~Exit(w)
    BY <2>2 DEF IInv, TypeOK, StepMatchesJob
  <2>3. QED
    BY <2>1, <2>2
<1>2. /\ step' \in [Workers -> {"idle", "taken", "probed", "counted", "exited"}]
      /\ \A v \in Workers : v # w => step'[v] = step[v]
      /\ step'[w] \in {"taken", "probed", "counted"} <=>
           step[w] \in {"taken", "probed", "counted"}
  <2>1. CASE Count(w)
    BY <2>1 DEF IInv, TypeOK
  <2>2. CASE Exit(w)
    BY <2>2 DEF IInv, TypeOK
  <2>3. CASE Probe(w)
    BY <2>3 DEF IInv, TypeOK
  <2>4. QED
    BY <2>1, <2>2, <2>3
<1>3. TypeOK'
  <2>1. step[w] # "idle" => job[w][1] \in Scans /\ job[w][2] \in Ports
    BY <1>1 DEF Jobs
  <2>2. /\ reported' \in [Scans -> SUBSET Ports]
        /\ done' \in [Scans -> Nat] /\ mark' \in [Workers -> Nat]
    <3>1. CASE Count(w)
      <4>1. job[w][1] \in Scans /\ job[w][2] \in Ports /\ done[job[w][1]] + 1 \in Nat
        BY <2>1, <3>1 DEF IInv, TypeOK
      <4>2. done' \in [Scans -> Nat] /\ mark' \in [Workers -> Nat]
        BY <3>1, <4>1 DEF IInv, TypeOK
      <4>3. reported' \in [Scans -> SUBSET Ports]
        BY <3>1, <4>1 DEF IInv, TypeOK
      <4>4. QED
        BY <3>1, <4>2, <4>3 DEF IInv, TypeOK
    <3>2. CASE Exit(w) \/ Probe(w)
      BY <3>2 DEF IInv, TypeOK
    <3>3. QED
      BY <3>1, <3>2
  <2>3. UNCHANGED <<closed, closer, cancelled, call, offered, offer, inflight, job, progress>>
    OBVIOUS
  <2>4. QED
    BY <1>2, <2>2, <2>3 DEF IInv, TypeOK
<1>4. InflightExact' /\ StepMatchesJob' /\ OfferPending' /\ QuietOutside'
  <2>1. UNCHANGED <<call, offer, inflight, job>>
    OBVIOUS
  <2>2. QED
    BY <1>2, <2>1, Unmoved DEF IInv, StepMatchesJob, OfferPending, QuietOutside
<1>5. QED
  BY <1>3, <1>4 DEF IInv

\* Those that release it.
LEMMA StepReleases ==
  ASSUME IInv, NEW w \in Workers, Skip(w) \/ Announce(w) PROVE IInv'
<1>1. /\ job[w] \in Jobs /\ job[w] # NoJob /\ Finish(w)
      /\ UNCHANGED <<closed, closer, cancelled, call, offered, offer, done, reported>>
  BY DEF Skip, Announce, IInv, TypeOK, StepMatchesJob, submitter, tally
<1>2. progress' \in [Scans -> Seq(Nat)]
  <2>1. CASE Skip(w)
    BY <2>1 DEF Skip, tally, IInv, TypeOK
  <2>2. CASE Announce(w)
    <3> DEFINE t == job[w][1]
    <3>1. t \in Scans /\ mark[w] \in Nat /\ progress[t] \in Seq(Nat)
      BY <1>1 DEF IInv, TypeOK, Jobs
    <3>2. Append(progress[t], mark[w]) \in Seq(Nat)
      BY <3>1
    <3>3. progress' = progress \/ progress' = [progress EXCEPT ![t] = Append(progress[t], mark[w])]
      BY <2>2 DEF Announce
    <3>4. QED
      BY <3>1, <3>2, <3>3 DEF IInv, TypeOK
  <2>3. QED
    BY <2>1, <2>2 DEF Skip, Announce
<1>3. InflightExact'
  BY <1>1, FinishKeepsExact
<1>4. \A s \in Scans : inflight'[s] \in Nat
  <2>1. \A s \in Scans : Cardinality(Holders(s)') \in Nat
    <3>1. \A s \in Scans : Holders(s)' \subseteq Workers
      BY DEF Holders
    <3>2. QED
      BY <3>1, PoolAssumption, FS_Subset, FS_CardinalityType
  <2>2. \A s \in Scans : Cardinality(offer'[s]) \in Nat
    BY <1>1, OfferCardinality DEF IInv
  <2>3. QED
    BY <1>3, <2>1, <2>2 DEF InflightExact
<1>5. TypeOK'
  BY <1>1, <1>2, <1>4 DEF IInv, TypeOK, Finish, Jobs
<1>6. StepMatchesJob' /\ OfferPending'
  BY <1>1 DEF IInv, TypeOK, StepMatchesJob, OfferPending, Finish
<1>7. QuietOutside'
  <2>1. job[w][1] \in Scans /\ w \in Holders(job[w][1])
    BY <1>1 DEF Holders, Jobs
  <2>2. inflight[job[w][1]] # 0
    <3>1. Cardinality(Holders(job[w][1])) \in Nat /\ Cardinality(Holders(job[w][1])) # 0
      BY <2>1, HoldersFinite, FS_EmptySet
    <3>2. Cardinality(offer[job[w][1]]) \in Nat
      BY <2>1, OfferCardinality DEF IInv
    <3>3. QED
      BY <2>1, <3>1, <3>2 DEF IInv, InflightExact
  <2>3. QED
    BY <1>1, <2>1, <2>2 DEF IInv, TypeOK, QuietOutside, Finish
<1>8. QED
  BY <1>3, <1>5, <1>6, <1>7 DEF IInv

LEMMA EnvironmentIInv ==
  ASSUME IInv, CloseBegin \/ CloseEnd \/ \E s \in Scans : CancelScan(s)
  PROVE  IInv'
<1> USE DEF CloseBegin, CloseEnd, CancelScan, submitter, worker, tally
<1>1. TypeOK'
  BY DEF IInv, TypeOK
<1>2. InflightExact'
  BY Unmoved DEF IInv
<1>3. UNCHANGED <<job, step, offer, call, inflight>>
  OBVIOUS
<1> HIDE DEF CloseBegin, CloseEnd, CancelScan
<1>5. StepMatchesJob' /\ OfferPending' /\ QuietOutside'
  BY <1>3 DEF IInv, StepMatchesJob, OfferPending, QuietOutside
<1>4. QED
  BY <1>1, <1>2, <1>5 DEF IInv

-----------------------------------------------------------------------------
LEMMA NextIInv == IInv /\ [Next]_vars => IInv'
<1> SUFFICES ASSUME IInv, [Next]_vars PROVE IInv'
  OBVIOUS
<1>1. CASE CloseBegin \/ CloseEnd \/ \E s \in Scans : CancelScan(s)
  BY <1>1, EnvironmentIInv
<1>2. CASE \E s \in Scans : Enter(s) \/ Plan(s) \/ PlanFails(s) \/ AllSubmitted(s) \/ Return(s)
  BY <1>2, CallMoves
<1>3. CASE \E s \in Scans : Offer(s)
  BY <1>3, OfferIInv
<1>4. CASE \E s \in Scans : GiveUp(s)
  BY <1>4, GiveUpIInv
<1>5. CASE \E s \in Scans, w \in Workers : Handoff(s, w)
  BY <1>5, HandoffIInv
<1>6. CASE \E w \in Workers : WorkerStep(w)
  BY <1>6, StepMoves, StepReleases DEF WorkerStep
<1>7. CASE UNCHANGED vars
  <2> USE <1>7 DEF vars, submitter, worker, tally
  <2>1. InflightExact'
    BY Unmoved DEF IInv
  <2>2. QED
    BY <2>1 DEF IInv, TypeOK, StepMatchesJob, OfferPending, QuietOutside
<1>8. QED
  BY <1>1, <1>2, <1>3, <1>4, <1>5, <1>6, <1>7 DEF Next, ScanStep

\* The WaitGroup of every scan counts exactly the probes offered or in a
\* worker's hands (inflight.Add, inflight.Done, probeJob.finish).
THEOREM Invariance == Spec => []IInv
<1>1. QED
  BY InitIInv, NextIInv, PTL DEF Spec

\* Pool.run returns only when no worker holds a probe of the scan any more.
THEOREM QuietAfterReturn == Spec => []NothingAfterReturn
<1>1. IInv => NothingAfterReturn
  <2> SUFFICES ASSUME IInv, NEW s \in Scans, Outcome(s) # "active"
               PROVE  Holders(s) = {}
    BY DEF NothingAfterReturn
  <2>1. inflight[s] = 0
    BY DEF Outcome, IInv, TypeOK, QuietOutside
  <2>2. Cardinality(Holders(s)) = 0
    BY <2>1, HoldersFinite, OfferCardinality DEF IInv, InflightExact
  <2>3. QED
    BY <2>2, HoldersFinite, FS_EmptySet
<1>2. QED
  BY <1>1, Invariance, PTL
-----------------------------------------------------------------------------
(* The way of a port, counted once and lost by nobody.                     *)

\* A counter at zero: no worker and no offer of the scan is left.
LEMMA NobodyHolds ==
  ASSUME IInv, NEW s \in Scans, inflight[s] = 0
  PROVE  offer[s] = {} /\ \A w \in Workers, p \in Ports : job[w] # <<s, p>>
<1>1. Cardinality(Holders(s)) = 0 /\ Cardinality(offer[s]) = 0
  BY HoldersFinite, OfferCardinality DEF IInv, InflightExact
<1>2. Holders(s) = {} /\ offer[s] = {}
  BY <1>1, HoldersFinite, FS_EmptySet, OfferCardinality DEF IInv
<1>3. ASSUME NEW w \in Workers, NEW p \in Ports PROVE job[w] # <<s, p>>
  <2>1. <<s, p>> # NoJob
    BY PoolAssumption
  <2>2. QED
    BY SMTT(30), <1>2, <2>1 DEF Holders
<1>4. QED
  BY <1>2, <1>3

\* A worker at work holds a probe of a scan that has not returned.
LEMMA BusyWorker ==
  ASSUME IInv, NEW w \in Workers, step[w] \in {"taken", "probed", "counted"}
  PROVE  \E s \in Scans, p \in Ports : /\ job[w] = <<s, p>>
                                       /\ call[s] \in {"submitting", "waiting"}
<1>1. job[w] \in Scans \X Ports
  BY DEF IInv, TypeOK, StepMatchesJob, Jobs
<1>2. PICK s \in Scans, p \in Ports : job[w] = <<s, p>>
  BY <1>1
<1>3. inflight[s] # 0
  BY <1>2, NobodyHolds
<1>4. call[s] \in {"submitting", "waiting"}
  BY <1>3 DEF IInv, TypeOK, QuietOutside
<1>5. QED
  BY <1>2, <1>4

LEMMA CallAccounting ==
  ASSUME IInv, Accounting, NEW s \in Scans,
         Enter(s) \/ Plan(s) \/ PlanFails(s) \/ AllSubmitted(s) \/ Return(s)
  PROVE  Accounting'
<1> USE DEF Enter, Plan, PlanFails, AllSubmitted, Return, Goto, worker, tally
<1>1. UNCHANGED <<closed, cancelled, offered, offer, reported, job, step>>
  OBVIOUS
<1>2. /\ OffersFresh' /\ OneWorkerEach' /\ JobsWellFormed' /\ NoneLost'
  BY SMTT(30), <1>1 DEF Accounting, OffersFresh, OneWorkerEach, JobsWellFormed, NoneLost, CutShort
<1>3. \A t \in Scans : t # s => call'[t] = call[t]
  BY DEF IInv, TypeOK
<1>4. call'[s] = "planning" => call[s] = "idle"
  BY DEF IInv, TypeOK
<1>5. call'[s] # "idle"
  BY DEF IInv, TypeOK
<1>6. call'[s] = "waiting" => offered[s] = Ports
  BY DEF IInv, TypeOK
<1>7. NothingEarly'
  BY <1>1, <1>3, <1>4, <1>5 DEF Accounting, NothingEarly
<1>8. AllOffered'
  BY <1>1, <1>3, <1>6 DEF Accounting, AllOffered, CutShort
<1>9. QED
  BY <1>2, <1>7, <1>8 DEF Accounting

LEMMA OfferAccounting ==
  ASSUME IInv, Accounting, NEW s \in Scans, Offer(s) PROVE Accounting'
<1> USE DEF Offer, worker, tally
<1>1. PICK p \in Ports \ offered[s] : /\ offer' = [offer EXCEPT ![s] = {p}]
                                      /\ offered' = [offered EXCEPT ![s] = @ \cup {p}]
  OBVIOUS
<1>2. UNCHANGED <<closed, cancelled, call, reported, job, step>>
  OBVIOUS
<1>3. /\ offer'[s] = {p} /\ offered'[s] = offered[s] \cup {p} /\ offer[s] = {}
      /\ call[s] = "submitting"
      /\ \A t \in Scans : t # s => offer'[t] = offer[t] /\ offered'[t] = offered[t]
  BY <1>1 DEF IInv, TypeOK
<1>4. NothingEarly' /\ AllOffered' /\ OneWorkerEach'
  BY <1>2, <1>3 DEF Accounting, NothingEarly, AllOffered, OneWorkerEach, CutShort
<1>5. OffersFresh'
  BY <1>2, <1>3 DEF Accounting, OffersFresh
<1>6. JobsWellFormed'
  BY <1>2, <1>3 DEF Accounting, JobsWellFormed
<1>7. NoneLost'
  BY SMTT(30), <1>2, <1>3 DEF Accounting, NoneLost, CutShort
<1>8. QED
  BY <1>4, <1>5, <1>6, <1>7 DEF Accounting

LEMMA HandoffAccounting ==
  ASSUME IInv, Accounting, NEW s \in Scans, NEW w \in Workers, Handoff(s, w)
  PROVE  Accounting'
<1> USE DEF Handoff, tally
<1>1. PICK p \in offer[s] : job' = [job EXCEPT ![w] = <<s, p>>]
  OBVIOUS
<1>2. UNCHANGED <<closed, cancelled, call, offered, reported>>
  OBVIOUS
<1>3. p \in Ports /\ offer[s] = {p} /\ p \in offered[s] /\ p \notin reported[s]
  <2>1. p \in Ports /\ offer[s] = {p}
    BY DEF IInv, TypeOK, OfferPending
  <2>2. p \in offered[s] /\ p \notin reported[s]
    BY DEF Accounting, OffersFresh
  <2>3. QED
    BY <2>1, <2>2
<1>4. job[w] = NoJob /\ \A t \in Scans, q \in Ports : <<t, q>> # NoJob
  BY PoolAssumption DEF IInv, StepMatchesJob
<1>5. \A v \in Workers : job[v] # <<s, p>>
  BY <1>3 DEF Accounting, JobsWellFormed
<1>6. /\ offer'[s] = {} /\ job'[w] = <<s, p>> /\ step'[w] = "taken"
      /\ \A t \in Scans : t # s => offer'[t] = offer[t]
      /\ \A v \in Workers : v # w => job'[v] = job[v] /\ step'[v] = step[v]
  BY <1>1 DEF IInv, TypeOK
<1>7. NothingEarly' /\ AllOffered' /\ OffersFresh'
  BY <1>2, <1>6 DEF Accounting, NothingEarly, AllOffered, OffersFresh, CutShort
<1>8. OneWorkerEach'
  BY <1>5, <1>6 DEF Accounting, OneWorkerEach
<1>9. JobsWellFormed'
  <2> SUFFICES ASSUME NEW v \in Workers, NEW t \in Scans, NEW q \in Ports, job'[v] = <<t, q>>
               PROVE  /\ q \in offered[t] /\ q \notin offer'[t]
                      /\ q \in reported[t] <=> step'[v] = "counted"
    BY <1>2 DEF JobsWellFormed
  <2>1. CASE v = w
    BY <1>3, <1>6, <2>1
  <2>2. CASE v # w
    BY <1>6, <2>2 DEF Accounting, JobsWellFormed
  <2>3. QED
    BY <2>1, <2>2
<1>10. NoneLost'
  <2> SUFFICES ASSUME NEW t \in Scans, ~CutShort(t), NEW q \in offered[t]
               PROVE  q \in offer'[t] \cup reported[t] \/ \E v \in Workers : job'[v] = <<t, q>>
    BY SMTT(30), <1>2 DEF NoneLost, CutShort
  <2>1. CASE q \in offer[t]
    BY <1>3, <1>6, <2>1
  <2>2. CASE q \in reported[t]
    BY <2>2
  <2>3. CASE \E v \in Workers : job[v] = <<t, q>>
    <3>1. q \in Ports
      BY DEF IInv, TypeOK
    <3>2. PICK v \in Workers : job[v] = <<t, q>>
      BY <2>3
    <3>3. v # w
      BY <1>4, <3>1, <3>2
    <3>4. QED
      BY <1>6, <3>2, <3>3
  <2>4. QED
    BY <2>1, <2>2, <2>3 DEF Accounting, NoneLost
<1>11. QED
  BY <1>7, <1>8, <1>9, <1>10 DEF Accounting

LEMMA GiveUpAccounting ==
  ASSUME IInv, Accounting, NEW s \in Scans, GiveUp(s) PROVE Accounting'
<1> USE DEF GiveUp, Goto, worker, tally
<1>1. UNCHANGED <<closed, cancelled, offered, reported, job, step>> /\ CutShort(s)
  BY DEF CutShort
<1>2. /\ offer'[s] = {} /\ call'[s] = "waiting"
      /\ \A t \in Scans : t # s => offer'[t] = offer[t] /\ call'[t] = call[t]
  BY DEF IInv, TypeOK
<1>3. NothingEarly' /\ AllOffered' /\ OneWorkerEach'
  BY <1>1, <1>2 DEF Accounting, NothingEarly, AllOffered, OneWorkerEach, CutShort
<1>4. OffersFresh' /\ JobsWellFormed'
  BY <1>1, <1>2 DEF Accounting, OffersFresh, JobsWellFormed
<1>5. NoneLost'
  BY <1>1, <1>2 DEF Accounting, NoneLost, CutShort
<1>6. QED
  BY <1>3, <1>4, <1>5 DEF Accounting

LEMMA CountAccounting ==
  ASSUME IInv, Accounting, NEW w \in Workers, Count(w) PROVE Accounting'
<1> USE DEF Count, submitter
<1>1. PICK s \in Scans, p \in Ports : /\ job[w] = <<s, p>>
                                      /\ call[s] \in {"submitting", "waiting"}
  BY BusyWorker
<1>2. UNCHANGED <<closed, cancelled, call, offered, offer, job>>
  OBVIOUS
<1>3. /\ reported'[s] = reported[s] \cup {p} /\ step'[w] = "counted"
      /\ \A t \in Scans : t # s => reported'[t] = reported[t]
      /\ \A v \in Workers : v # w => step'[v] = step[v]
  BY <1>1 DEF IInv, TypeOK
<1>4. p \in offered[s] /\ p \notin offer[s] /\ \A v \in Workers : job[v] = <<s, p>> => v = w
  <2>1. job[w] # NoJob
    BY <1>1, PoolAssumption
  <2>2. QED
    BY <1>1, <2>1 DEF Accounting, JobsWellFormed, OneWorkerEach
<1>5. NothingEarly' /\ AllOffered' /\ OneWorkerEach'
  BY <1>1, <1>2, <1>3 DEF Accounting, NothingEarly, AllOffered, OneWorkerEach, CutShort
<1>6. OffersFresh'
  BY <1>2, <1>3, <1>4 DEF Accounting, OffersFresh
<1>7. JobsWellFormed'
  <2> SUFFICES ASSUME NEW v \in Workers, NEW t \in Scans, NEW q \in Ports, job[v] = <<t, q>>
               PROVE  /\ q \in offered[t] /\ q \notin offer[t]
                      /\ q \in reported'[t] <=> step'[v] = "counted"
    BY <1>2 DEF JobsWellFormed
  <2>1. CASE v = w
    BY <1>1, <1>3, <1>4, <2>1
  <2>2. CASE v # w
    <3>1. t # s \/ q # p
      BY <1>4, <2>2
    <3>2. /\ q \in offered[t] /\ q \notin offer[t]
          /\ q \in reported[t] <=> step[v] = "counted"
      BY DEF Accounting, JobsWellFormed
    <3>3. QED
      BY <1>3, <2>2, <3>1, <3>2
  <2>3. QED
    BY <2>1, <2>2
<1>8. NoneLost'
  BY <1>2, <1>3 DEF Accounting, NoneLost, CutShort
<1>9. QED
  BY <1>5, <1>6, <1>7, <1>8 DEF Accounting

LEMMA ReleaseAccounting ==
  ASSUME IInv, Accounting, NEW w \in Workers, Skip(w) \/ Announce(w) PROVE Accounting'
<1>1. PICK s \in Scans, p \in Ports : /\ job[w] = <<s, p>>
                                      /\ call[s] \in {"submitting", "waiting"}
  BY BusyWorker DEF Skip, Announce
<1>2. /\ UNCHANGED <<closed, cancelled, call, offered, offer, reported>>
      /\ job' = [job EXCEPT ![w] = NoJob] /\ step' = [step EXCEPT ![w] = "idle"]
  BY DEF Skip, Announce, Finish, submitter, tally
<1>3. /\ job'[w] = NoJob
      /\ \A v \in Workers : v # w => job'[v] = job[v] /\ step'[v] = step[v]
  BY <1>2 DEF IInv, TypeOK
<1>4. CutShort(s) \/ p \in reported[s]
  BY <1>1 DEF Skip, Announce, CutShort, Accounting, JobsWellFormed
<1>5. NothingEarly' /\ AllOffered' /\ OffersFresh'
  BY <1>2 DEF Accounting, NothingEarly, AllOffered, OffersFresh, CutShort
<1>6. OneWorkerEach'
  BY <1>3 DEF Accounting, OneWorkerEach
<1>7. JobsWellFormed'
  <2> SUFFICES ASSUME NEW v \in Workers, NEW t \in Scans, NEW q \in Ports, job'[v] = <<t, q>>
               PROVE  /\ q \in offered[t] /\ q \notin offer[t]
                      /\ q \in reported[t] <=> step'[v] = "counted"
    BY <1>2 DEF JobsWellFormed
  <2>1. v # w
    BY <1>3, PoolAssumption
  <2>2. QED
    BY <1>3, <2>1 DEF Accounting, JobsWellFormed
<1>8. NoneLost'
  <2> SUFFICES ASSUME NEW t \in Scans, ~CutShort(t), NEW q \in offered[t]
               PROVE  q \in offer[t] \cup reported[t] \/ \E v \in Workers : job'[v] = <<t, q>>
    BY <1>2 DEF NoneLost, CutShort
  <2>1. CASE q \in offer[t] \cup reported[t]
    BY <2>1
  <2>2. CASE \E v \in Workers : job[v] = <<t, q>>
    BY <1>1, <1>3, <1>4, <2>2
  <2>3. QED
    BY <2>1, <2>2 DEF Accounting, NoneLost
<1>9. QED
  BY <1>5, <1>6, <1>7, <1>8 DEF Accounting

\* The steps that neither move a port nor a call.
LEMMA OtherAccounting ==
  ASSUME IInv, Accounting,
         \/ \E w \in Workers : Probe(w) \/ Exit(w)
         \/ CloseBegin \/ CloseEnd \/ (\E s \in Scans : CancelScan(s))
         \/ UNCHANGED vars
  PROVE  Accounting'
<1> USE DEF Probe, Exit, CloseBegin, CloseEnd, CancelScan, vars, submitter, worker, tally
<1>1. UNCHANGED <<call, offered, offer, reported, job>>
  OBVIOUS
<1>2. \A s \in Scans : CutShort(s) => CutShort(s)'
  BY DEF CutShort
<1>3. \A w \in Workers : step'[w] = "counted" <=> step[w] = "counted"
  BY DEF IInv, TypeOK
<1>4. NothingEarly' /\ OffersFresh' /\ OneWorkerEach' /\ JobsWellFormed'
  BY <1>1, <1>3 DEF Accounting, NothingEarly, OffersFresh, OneWorkerEach, JobsWellFormed
<1>5. NoneLost' /\ AllOffered'
  BY <1>1, <1>2 DEF Accounting, NoneLost, AllOffered
<1>6. QED
  BY <1>4, <1>5 DEF Accounting

LEMMA NextAccounting == IInv /\ Accounting /\ [Next]_vars => Accounting'
<1> SUFFICES ASSUME IInv, Accounting, [Next]_vars PROVE Accounting'
  OBVIOUS
<1>1. CASE \/ \E w \in Workers : Probe(w) \/ Exit(w)
           \/ CloseBegin \/ CloseEnd \/ (\E s \in Scans : CancelScan(s))
           \/ UNCHANGED vars
  BY <1>1, OtherAccounting
<1>2. CASE \E s \in Scans : Enter(s) \/ Plan(s) \/ PlanFails(s) \/ AllSubmitted(s) \/ Return(s)
  BY <1>2, CallAccounting
<1>3. CASE \E s \in Scans : Offer(s)
  BY <1>3, OfferAccounting
<1>4. CASE \E s \in Scans : GiveUp(s)
  BY <1>4, GiveUpAccounting
<1>5. CASE \E s \in Scans, w \in Workers : Handoff(s, w)
  BY <1>5, HandoffAccounting
<1>6. CASE \E w \in Workers : Count(w)
  BY <1>6, CountAccounting
<1>7. CASE \E w \in Workers : Skip(w) \/ Announce(w)
  BY <1>7, ReleaseAccounting
<1>8. QED
  BY <1>1, <1>2, <1>3, <1>4, <1>5, <1>6, <1>7 DEF Next, ScanStep, WorkerStep

\* A port of a scan is offered once, probed by one worker, counted once, and
\* lost only by a scan that was cancelled or whose pool was closed.
THEOREM PortsAccounted == Spec => []Accounting
<1>1. Init => Accounting
  BY PoolAssumption
     DEF Init, Accounting, NothingEarly, OffersFresh, OneWorkerEach, JobsWellFormed,
         NoneLost, AllOffered
<1>2. QED
  BY <1>1, Invariance, NextAccounting, PTL DEF Spec

-----------------------------------------------------------------------------
(* The contract of Pool.Scan, step by step.                                *)

\* A call that is neither cancelled nor under a Close has counted every port
\* by the time its counter reaches zero.
LEMMA CompleteWhenQuiet ==
  ASSUME IInv, Accounting, NEW s \in Scans, call[s] = "waiting", inflight[s] = 0
  PROVE  CutShort(s) \/ reported[s] = Ports
<1>1. SUFFICES ASSUME ~CutShort(s) PROVE reported[s] = Ports
  OBVIOUS
<1>2. offered[s] = Ports
  BY <1>1 DEF Accounting, AllOffered
<1>3. \A p \in Ports : p \in reported[s]
  BY <1>1, <1>2, NobodyHolds DEF Accounting, NoneLost
<1>4. QED
  BY <1>3 DEF IInv, TypeOK

\* The steps that a caller does not see.
LEMMA HiddenSteps ==
  ASSUME IInv,
         \/ \E s \in Scans : \/ Plan(s) \/ Offer(s) \/ GiveUp(s) \/ AllSubmitted(s)
                             \/ \E w \in Workers : Handoff(s, w)
         \/ \E w \in Workers : Skip(w) \/ Probe(w) \/ Announce(w) \/ Exit(w)
         \/ CloseEnd \/ UNCHANGED vars
  PROVE  UNCHANGED Contract!vars
<1> USE DEF Plan, Offer, GiveUp, AllSubmitted, Handoff, Skip, Probe, Announce, Exit, Finish, Goto,
            CloseEnd, vars, submitter, worker, tally
<1>1. UNCHANGED <<closed, cancelled, reported>>
  OBVIOUS
<1>2. \A s \in Scans : Outcome(s)' = Outcome(s)
  <2>1. CASE \E s \in Scans : Plan(s) \/ GiveUp(s) \/ AllSubmitted(s)
    <3>1. PICK s \in Scans : Plan(s) \/ GiveUp(s) \/ AllSubmitted(s)
      BY <2>1
    <3>2. /\ call[s] \in {"planning", "submitting"} /\ call'[s] \in {"submitting", "waiting"}
          /\ \A t \in Scans : t # s => call'[t] = call[t]
      <4>1. call \in [Scans -> {"idle", "planning", "submitting", "waiting", "ok", "error"}]
        BY DEF IInv, TypeOK
      <4>2. offer[s] # {} => call[s] = "submitting"
        BY DEF IInv, OfferPending
      <4>3. /\ call[s] \in {"planning", "submitting"}
            /\ \E k \in {"submitting", "waiting"} : call' = [call EXCEPT ![s] = k]
        BY <3>1, <4>2
      <4>4. QED
        BY <4>1, <4>3
    <3>3. QED
      BY <3>2 DEF Outcome
  <2>2. CASE UNCHANGED call
    BY <2>2 DEF Outcome
  <2>3. QED
    BY <2>1, <2>2
<1>3. QED
  BY <1>1, <1>2 DEF Contract!vars

LEMMA OutcomeMoves ==
  ASSUME IInv, NEW s \in Scans, NEW to, Goto(s, to)
  PROVE  [t \in Scans |-> Outcome(t)]'
           = [[t \in Scans |-> Outcome(t)] EXCEPT
               ![s] = IF to \in {"idle", "ok", "error"} THEN to ELSE "active"]
<1>1. \A t \in Scans : call'[t] = IF t = s THEN to ELSE call[t]
  BY DEF Goto, IInv, TypeOK
<1>2. QED
  BY <1>1 DEF Outcome

LEMMA StepKeepsContract ==
  ASSUME IInv, Accounting, [Next]_vars
  PROVE  [Contract!Next]_(Contract!vars)
<1> DEFINE O == [t \in Scans |-> Outcome(t)]
<1>1. CASE \/ \E s \in Scans : \/ Plan(s) \/ Offer(s) \/ GiveUp(s) \/ AllSubmitted(s)
                               \/ \E w \in Workers : Handoff(s, w)
           \/ \E w \in Workers : Skip(w) \/ Probe(w) \/ Announce(w) \/ Exit(w)
           \/ CloseEnd \/ UNCHANGED vars
  BY <1>1, HiddenSteps
<1>2. ASSUME NEW s \in Scans, Enter(s) PROVE Contract!Next
  <2>1. O[s] = "idle" /\ reported[s] = {} /\ UNCHANGED <<reported, cancelled, closed>>
    BY <1>2 DEF Enter, Outcome, tally, Accounting, NothingEarly
  <2>2. O' = [O EXCEPT ![s] = IF closed THEN "error" ELSE "active"]
    BY <1>2, OutcomeMoves DEF Enter
  <2>3. Contract!Call(s) \/ Contract!Fail(s)
    BY <2>1, <2>2 DEF Contract!Call, Contract!Fail
  <2>4. QED
    BY <2>3 DEF Contract!Next
<1>3. ASSUME NEW s \in Scans, PlanFails(s) PROVE Contract!Next
  <2>1. O[s] = "active" /\ reported[s] = {} /\ UNCHANGED <<reported, cancelled, closed>>
    BY <1>3 DEF PlanFails, Outcome, tally, Accounting, NothingEarly
  <2>2. O' = [O EXCEPT ![s] = "error"]
    BY <1>3, OutcomeMoves DEF PlanFails
  <2>3. Contract!Fail(s)
    BY <2>1, <2>2 DEF Contract!Fail
  <2>4. QED
    BY <2>3 DEF Contract!Next
<1>4. ASSUME NEW s \in Scans, Return(s) PROVE Contract!Next
  <2>1. O[s] = "active" /\ UNCHANGED <<reported, cancelled, closed>>
    BY <1>4 DEF Return, Outcome, tally
  <2>2. O' = [O EXCEPT ![s] = IF s \in cancelled THEN "error" ELSE "ok"]
    BY <1>4, OutcomeMoves DEF Return
  <2>3. s \in cancelled \/ closed \/ reported[s] = Ports
    BY <1>4, CompleteWhenQuiet DEF Return, CutShort
  <2>4. Contract!Complete(s) \/ Contract!Fail(s)
    BY <2>1, <2>2, <2>3 DEF Contract!Complete, Contract!Fail
  <2>5. QED
    BY <2>4 DEF Contract!Next
<1>5. ASSUME NEW w \in Workers, Count(w) PROVE Contract!Next
  <2>1. PICK s \in Scans, p \in Ports : /\ job[w] = <<s, p>>
                                        /\ call[s] \in {"submitting", "waiting"}
    BY <1>5, BusyWorker DEF Count
  <2>2. p \notin reported[s] /\ O[s] = "active"
    BY <1>5, <2>1 DEF Count, Accounting, JobsWellFormed, Outcome
  <2>3. /\ reported' = [reported EXCEPT ![s] = @ \cup {p}] /\ O' = O
        /\ UNCHANGED <<cancelled, closed>>
    BY <1>5, <2>1 DEF Count, submitter, Outcome
  <2>4. Contract!Report(s, p)
    BY <2>2, <2>3 DEF Contract!Report
  <2>5. QED
    BY <2>4 DEF Contract!Next
<1>6. ASSUME NEW s \in Scans, CancelScan(s) PROVE Contract!Next
  BY <1>6 DEF CancelScan, submitter, tally, Outcome, Contract!CancelScan, Contract!Next
<1>7. CASE CloseBegin
  BY <1>7 DEF CloseBegin, submitter, tally, Outcome, Contract!Close, Contract!Next
<1>8. QED
  BY <1>1, <1>2, <1>3, <1>4, <1>5, <1>6, <1>7 DEF Next, ScanStep, WorkerStep

\* Pool.Scan keeps the contract of ScanContract, whatever the pool, the scans
\* that share it, their cancellations and the moment of a Close.
THEOREM Refinement == Spec => ContractSpec
<1>1. Init => Contract!Init
  BY DEF Init, Contract!Init, Outcome
<1>2. QED
  BY <1>1, Invariance, PortsAccounted, StepKeepsContract, PTL DEF Spec, ContractSpec, Contract!Spec

-----------------------------------------------------------------------------
(* The values of the counter, on their way from AddInt64 to the observer.  *)

\* A step that leaves the counters and the marked workers of the scans alone.
LEMMA TallyUnmoved ==
  ASSUME TallyInv, UNCHANGED <<done, reported, progress, mark>>,
         \A s \in Scans : Marked(s)' = Marked(s)
  PROVE  TallyInv'
<1>1. \A s \in Scans : Announced(s)' = Announced(s)
  BY DEF Announced
<1>2. DoneCounts' /\ MarksApart' /\ MarksFresh' /\ AnnouncedOnce' /\ TotalComing'
  BY <1>1 DEF TallyInv, DoneCounts, MarksApart, MarksFresh, AnnouncedOnce, TotalComing
<1>3. QED
  BY <1>2 DEF TallyInv

LEMMA MarkedStay ==
  ASSUME IInv, NEW w \in Workers, step[w] # "counted", step'[w] # "counted",
         \A v \in Workers : v # w => job'[v] = job[v] /\ step'[v] = step[v]
  PROVE  \A s \in Scans : Marked(s)' = Marked(s)
BY DEF Marked, Holders

LEMMA CountTally ==
  ASSUME IInv, Accounting, TallyInv, NEW w \in Workers, Count(w) PROVE TallyInv'
<1> USE DEF Count, submitter
<1>1. PICK s \in Scans, p \in Ports : /\ job[w] = <<s, p>>
                                      /\ call[s] \in {"submitting", "waiting"}
  BY BusyWorker
<1>2. /\ done'[s] = done[s] + 1 /\ done[s] \in Nat /\ mark'[w] = done[s] + 1
      /\ reported'[s] = reported[s] \cup {p} /\ p \notin reported[s]
      /\ \A t \in Scans : t # s => done'[t] = done[t] /\ reported'[t] = reported[t]
      /\ \A v \in Workers : v # w => mark'[v] = mark[v] /\ step'[v] = step[v]
  BY <1>1 DEF IInv, TypeOK, Accounting, JobsWellFormed
<1>3. /\ Marked(s)' = Marked(s) \cup {w} /\ w \notin Marked(s)
      /\ \A t \in Scans : t # s => Marked(t)' = Marked(t)
      /\ \A t \in Scans : t # s => w \notin Marked(t)
  <2>1. step'[w] = "counted" /\ job[w] # NoJob /\ job[w][1] = s
    BY <1>1, PoolAssumption DEF IInv, TypeOK
  <2>2. QED
    BY <1>2, <2>1 DEF Marked, Holders
<1>4. \A t \in Scans : Announced(t)' = Announced(t) /\ progress'[t] = progress[t]
  BY DEF Announced
<1>5. \A t \in Scans, v \in Workers : mark[v] \in Nat /\ done[t] \in Nat
  BY DEF IInv, TypeOK
<1>6. \A t \in Scans : \A n \in Announced(t) : n \in Nat
  BY DEF IInv, TypeOK, Announced
<1>7. \A t \in Scans : Marked(t) \subseteq Workers
  BY DEF Marked, Holders
<1>8. \A t \in Scans : /\ \A n \in Announced(t) : n <= done[t]
                       /\ \A v \in Marked(t) : mark[v] <= done[t]
  BY DEF TallyInv, MarksFresh, AnnouncedOnce
<1>9. DoneCounts'
  <2>1. ASSUME NEW t \in Scans PROVE done'[t] = Cardinality(reported'[t])
    <3>1. done[t] = Cardinality(reported[t])
      BY DEF TallyInv, DoneCounts
    <3>2. IsFiniteSet(reported[t])
      BY PoolAssumption, FS_Subset DEF IInv, TypeOK
    <3>3. CASE t = s
      <4>1. Cardinality(reported[s] \cup {p}) = Cardinality(reported[s]) + 1
        BY <1>2, <3>2, <3>3, FS_AddElement
      <4>2. QED
        BY <1>2, <3>1, <3>3, <4>1
    <3>4. CASE t # s
      BY <1>2, <3>1, <3>4
    <3>5. QED
      BY <3>3, <3>4
  <2>2. QED
    BY <2>1 DEF DoneCounts
<1>10. MarksApart'
  <2> SUFFICES ASSUME NEW t \in Scans, NEW u \in Marked(t)', NEW v \in Marked(t)',
                      mark'[u] = mark'[v]
               PROVE  u = v
    BY DEF MarksApart
  <2>1. CASE u # w /\ v # w
    <3>1. u \in Marked(t) /\ v \in Marked(t) /\ mark[u] = mark[v]
      BY <1>2, <1>3, <1>7, <2>1
    <3>2. QED
      BY <3>1 DEF TallyInv, MarksApart
  <2>2. CASE u = w \/ v = w
    <3>1. t = s
      BY <1>3, <2>2
    <3>2. \A x \in Marked(s) : mark'[x] # done[s] + 1
      BY <1>2, <1>3, <1>5, <1>7, <1>8
    <3>3. QED
      BY <1>2, <1>3, <2>2, <3>1, <3>2
  <2>3. QED
    BY <2>1, <2>2
<1>11. MarksFresh'
  <2> SUFFICES ASSUME NEW t \in Scans, NEW v \in Marked(t)'
               PROVE  mark'[v] <= done'[t] /\ mark'[v] \notin Announced(t)
    BY <1>4 DEF MarksFresh
  <2>1. CASE v = w
    <3>1. t = s
      BY <1>3, <2>1
    <3>2. \A n \in Announced(s) : n # done[s] + 1
      BY <1>2, <1>6, <1>8
    <3>3. QED
      BY <1>2, <2>1, <3>1, <3>2
  <2>2. CASE v # w
    <3>1. v \in Marked(t) /\ mark'[v] = mark[v]
      BY <1>2, <1>3, <1>7, <2>2
    <3>2. mark[v] <= done[t] /\ mark[v] \notin Announced(t)
      BY <3>1 DEF TallyInv, MarksFresh
    <3>3. done'[t] = done[t] \/ done'[t] = done[t] + 1
      BY <1>2
    <3>4. mark[v] \in Nat /\ done[t] \in Nat
      BY <1>5, <1>7, <3>1
    <3>5. QED
      BY <3>1, <3>2, <3>3, <3>4
  <2>3. QED
    BY <2>1, <2>2
<1>12. AnnouncedOnce'
  <2>1. ASSUME NEW t \in Scans, NEW n \in Announced(t) PROVE n <= done'[t]
    BY <1>2, <1>5, <1>6, <1>8
  <2>2. QED
    BY <1>4, <2>1 DEF TallyInv, AnnouncedOnce
<1>13. TotalComing'
  <2> SUFFICES ASSUME NEW t \in Scans, done'[t] = Total
               PROVE  Total \in Announced(t) \/ \E v \in Marked(t)' : mark'[v] = Total
    BY <1>4 DEF TotalComing
  <2>1. CASE t = s
    BY <1>2, <1>3, <2>1
  <2>2. CASE t # s
    <3>1. Total \in Announced(t) \/ \E v \in Marked(t) : mark[v] = Total
      BY <1>2, <2>2 DEF TallyInv, TotalComing
    <3>2. \A v \in Marked(t) : v # w /\ mark'[v] = mark[v]
      BY <1>2, <1>3, <1>7, <2>2
    <3>3. QED
      BY <1>3, <2>2, <3>1, <3>2
  <2>3. QED
    BY <2>1, <2>2
<1>14. QED
  BY <1>9, <1>10, <1>11, <1>12, <1>13 DEF TallyInv

LEMMA AnnounceTally ==
  ASSUME IInv, Accounting, TallyInv, NEW w \in Workers, Announce(w) PROVE TallyInv'
<1>1. PICK s \in Scans, p \in Ports : /\ job[w] = <<s, p>>
                                      /\ call[s] \in {"submitting", "waiting"}
  BY BusyWorker DEF Announce
<1> DEFINE n == mark[w]
<1>2. /\ UNCHANGED <<done, reported>>
      /\ progress' = IF n % Every = 0 \/ n = Total
                     THEN [progress EXCEPT ![s] = Append(@, n)] ELSE progress
      /\ job' = [job EXCEPT ![w] = NoJob] /\ step' = [step EXCEPT ![w] = "idle"]
      /\ mark' = [mark EXCEPT ![w] = 0]
  BY <1>1 DEF Announce, Finish
<1>3. /\ step'[w] = "idle"
      /\ \A v \in Workers : v # w => /\ job'[v] = job[v] /\ step'[v] = step[v]
                                     /\ mark'[v] = mark[v]
  BY <1>2 DEF IInv, TypeOK
<1>4. w \in Marked(s)
  <2>1. job[w] # NoJob /\ job[w][1] = s
    BY <1>1, PoolAssumption
  <2>2. QED
    BY <2>1 DEF Announce, Marked, Holders
<1>5. \A t \in Scans : Marked(t)' = Marked(t) \ {w}
  BY <1>3 DEF Marked, Holders
<1>6. \A t \in Scans : Marked(t) \subseteq Workers
  BY DEF Marked, Holders
<1>7. \A t \in Scans : t # s => w \notin Marked(t)
  BY <1>1 DEF Marked, Holders
<1>8. n \in Nat /\ n <= done[s] /\ n \notin Announced(s)
  BY <1>4 DEF IInv, TypeOK, TallyInv, MarksFresh
<1>9. \A t \in Scans : t # s => progress'[t] = progress[t] /\ Announced(t)' = Announced(t)
  BY <1>2 DEF IInv, TypeOK, Announced
<1>10. \/ /\ progress'[s] = progress[s] /\ n # Total
       \/ progress'[s] = Append(progress[s], n)
  BY <1>2 DEF IInv, TypeOK
<1>11. progress[s] \in Seq(Nat)
  BY DEF IInv, TypeOK
<1>12. \/ Announced(s)' = Announced(s) /\ n # Total
       \/ Announced(s)' = Announced(s) \cup {n}
  <2>1. CASE progress'[s] = progress[s] /\ n # Total
    BY <2>1 DEF Announced
  <2>2. CASE progress'[s] = Append(progress[s], n)
    <3>1. /\ DOMAIN progress[s] = 1..Len(progress[s]) /\ Len(progress[s]) \in Nat
          /\ DOMAIN progress'[s] = 1..(Len(progress[s]) + 1)
          /\ \A i \in 1..Len(progress[s]) : progress'[s][i] = progress[s][i]
          /\ progress'[s][Len(progress[s]) + 1] = n
      BY <1>8, <1>11, <2>2
    <3>2. DOMAIN progress'[s] = DOMAIN progress[s] \cup {Len(progress[s]) + 1}
      BY <3>1
    <3>3. QED
      BY <3>1, <3>2 DEF Announced
  <2>3. QED
    BY <1>10, <2>1, <2>2
<1>13. DoneCounts'
  BY <1>2 DEF TallyInv, DoneCounts
<1>14. MarksApart'
  BY <1>3, <1>5, <1>6 DEF TallyInv, MarksApart
<1>15. MarksFresh'
  <2> SUFFICES ASSUME NEW t \in Scans, NEW v \in Marked(t)'
               PROVE  mark'[v] <= done[t] /\ mark'[v] \notin Announced(t)'
    BY <1>2 DEF MarksFresh
  <2>1. v \in Marked(t) /\ v # w /\ mark'[v] = mark[v]
    BY <1>3, <1>5, <1>6
  <2>2. mark[v] <= done[t] /\ mark[v] \notin Announced(t)
    BY <2>1 DEF TallyInv, MarksFresh
  <2>3. t = s => mark[v] # n
    BY <1>4, <2>1 DEF TallyInv, MarksApart
  <2>4. QED
    BY <1>9, <1>12, <2>1, <2>2, <2>3
<1>16. AnnouncedOnce'
  <2> SUFFICES ASSUME NEW t \in Scans
               PROVE  /\ \A m \in Announced(t)' : m <= done[t]
                      /\ \A i, j \in DOMAIN progress'[t] :
                           progress'[t][i] = progress'[t][j] => i = j
    BY <1>2 DEF AnnouncedOnce
  <2>1. /\ \A m \in Announced(t) : m <= done[t]
        /\ \A i, j \in DOMAIN progress[t] : progress[t][i] = progress[t][j] => i = j
    BY DEF TallyInv, AnnouncedOnce
  <2>2. CASE progress'[t] = progress[t]
    BY <2>1, <2>2 DEF Announced
  <2>3. CASE t = s /\ progress'[s] = Append(progress[s], n)
    <3>1. \A m \in Announced(s)' : m <= done[s]
      BY <1>8, <1>12, <2>1, <2>3
    <3>2. \A i \in 1..Len(progress[s]) : progress[s][i] # n
      BY <1>8, <1>11 DEF Announced
    <3>3. ASSUME NEW i \in DOMAIN progress'[s], NEW j \in DOMAIN progress'[s],
                 progress'[s][i] = progress'[s][j]
          PROVE  i = j
      <4>1. /\ i \in 1..(Len(progress[s]) + 1) /\ j \in 1..(Len(progress[s]) + 1)
            /\ \A k \in 1..Len(progress[s]) : progress'[s][k] = progress[s][k]
            /\ progress'[s][Len(progress[s]) + 1] = n
        BY <1>8, <1>11, <2>3
      <4>2. DOMAIN progress[s] = 1..Len(progress[s]) /\ Len(progress[s]) \in Nat
        BY <1>11
      <4>3. QED
        BY <2>1, <2>3, <3>2, <3>3, <4>1, <4>2
    <3>4. QED
      BY <2>3, <3>1, <3>3
  <2>4. QED
    BY <1>9, <1>10, <2>2, <2>3
<1>17. TotalComing'
  <2> SUFFICES ASSUME NEW t \in Scans, done[t] = Total
               PROVE  Total \in Announced(t)' \/ \E v \in Marked(t)' : mark'[v] = Total
    BY <1>2 DEF TotalComing
  <2>1. Total \in Announced(t) \/ \E v \in Marked(t) : mark[v] = Total
    BY DEF TallyInv, TotalComing
  <2>2. Announced(t) \subseteq Announced(t)'
    BY <1>9, <1>12
  <2>3. ASSUME NEW v \in Marked(t), mark[v] = Total
        PROVE  Total \in Announced(t)' \/ \E u \in Marked(t)' : mark'[u] = Total
    <3>1. CASE v = w
      BY <1>7, <1>12, <2>3, <3>1
    <3>2. CASE v # w
      BY <1>3, <1>5, <1>6, <2>3, <3>2
    <3>3. QED
      BY <3>1, <3>2
  <2>4. QED
    BY <2>1, <2>2, <2>3
<1>18. QED
  BY <1>13, <1>14, <1>15, <1>16, <1>17 DEF TallyInv

\* The steps that touch neither the counters nor a marked worker.
LEMMA OtherTally ==
  ASSUME IInv, TallyInv,
         \/ \E s \in Scans : \/ Enter(s) \/ ScanStep(s) \/ CancelScan(s)
         \/ \E w \in Workers : Skip(w) \/ Probe(w) \/ Exit(w)
         \/ CloseBegin \/ CloseEnd \/ UNCHANGED vars
  PROVE  TallyInv'
<1>1. CASE \E s \in Scans, w \in Workers : Handoff(s, w)
  <2>1. PICK s \in Scans, w \in Workers : Handoff(s, w)
    BY <1>1
  <2>2. /\ step[w] # "counted" /\ step'[w] # "counted"
        /\ \A v \in Workers : v # w => job'[v] = job[v] /\ step'[v] = step[v]
    BY <2>1 DEF Handoff, IInv, TypeOK
  <2>3. UNCHANGED <<done, reported, progress, mark>>
    BY <2>1 DEF Handoff, tally
  <2>4. QED
    BY <2>2, <2>3, MarkedStay, TallyUnmoved
<1>2. CASE \E w \in Workers : Skip(w)
  <2>1. PICK w \in Workers : Skip(w)
    BY <1>2
  <2>2. /\ step[w] # "counted" /\ step'[w] # "counted"
        /\ \A v \in Workers : v # w => job'[v] = job[v] /\ step'[v] = step[v]
    BY <2>1 DEF Skip, Finish, IInv, TypeOK
  <2>3. UNCHANGED <<done, reported, progress>> /\ mark' = [mark EXCEPT ![w] = 0]
    BY <2>1 DEF Skip, Finish, tally
  <2>4. \A s \in Scans : Marked(s)' = Marked(s) /\ w \notin Marked(s)
    BY <2>2, MarkedStay DEF Marked
  <2>5. \A s \in Scans : \A v \in Marked(s) : mark'[v] = mark[v]
    BY <2>3, <2>4 DEF IInv, TypeOK, Marked, Holders
  <2>6. \A s \in Scans : Announced(s)' = Announced(s)
    BY <2>3 DEF Announced
  <2>7. QED
    BY <2>3, <2>4, <2>5, <2>6
       DEF TallyInv, DoneCounts, MarksApart, MarksFresh, AnnouncedOnce, TotalComing
<1>3. CASE \E w \in Workers : Probe(w) \/ Exit(w)
  <2>1. PICK w \in Workers : Probe(w) \/ Exit(w)
    BY <1>3
  <2>2. /\ step[w] # "counted" /\ step'[w] # "counted"
        /\ \A v \in Workers : v # w => job'[v] = job[v] /\ step'[v] = step[v]
    BY <2>1 DEF Probe, Exit, IInv, TypeOK
  <2>3. UNCHANGED <<done, reported, progress, mark>>
    BY <2>1 DEF Probe, Exit, tally
  <2>4. QED
    BY <2>2, <2>3, MarkedStay, TallyUnmoved
<1>4. CASE \/ \E s \in Scans : \/ Enter(s) \/ Plan(s) \/ PlanFails(s) \/ Offer(s) \/ GiveUp(s)
                               \/ AllSubmitted(s) \/ Return(s) \/ CancelScan(s)
           \/ CloseBegin \/ CloseEnd \/ UNCHANGED vars
  <2>1. UNCHANGED <<done, reported, progress, mark, job, step>>
    BY <1>4 DEF Enter, Plan, PlanFails, Offer, GiveUp, AllSubmitted, Return, CancelScan,
                CloseBegin, CloseEnd, vars, submitter, worker, tally
  <2>2. \A s \in Scans : Marked(s)' = Marked(s)
    BY <2>1 DEF Marked, Holders
  <2>3. QED
    BY <2>1, <2>2, TallyUnmoved
<1>5. QED
  BY <1>1, <1>2, <1>3, <1>4 DEF ScanStep

LEMMA NextTally == IInv /\ Accounting /\ TallyInv /\ [Next]_vars => TallyInv'
<1> SUFFICES ASSUME IInv, Accounting, TallyInv, [Next]_vars PROVE TallyInv'
  OBVIOUS
<1>1. CASE \E w \in Workers : Count(w)
  BY <1>1, CountTally
<1>2. CASE \E w \in Workers : Announce(w)
  BY <1>2, AnnounceTally
<1>3. CASE \/ \E s \in Scans : \/ Enter(s) \/ ScanStep(s) \/ CancelScan(s)
           \/ \E w \in Workers : Skip(w) \/ Probe(w) \/ Exit(w)
           \/ CloseBegin \/ CloseEnd \/ UNCHANGED vars
  BY <1>3, OtherTally
<1>4. QED
  BY <1>1, <1>2, <1>3 DEF Next, WorkerStep

\* The counter of a scan is the number of its ports that were reported, and no
\* value of it reaches OnProgress twice, whoever overtakes whom between
\* AddInt64 and the call.
THEOREM CountsAreExact == Spec => []TallyInv
<1>1. Init => TallyInv
  <2> SUFFICES ASSUME Init PROVE TallyInv
    OBVIOUS
  <2>1. \A s \in Scans : progress[s] = << >> /\ done[s] = 0 /\ reported[s] = {}
    BY DEF Init
  <2>2. \A s \in Scans : Marked(s) = {}
    BY DEF Init, Marked, Holders
  <2>3. DOMAIN << >> = {}
    OBVIOUS
  <2>4. \A s \in Scans : DOMAIN progress[s] = {} /\ Announced(s) = {}
    BY <2>1, <2>3 DEF Announced
  <2>5. Total # 0 /\ Cardinality({}) = 0
    BY PoolAssumption, FS_EmptySet DEF Total
  <2>6. DoneCounts
    BY <2>1, <2>5 DEF DoneCounts
  <2>7. MarksApart /\ MarksFresh /\ AnnouncedOnce
    BY <2>2, <2>4 DEF MarksApart, MarksFresh, AnnouncedOnce
  <2>8. TotalComing
    BY <2>1, <2>5 DEF TotalComing
  <2>9. QED
    BY <2>6, <2>7, <2>8 DEF TallyInv
<1>2. QED
  BY <1>1, Invariance, PortsAccounted, NextTally, PTL DEF Spec

\* A scan that has probed all its ports has announced the total exactly once
\* by the time it ends (OnProgress in Pool.run).
THEOREM TotalOnce == Spec => []TotalAnnouncedOnce
<1>1. IInv /\ TallyInv => TotalAnnouncedOnce
  <2> SUFFICES ASSUME IInv, TallyInv, NEW s \in Scans, Ended(s), done[s] = Total
               PROVE  Cardinality({i \in DOMAIN progress[s] : progress[s][i] = Total}) = 1
    BY DEF TotalAnnouncedOnce
  <2>1. inflight[s] = 0
    BY DEF IInv, QuietOutside, Ended
  <2>2. Marked(s) = {}
    <3>1. \A w \in Holders(s) : \E p \in Ports : job[w] = <<s, p>>
      BY DEF Holders, IInv, TypeOK, Jobs
    <3>2. Holders(s) \subseteq Workers
      BY DEF Holders
    <3>3. QED
      BY <2>1, <3>1, <3>2, NobodyHolds DEF Marked
  <2>3. Total \in Announced(s)
    BY <2>2 DEF TallyInv, TotalComing
  <2>4. PICK i \in DOMAIN progress[s] : progress[s][i] = Total
    BY <2>3 DEF Announced
  <2>5. {j \in DOMAIN progress[s] : progress[s][j] = Total} = {i}
    BY <2>4 DEF TallyInv, AnnouncedOnce
  <2>6. QED
    BY <2>5, FS_Singleton
<1>2. QED
  BY <1>1, Invariance, CountsAreExact, PTL

-----------------------------------------------------------------------------
(* The operation.                                                          *)

\* The instance counts as this module does.
LEMMA OperationSets ==
  /\ \A S : Operation!Cardinality(S) = Cardinality(S)
  /\ \A S : Operation!IsFiniteSet(S) <=> IsFiniteSet(S)
BY DEF Operation!Cardinality, Operation!IsFiniteSet, Cardinality, IsFiniteSet

\* The sets of hosts are finite, and their sizes move by one.
LEMMA ScanCounts ==
  ASSUME Operation!ScanAssumption, NEW S \in SUBSET Operation!Hosts
  PROVE /\ Operation!IsFiniteSet(S) /\ Operation!Cardinality(S) \in 0..N
        /\ \A h \in Operation!Hosts : h \notin S => Operation!Cardinality(S \cup {h}) = Operation!Cardinality(S) + 1
        /\ \A h \in S : Operation!Cardinality(S \ {h}) = Operation!Cardinality(S) - 1
        /\ \A n \in 0..N : S \subseteq 1..n => Operation!Cardinality(S) <= n
<1>1. N \in Nat /\ Operation!IsFiniteSet(Operation!Hosts) /\ Operation!Cardinality(Operation!Hosts) = N
  BY FS_Interval, OperationSets DEF Operation!ScanAssumption, Operation!Hosts
<1>2. Operation!IsFiniteSet(S) /\ Operation!Cardinality(S) \in 0..N
  BY <1>1, FS_Subset, FS_CardinalityType, OperationSets
<1>3. ASSUME NEW n \in 0..N, S \subseteq 1..n PROVE Operation!Cardinality(S) <= n
  <2>1. Operation!IsFiniteSet(1..n) /\ Operation!Cardinality(1..n) = n
    BY <1>1, FS_Interval, OperationSets
  <2> QED BY <1>3, <2>1, FS_Subset, OperationSets
<1> QED BY <1>2, <1>3, FS_AddElement, FS_RemoveElement, OperationSets

\* Nothing is swept or launched at first.
LEMMA ScanInit == Operation!ScanAssumption /\ Operation!Init => Operation!IInv
<1> SUFFICES ASSUME Operation!ScanAssumption, NEW m \in Modes, NEW p \in BOOLEAN, Operation!InitWith(m, p, "idle")
             PROVE Operation!IInv
  BY DEF Operation!Init
<1>1. Operation!TypeOK
  <2>1. 0 \in 0..N /\ N \in Nat
    BY DEF Operation!ScanAssumption
  <2>2. /\ pinged \in [Operation!Hosts -> {"no", "pending", "alive", "dead", "unknown"}]
        /\ host \in [Operation!Hosts -> {"waiting", "scanning", "found", "returned", "counted", "done"}]
        /\ found \in [Operation!Hosts -> 0..N]
    BY <2>1 DEF Operation!InitWith
  <2>3. ping \in BOOLEAN /\ stopped \in BOOLEAN /\ blocked \in BOOLEAN /\ scanErr \in BOOLEAN
    BY DEF Operation!InitWith
  <2>4. /\ mode \in Modes /\ phase = "idle" /\ todo = Operation!Hosts /\ end = Operation!NoEnd /\ counts = {}
        /\ pos = 0 /\ checked = 0 /\ completed = 0 /\ open = 0 /\ opened = 0
    BY DEF Operation!InitWith
  <2> QED BY <2>1, <2>2, <2>3, <2>4 DEF Operation!TypeOK
<1>2. Operation!HostsFollowPhase /\ Operation!DoneIsTrue /\ Operation!ProgressReachesTotal
  BY DEF Operation!InitWith, Operation!HostsFollowPhase, Operation!DoneIsTrue,
     Operation!ProgressReachesTotal, Operation!NoEnd
<1>3. Operation!SweepIsCounted
  BY DEF Operation!InitWith, Operation!SweepIsCounted
<1>4. Operation!OpenIsCounted
  <2>1. Operation!Cardinality(Operation!MayOpen) \in 0..N
    BY ScanCounts DEF Operation!MayOpen
  <2> QED BY <2>1 DEF Operation!InitWith, Operation!OpenIsCounted, Operation!ScanAssumption
<1>5. Operation!MarksAreOneToN
  <2>1. Operation!Counted = {} /\ {g \in Operation!Hosts : host[g] = "done"} = {}
    BY DEF Operation!InitWith, Operation!Counted
  <2>2. {found[h] : h \in Operation!Counted} = 1..0
    BY <2>1
  <2> QED BY <2>1, <2>2, FS_EmptySet, OperationSets DEF Operation!InitWith, Operation!MarksAreOneToN
<1> QED BY <1>1, <1>2, <1>3, <1>4, <1>5 DEF Operation!IInv

\* Before the terminal event there is nothing to be shown about it.
LEMMA ScanUnended ==
  ASSUME Operation!IInv, phase # "ended" PROVE end = Operation!NoEnd
BY DEF Operation!IInv, Operation!HostsFollowPhase

\* An operation that has not ended well owes no totals.
LEMMA ScanNoneDone ==
  ASSUME end' \in {Operation!NoEnd, Operation!ErrorEvent} PROVE Operation!DoneIsTrue' /\ Operation!ProgressReachesTotal'
BY DEF Operation!DoneIsTrue, Operation!ProgressReachesTotal, Operation!NoEnd, Operation!ErrorEvent

\* The counts of the hosts' goroutines stay what they are while those rest.
LEMMA ScanFrame ==
  ASSUME Operation!IInv, UNCHANGED <<mode, Operation!gather, opened, counts>>
  PROVE Operation!OpenIsCounted' /\ Operation!MarksAreOneToN'
<1>1. Operation!MayOpen' = Operation!MayOpen /\ Operation!Counted' = Operation!Counted
  BY DEF Operation!MayOpen, Operation!Counted, Operation!gather
<1>2. {found[h] : h \in Operation!Counted}' = {found[h] : h \in Operation!Counted}
      /\ {g \in Operation!Hosts : host[g] = "done"}' = {g \in Operation!Hosts : host[g] = "done"}
      /\ {found[h] : h \in {g \in Operation!Hosts : host[g] = "done"}}' = {found[h] : h \in {g \in Operation!Hosts : host[g] = "done"}}
  BY <1>1 DEF Operation!gather
<1> QED BY <1>1, <1>2 DEF Operation!IInv, Operation!OpenIsCounted, Operation!MarksAreOneToN,
           Operation!gather

\* The steps before the hosts are scanned.
LEMMA ScanSweep ==
  ASSUME Operation!ScanAssumption, Operation!IInv,
         Operation!StartFails \/ Operation!Start \/ Operation!PingNext \/ Operation!PingAcquire \/ Operation!PingStop \/ Operation!PingExhausted
         \/ Operation!ReturnCancelled \/ Operation!BeginScan
  PROVE Operation!IInv'
<1>0. Operation!TypeOK /\ Operation!HostsFollowPhase /\ Operation!SweepIsCounted
  BY DEF Operation!IInv
<1>1. /\ UNCHANGED <<mode, ping, stopped, todo, Operation!gather, opened, counts>>
      /\ phase \in {"idle", "pinging", "decided"}
  BY DEF Operation!StartFails, Operation!Start, Operation!PingNext, Operation!PingAcquire,
     Operation!PingStop, Operation!PingExhausted, Operation!ReturnCancelled,
     Operation!BeginScan, Operation!request, Operation!iteration, Operation!events
<1>2. end = Operation!NoEnd /\ end' \in {Operation!NoEnd, Operation!ErrorEvent}
  BY <1>1, ScanUnended
     DEF Operation!StartFails, Operation!Start, Operation!PingNext, Operation!PingAcquire,
     Operation!PingStop, Operation!PingExhausted, Operation!ReturnCancelled,
     Operation!BeginScan, Operation!events
<1>3. ~scanErr' /\ \A h \in Operation!Hosts : host'[h] = "waiting"
  BY <1>0, <1>1 DEF Operation!HostsFollowPhase, Operation!gather
<1>4. Operation!OpenIsCounted' /\ Operation!MarksAreOneToN' /\ Operation!DoneIsTrue' /\ Operation!ProgressReachesTotal'
  BY <1>1, <1>2, ScanFrame, ScanNoneDone
<1>5. /\ phase' \in {"idle", "pinging", "sweeping", "decided", "scanning", "ended"}
      /\ (end' # Operation!NoEnd => phase' = "ended") /\ (phase' = "scanning" => pos' = 0)
  BY <1>0, <1>1, <1>2
     DEF Operation!StartFails, Operation!Start, Operation!PingNext, Operation!PingAcquire,
     Operation!PingStop, Operation!PingExhausted, Operation!ReturnCancelled,
     Operation!BeginScan, Operation!events
<1>6. Operation!HostsFollowPhase'
  BY <1>0, <1>1, <1>3, <1>5 DEF Operation!HostsFollowPhase, Operation!Running, Operation!Hosts,
     Operation!TypeOK
<1>7. Operation!TypeOK'
  <2>0. /\ pos \in 0..N /\ blocked \in BOOLEAN /\ checked \in 0..N /\ 0 \in 0..N
        /\ pinged \in [Operation!Hosts -> {"no", "pending", "alive", "dead", "unknown"}]
    BY <1>0 DEF Operation!TypeOK, Operation!ScanAssumption
  <2>1. /\ pos' \in 0..N /\ blocked' \in BOOLEAN /\ checked' \in 0..N
        /\ pinged' \in [Operation!Hosts -> {"no", "pending", "alive", "dead", "unknown"}]
    <3>1. CASE Operation!PingNext
      <4>1. phase = "pinging" /\ pos < N /\ (mode = "block" => checked = pos)
        BY <1>0, <3>1 DEF Operation!PingNext, Operation!SweepIsCounted
      <4> QED BY <2>0, <3>1, <4>1 DEF Operation!PingNext, Operation!ScanAssumption
    <3>2. CASE Operation!PingAcquire
      BY <2>0, <3>2 DEF Operation!PingAcquire
    <3>3. CASE Operation!StartFails \/ Operation!Start \/ Operation!PingExhausted \/ Operation!ReturnCancelled
      BY <2>0, <3>3 DEF Operation!StartFails, Operation!Start, Operation!PingExhausted,
         Operation!ReturnCancelled, Operation!iteration
    <3>4. CASE Operation!PingStop \/ Operation!BeginScan
      BY <2>0, <3>4 DEF Operation!PingStop, Operation!BeginScan
    <3> QED BY <3>1, <3>2, <3>3, <3>4
  <2> QED BY <1>0, <1>1, <1>2, <1>5, <2>1 DEF Operation!TypeOK, Operation!gather
<1>8. Operation!SweepIsCounted'
  <2>1. CASE Operation!PingNext
    <3>1. /\ phase = "pinging" /\ phase' = "pinging" /\ pos' = pos + 1 /\ pinged' = pinged
          /\ checked' = IF mode = "block" THEN checked + 1 ELSE checked
          /\ checked \in 0..N
      BY <1>0, <2>1 DEF Operation!PingNext, Operation!TypeOK
    <3> QED BY <1>0, <1>1, <3>1 DEF Operation!SweepIsCounted, Operation!Hosts
  <2>2. CASE Operation!PingAcquire
    <3>1. /\ phase = "pinging" /\ phase' = "pinging" /\ pos' = pos /\ checked' = checked
          /\ pinged' = [pinged EXCEPT ![pos] = "pending"] /\ pos \in 0..N
      BY <1>0, <2>2 DEF Operation!PingAcquire, Operation!TypeOK
    <3>2. \A h \in Operation!Hosts : pinged'[h] # "no" => pinged[h] # "no" \/ h = pos
      BY <1>0, <3>1 DEF Operation!TypeOK
    <3> QED BY <1>0, <1>1, <3>1, <3>2 DEF Operation!SweepIsCounted, Operation!Hosts
  <2>3. CASE Operation!PingStop \/ Operation!PingExhausted
    <3>1. /\ phase = "pinging" /\ phase' = "sweeping" /\ checked' = checked /\ pinged' = pinged
          /\ stopped \/ pos = N
      BY <2>3 DEF Operation!PingStop, Operation!PingExhausted, Operation!iteration
    <3> QED BY <1>0, <1>1, <3>1 DEF Operation!SweepIsCounted
  <2>4. CASE Operation!StartFails \/ Operation!Start
    <3>1. /\ phase = "idle" /\ checked' = checked /\ pinged' = pinged /\ pos' = pos
          /\ phase' \in {"pinging", "decided", "ended"}
          /\ (phase' = "pinging" => ping) /\ (phase' = "decided" => ~ping)
      BY <1>0, <2>4 DEF Operation!StartFails, Operation!Start, Operation!iteration, Operation!TypeOK
    <3> QED BY <1>0, <1>1, <3>1 DEF Operation!SweepIsCounted
  <2>5. CASE Operation!ReturnCancelled \/ Operation!BeginScan
    <3>1. /\ phase = "decided" /\ checked' = checked /\ pinged' = pinged
          /\ phase' \in {"scanning", "ended"}
      BY <2>5 DEF Operation!ReturnCancelled, Operation!BeginScan, Operation!iteration
    <3> QED BY <1>0, <1>1, <3>1 DEF Operation!SweepIsCounted
  <2> QED BY <2>1, <2>2, <2>3, <2>4, <2>5
<1> QED BY <1>4, <1>6, <1>7, <1>8 DEF Operation!IInv

\* A sweep without an answer ends the operation.
LEMMA ScanSweepEnds == ASSUME Operation!ScanAssumption, Operation!IInv, Operation!SweepEnds PROVE Operation!IInv'
<1>0. Operation!TypeOK /\ Operation!HostsFollowPhase /\ Operation!SweepIsCounted /\ Operation!OpenIsCounted /\ Operation!MarksAreOneToN
  BY DEF Operation!IInv
<1>1. /\ UNCHANGED <<mode, ping, stopped, Operation!gather, opened, counts, pos, blocked, checked, pinged>>
      /\ phase = "sweeping" /\ todo' = Operation!Alive /\ todo = Operation!Hosts /\ ping
      /\ \/ Operation!Alive = {} /\ phase' = "ended" /\ end' = Operation!DoneEvent(0, 0, Operation!Skipped({}))
         \/ phase' = "decided" /\ end' = end
  BY <1>0 DEF Operation!SweepEnds, Operation!SweepIsCounted, Operation!request
<1>2. end = Operation!NoEnd
  BY <1>1, ScanUnended
<1>3. ~scanErr' /\ \A h \in Operation!Hosts : host[h] = "waiting" /\ host'[h] = "waiting"
  BY <1>0, <1>1 DEF Operation!HostsFollowPhase, Operation!gather
<1>4. Operation!OpenIsCounted' /\ Operation!MarksAreOneToN'
  BY <1>1, ScanFrame
<1>5. Operation!HostsFollowPhase'
  BY <1>1, <1>2, <1>3 DEF Operation!HostsFollowPhase, Operation!Running, Operation!Alive
<1>6. Operation!SweepIsCounted'
  BY <1>0, <1>1 DEF Operation!SweepIsCounted, Operation!Alive
<1>7. Operation!Skipped({}) = IF mode = "block" THEN checked ELSE N
  BY <1>0, <1>1, FS_EmptySet, OperationSets DEF Operation!Skipped, Operation!TypeOK,
     Operation!ScanAssumption
<1>8. Operation!Skipped({}) \in 0..N /\ (~stopped => Operation!Skipped({}) = N)
  BY <1>0, <1>1, <1>7 DEF Operation!SweepIsCounted, Operation!TypeOK, Operation!ScanAssumption
<1>9. Operation!TypeOK'
  <2>1. end' \in {Operation!NoEnd, Operation!ErrorEvent} \cup {Operation!DoneEvent(o, t, s) : o, t, s \in 0..N}
    BY <1>1, <1>2, <1>8 DEF Operation!ScanAssumption
  <2> QED BY <1>0, <1>1, <2>1 DEF Operation!TypeOK, Operation!gather, Operation!Alive
<1>10. Operation!DoneIsTrue' /\ Operation!ProgressReachesTotal'
  <2>1. CASE end' = end
    BY <1>2, <2>1, ScanNoneDone
  <2>2. CASE Operation!Alive = {} /\ end' = Operation!DoneEvent(0, 0, Operation!Skipped({}))
    <3>1. Operation!MayOpen = Operation!Hosts /\ Operation!Counted = {} /\ {g \in Operation!Hosts : host[g] = "done"} = {}
      BY <1>3 DEF Operation!MayOpen, Operation!Counted
    <3>2. Operation!Cardinality(Operation!Hosts) = N
      BY FS_Interval, OperationSets DEF Operation!Hosts, Operation!ScanAssumption
    <3>3. open = 0 /\ opened' = 0
      BY <1>0, <1>1, <3>1, <3>2 DEF Operation!OpenIsCounted, Operation!TypeOK,
         Operation!ScanAssumption
    <3>4. mode = "block" => completed = 0 /\ counts = {}
      BY <1>0, <3>1, FS_EmptySet, OperationSets DEF Operation!MarksAreOneToN
    <3>5. scanErr' = FALSE
      BY <1>0, <1>1 DEF Operation!HostsFollowPhase, Operation!gather, Operation!TypeOK
    <3>6. end'.open = 0 /\ end'.targets = 0 /\ end'.skipped = Operation!Skipped({}) /\ todo' = {}
      BY <1>1, <2>2 DEF Operation!DoneEvent
    <3>7. Operation!DoneIsTrue'
      BY <1>1, <1>8, <3>3, <3>5, <3>6 DEF Operation!DoneIsTrue, Operation!ScanAssumption
    <3>8. Operation!Cardinality(todo') = 0 /\ 1..0 = {} /\ (mode = "block" => counts' = {})
      BY <1>1, <3>4, <3>6, FS_EmptySet, OperationSets
    <3>9. Operation!ProgressReachesTotal'
      BY <1>1, <3>8 DEF Operation!ProgressReachesTotal
    <3> QED BY <3>7, <3>9
  <2> QED BY <1>1, <2>1, <2>2
<1> QED BY <1>4, <1>5, <1>6, <1>9, <1>10 DEF Operation!IInv

\* A ping's verdict, and a cancellation, only touch what the sweep has to say.
LEMMA ScanAside ==
  ASSUME Operation!ScanAssumption, Operation!IInv, NEW h, Operation!PingReply(h) \/ Operation!PingSilent(h) \/ Operation!Cancel PROVE Operation!IInv'
<1>0. Operation!TypeOK /\ Operation!HostsFollowPhase /\ Operation!SweepIsCounted /\ Operation!DoneIsTrue /\ Operation!ProgressReachesTotal
  BY DEF Operation!IInv
<1>1. UNCHANGED <<mode, ping, phase, pos, blocked, checked, todo, host, found, scanErr, completed,
                  open, opened, counts, end>>
  BY DEF Operation!PingReply, Operation!PingSilent, Operation!Cancel, Operation!request,
     Operation!iteration, Operation!gather, Operation!events
<1>2. Operation!OpenIsCounted' /\ Operation!MarksAreOneToN'
  BY <1>1, ScanFrame DEF Operation!gather
<1>3. /\ stopped' \in BOOLEAN /\ (stopped => stopped') /\ (end # Operation!NoEnd => stopped' = stopped)
  <2>1. stopped \in BOOLEAN /\ (end # Operation!NoEnd => phase = "ended")
    BY <1>0 DEF Operation!TypeOK, Operation!HostsFollowPhase
  <2>2. CASE Operation!PingReply(h) \/ Operation!PingSilent(h)
    <3>1. stopped' = stopped
      BY <2>2 DEF Operation!PingReply, Operation!PingSilent
    <3> QED BY <2>1, <3>1
  <2>3. CASE Operation!Cancel
    <3>1. stopped' = TRUE /\ phase # "ended"
      BY <2>3 DEF Operation!Cancel
    <3> QED BY <2>1, <3>1
  <2> QED BY <2>2, <2>3
<1>4. /\ pinged' \in [Operation!Hosts -> {"no", "pending", "alive", "dead", "unknown"}]
      /\ \A g \in Operation!Hosts : pinged'[g] # "no" => pinged[g] # "no"
  <2>1. pinged \in [Operation!Hosts -> {"no", "pending", "alive", "dead", "unknown"}]
    BY <1>0 DEF Operation!TypeOK
  <2>2. CASE Operation!PingReply(h)
    BY <2>1, <2>2 DEF Operation!PingReply
  <2>3. CASE Operation!PingSilent(h)
    BY <2>1, <2>3 DEF Operation!PingSilent
  <2>4. CASE Operation!Cancel
    BY <2>1, <2>4 DEF Operation!Cancel, Operation!iteration
  <2> QED BY <2>2, <2>3, <2>4
<1>5. Operation!TypeOK'
  BY <1>0, <1>1, <1>3, <1>4 DEF Operation!TypeOK
<1>6. Operation!HostsFollowPhase'
  BY <1>0, <1>1, <1>3 DEF Operation!HostsFollowPhase, Operation!Running
<1>7. Operation!SweepIsCounted'
  BY <1>0, <1>1, <1>3, <1>4 DEF Operation!SweepIsCounted
<1>8. Operation!DoneIsTrue' /\ Operation!ProgressReachesTotal'
  <2>1. CASE end = Operation!NoEnd
    BY <1>1, <2>1, ScanNoneDone
  <2>2. CASE end # Operation!NoEnd
    BY <1>0, <1>1, <1>3, <2>2 DEF Operation!DoneIsTrue, Operation!ProgressReachesTotal
  <2> QED BY <2>1, <2>2
<1> QED BY <1>2, <1>5, <1>6, <1>7, <1>8 DEF Operation!IInv

\* A host that is launched was left to do.
LEMMA ScanLaunches ==
  ASSUME Operation!ScanAssumption, Operation!IInv, NEW h \in Operation!Hosts, Operation!Launch(h) PROVE Operation!IInv'
<1>0. Operation!TypeOK /\ Operation!HostsFollowPhase /\ Operation!SweepIsCounted /\ Operation!OpenIsCounted /\ Operation!MarksAreOneToN
  BY DEF Operation!IInv
<1>1. /\ UNCHANGED <<mode, ping, stopped, phase, blocked, checked, pinged, todo, found, scanErr,
                      completed, open, opened, counts, end>>
      /\ phase = "scanning" /\ h \in todo /\ h > pos /\ \A g \in todo : g > pos => h <= g
      /\ pos' = h /\ host' = [host EXCEPT ![h] = "scanning"]
  BY DEF Operation!Launch, Operation!Left, Operation!request, Operation!events
<1>2. end = Operation!NoEnd /\ host[h] = "waiting" /\ todo \subseteq Operation!Hosts /\ pos \in 0..N
  BY <1>0, <1>1, ScanUnended DEF Operation!HostsFollowPhase, Operation!TypeOK
<1>3. host'[h] = "scanning" /\ \A g \in Operation!Hosts : g # h => host'[g] = host[g]
  BY <1>0, <1>1 DEF Operation!TypeOK
<1>4. Operation!TypeOK'
  <2>1. host' \in [Operation!Hosts -> {"waiting", "scanning", "found", "returned", "counted", "done"}]
    BY <1>0, <1>1 DEF Operation!TypeOK
  <2>2. pos' \in 0..N
    BY <1>1 DEF Operation!Hosts
  <2> QED BY <1>0, <1>1, <2>1, <2>2 DEF Operation!TypeOK
<1>5. Operation!HostsFollowPhase'
  <2>1. \A g \in todo : host'[g] = "waiting" <=> g > h
    BY <1>0, <1>1, <1>2, <1>3 DEF Operation!HostsFollowPhase, Operation!Hosts
  <2> QED BY <1>0, <1>1, <1>2, <1>3, <2>1 DEF Operation!HostsFollowPhase
<1>6. Operation!SweepIsCounted'
  BY <1>0, <1>1 DEF Operation!SweepIsCounted
<1>7. Operation!MayOpen' = Operation!MayOpen /\ Operation!Counted' = Operation!Counted
      /\ {g \in Operation!Hosts : host'[g] = "done"} = {g \in Operation!Hosts : host[g] = "done"}
  BY <1>2, <1>3 DEF Operation!MayOpen, Operation!Counted
<1>8. Operation!OpenIsCounted' /\ Operation!MarksAreOneToN'
  BY <1>0, <1>1, <1>7 DEF Operation!OpenIsCounted, Operation!MarksAreOneToN
<1> QED BY <1>1, <1>2, <1>4, <1>5, <1>6, <1>8, ScanNoneDone DEF Operation!IInv

\* The launch loop ends with every host launched, or cancelled.
LEMMA ScanLaunchesEnd == ASSUME Operation!ScanAssumption, Operation!IInv, Operation!LaunchesEnd PROVE Operation!IInv'
<1>0. Operation!TypeOK /\ Operation!HostsFollowPhase /\ Operation!SweepIsCounted
  BY DEF Operation!IInv
<1>1. /\ UNCHANGED <<mode, ping, stopped, pos, blocked, checked, pinged, todo, Operation!gather, opened,
                      counts, end>>
      /\ phase = "scanning" /\ phase' = "waiting"
      /\ (\A g \in todo : ~(g > pos)) \/ (mode = "block" /\ stopped)
  BY DEF Operation!LaunchesEnd, Operation!Left, Operation!request, Operation!iteration,
     Operation!events
<1>2. end = Operation!NoEnd
  BY <1>1, ScanUnended
<1>3. Operation!TypeOK'
  BY <1>0, <1>1 DEF Operation!TypeOK, Operation!gather
<1>4. Operation!HostsFollowPhase'
  BY <1>0, <1>1, <1>2 DEF Operation!HostsFollowPhase, Operation!gather
<1>5. Operation!SweepIsCounted'
  BY <1>0, <1>1 DEF Operation!SweepIsCounted
<1> QED BY <1>1, <1>2, <1>3, <1>4, <1>5, ScanNoneDone, ScanFrame DEF Operation!IInv

\* When the goroutines are waited for, each host of the list was scanned, unless
\* the loop was cancelled.
LEMMA ScanFinish == ASSUME Operation!ScanAssumption, Operation!IInv, Operation!Finish PROVE Operation!IInv'
<1>0. Operation!TypeOK /\ Operation!HostsFollowPhase /\ Operation!SweepIsCounted /\ Operation!OpenIsCounted /\ Operation!MarksAreOneToN
  BY DEF Operation!IInv
<1>1. /\ UNCHANGED <<mode, ping, stopped, pos, blocked, checked, pinged, todo, Operation!gather, opened, counts>>
      /\ phase = "waiting" /\ phase' = "ended" /\ Operation!Running = {}
      /\ end' = IF scanErr THEN Operation!ErrorEvent ELSE Operation!DoneEvent(open, Operation!Cardinality(todo), Operation!Skipped(todo))
  BY DEF Operation!Finish, Operation!request, Operation!iteration
<1>2. /\ N \in Nat /\ todo \in SUBSET Operation!Hosts /\ checked \in 0..N /\ open \in 0..N /\ scanErr \in BOOLEAN
      /\ host \in [Operation!Hosts -> {"waiting", "scanning", "found", "returned", "counted", "done"}]
  BY <1>0 DEF Operation!TypeOK, Operation!ScanAssumption
<1>3. /\ Operation!Cardinality(todo) \in 0..N /\ Operation!Cardinality(Operation!Hosts) = N
      /\ \A n \in 0..N : todo \subseteq 1..n => Operation!Cardinality(todo) <= n
  BY <1>2, ScanCounts, FS_Interval, OperationSets DEF Operation!Hosts
<1>4. /\ Operation!Skipped(todo) \in 0..N
      /\ ~stopped => Operation!Cardinality(todo) + Operation!Skipped(todo) = N
  <2>1. CASE ~ping
    BY <1>0, <1>2, <1>3, <2>1 DEF Operation!Skipped, Operation!SweepIsCounted
  <2>2. CASE ping /\ mode = "block"
    <3>1. todo \subseteq 1..checked /\ (~stopped => checked = N)
      BY <1>0, <1>1, <1>2, <2>2 DEF Operation!SweepIsCounted, Operation!Hosts
    <3>2. Operation!Cardinality(todo) <= checked
      BY <1>2, <1>3, <3>1
    <3> QED BY <1>2, <1>3, <2>2, <3>1, <3>2 DEF Operation!Skipped
  <2>3. CASE ping /\ mode # "block"
    BY <1>2, <1>3, <2>3 DEF Operation!Skipped
  <2> QED BY <2>1, <2>2, <2>3
<1>5. Operation!TypeOK'
  <2>1. end' \in {Operation!NoEnd, Operation!ErrorEvent} \cup {Operation!DoneEvent(o, t, s) : o, t, s \in 0..N}
    BY <1>1, <1>2, <1>3, <1>4
  <2> QED BY <1>0, <1>1, <2>1 DEF Operation!TypeOK, Operation!gather
<1>6. Operation!HostsFollowPhase' /\ Operation!SweepIsCounted'
  <2>1. Operation!Running' = {}
    BY <1>1 DEF Operation!Running, Operation!gather
  <2> QED BY <1>0, <1>1, <2>1 DEF Operation!HostsFollowPhase, Operation!SweepIsCounted,
             Operation!gather
<1>7. \A g \in Operation!Hosts : host[g] \in {"waiting", "done"}
  BY <1>1, <1>2 DEF Operation!Running
<1>8. ~(mode = "block" /\ stopped) => \A g \in todo : host[g] = "done"
  BY <1>0, <1>1, <1>2, <1>7 DEF Operation!HostsFollowPhase
<1>9. Operation!DoneIsTrue' /\ Operation!ProgressReachesTotal'
  <2>1. CASE scanErr
    BY <1>1, <2>1, ScanNoneDone
  <2>2. CASE ~scanErr
    <3>1. end'.open = open /\ end'.targets = Operation!Cardinality(todo) /\ end'.skipped = Operation!Skipped(todo)
      BY <1>1, <2>2 DEF Operation!DoneEvent
    <3>2. open = opened
      BY <1>0 DEF Operation!OpenIsCounted
    <3>3. Operation!DoneIsTrue'
      BY <1>1, <1>4, <1>8, <2>2, <3>1, <3>2 DEF Operation!DoneIsTrue, Operation!gather
    <3>4. mode = "block" /\ ~stopped => counts = 1..Operation!Cardinality(todo)
      <4>1. Operation!Counted = {g \in Operation!Hosts : host[g] = "done"}
        BY <1>7 DEF Operation!Counted
      <4>2. ~stopped => Operation!Counted = todo
        BY <1>0, <1>2, <1>7, <1>8, <4>1 DEF Operation!HostsFollowPhase
      <4> QED BY <1>0, <4>1, <4>2 DEF Operation!MarksAreOneToN
    <3> QED BY <1>1, <3>3, <3>4 DEF Operation!ProgressReachesTotal
  <2> QED BY <1>2, <2>1, <2>2
<1> QED BY <1>1, <1>5, <1>6, <1>9, ScanFrame DEF Operation!IInv

\* The goroutine of a host goes on: the host was launched, and stays so.
LEMMA ScanHostMoves ==
  ASSUME Operation!ScanAssumption, Operation!IInv, NEW h \in Operation!Hosts, NEW to,
         UNCHANGED <<Operation!request, stopped, phase, Operation!iteration, end>>,
         host[h] \in {"scanning", "found", "returned", "counted"},
         to \in {"found", "returned", "counted", "done"},
         host' = [host EXCEPT ![h] = to]
  PROVE /\ phase \in {"scanning", "waiting"} /\ end = Operation!NoEnd
        /\ host' \in [Operation!Hosts -> {"waiting", "scanning", "found", "returned", "counted", "done"}]
        /\ host'[h] = to /\ \A g \in Operation!Hosts : g # h => host'[g] = host[g]
        /\ Operation!HostsFollowPhase' /\ Operation!SweepIsCounted' /\ Operation!DoneIsTrue' /\ Operation!ProgressReachesTotal'
<1>0. Operation!TypeOK /\ Operation!HostsFollowPhase /\ Operation!SweepIsCounted
  BY DEF Operation!IInv
<1>1. UNCHANGED <<mode, ping, stopped, phase, pos, blocked, checked, pinged, todo, end>>
  BY DEF Operation!request, Operation!iteration
<1>2. host \in [Operation!Hosts -> {"waiting", "scanning", "found", "returned", "counted", "done"}]
      /\ todo \subseteq Operation!Hosts
      /\ phase \in {"idle", "pinging", "sweeping", "decided", "scanning", "waiting", "ended"}
  BY <1>0 DEF Operation!TypeOK
<1>3. phase \in {"scanning", "waiting"} /\ end = Operation!NoEnd
  BY <1>0, <1>2 DEF Operation!HostsFollowPhase, Operation!Running
<1>4. /\ host' \in [Operation!Hosts -> {"waiting", "scanning", "found", "returned", "counted", "done"}]
      /\ host'[h] = to /\ \A g \in Operation!Hosts : g # h => host'[g] = host[g]
  BY <1>2
<1>5. h \in todo
  BY <1>0 DEF Operation!HostsFollowPhase
<1>6. Operation!HostsFollowPhase'
  <2>1. \A g \in Operation!Hosts : host'[g] = "waiting" <=> host[g] = "waiting"
    BY <1>4
  <2> QED BY <1>0, <1>1, <1>2, <1>3, <1>5, <2>1 DEF Operation!HostsFollowPhase
<1>7. Operation!SweepIsCounted'
  BY <1>0, <1>1 DEF Operation!SweepIsCounted
<1> QED BY <1>1, <1>3, <1>4, <1>6, <1>7, ScanNoneDone

\* A host reports its open port while its scan runs.
LEMMA ScanOnOpen == ASSUME Operation!ScanAssumption, Operation!IInv, NEW h \in Operation!Hosts, Operation!OnOpen(h) PROVE Operation!IInv'
<1>0. Operation!TypeOK /\ Operation!OpenIsCounted /\ Operation!MarksAreOneToN
  BY DEF Operation!IInv
<1>1. /\ UNCHANGED <<Operation!request, stopped, phase, Operation!iteration, found, scanErr, completed, counts, end>>
      /\ host[h] = "scanning" /\ host' = [host EXCEPT ![h] = "found"]
      /\ open' = open + 1 /\ opened' = opened + 1
  BY DEF Operation!OnOpen
<1>2. /\ host' \in [Operation!Hosts -> {"waiting", "scanning", "found", "returned", "counted", "done"}]
      /\ host'[h] = "found" /\ \A g \in Operation!Hosts : g # h => host'[g] = host[g]
      /\ Operation!HostsFollowPhase' /\ Operation!SweepIsCounted' /\ Operation!DoneIsTrue' /\ Operation!ProgressReachesTotal'
  BY <1>1, ScanHostMoves
<1>3. Operation!MayOpen' = Operation!MayOpen \ {h} /\ h \in Operation!MayOpen /\ Operation!Counted' = Operation!Counted
      /\ {g \in Operation!Hosts : host'[g] = "done"} = {g \in Operation!Hosts : host[g] = "done"}
  BY <1>1, <1>2 DEF Operation!MayOpen, Operation!Counted
<1>4. Operation!Cardinality(Operation!MayOpen') = Operation!Cardinality(Operation!MayOpen) - 1 /\ Operation!Cardinality(Operation!MayOpen) \in 0..N
      /\ Operation!Cardinality(Operation!MayOpen') \in 0..N
  BY <1>3, ScanCounts DEF Operation!MayOpen
<1>5. open \in 0..N /\ opened \in 0..N /\ N \in Nat
  BY <1>0 DEF Operation!TypeOK, Operation!ScanAssumption
<1>6. Operation!OpenIsCounted' /\ open' \in 0..N /\ opened' \in 0..N
  BY <1>0, <1>1, <1>4, <1>5 DEF Operation!OpenIsCounted
<1>7. Operation!MarksAreOneToN'
  BY <1>0, <1>1, <1>3 DEF Operation!MarksAreOneToN, Operation!request
<1>8. Operation!TypeOK'
  BY <1>0, <1>1, <1>2, <1>6 DEF Operation!TypeOK, Operation!request, Operation!iteration
<1> QED BY <1>2, <1>6, <1>7, <1>8 DEF Operation!IInv

\* A host's scan comes back, whole or cut short.
LEMMA ScanHostReturns ==
  ASSUME Operation!ScanAssumption, Operation!IInv, NEW h \in Operation!Hosts, NEW outcome, Operation!ScanReturns(h, outcome) PROVE Operation!IInv'
<1>0. Operation!TypeOK /\ Operation!OpenIsCounted /\ Operation!MarksAreOneToN
  BY DEF Operation!IInv
<1>1. /\ UNCHANGED <<Operation!request, stopped, phase, Operation!iteration, found, completed, open, opened, counts, end>>
      /\ host[h] \in {"scanning", "found"} /\ host' = [host EXCEPT ![h] = "returned"]
  BY DEF Operation!ScanReturns, Operation!events
<1>2. /\ host' \in [Operation!Hosts -> {"waiting", "scanning", "found", "returned", "counted", "done"}]
      /\ host'[h] = "returned" /\ \A g \in Operation!Hosts : g # h => host'[g] = host[g]
      /\ Operation!HostsFollowPhase' /\ Operation!SweepIsCounted' /\ Operation!DoneIsTrue' /\ Operation!ProgressReachesTotal'
  BY <1>1, ScanHostMoves
<1>3. Operation!MayOpen' \in {Operation!MayOpen, Operation!MayOpen \ {h}} /\ Operation!Counted' = Operation!Counted
      /\ {g \in Operation!Hosts : host'[g] = "done"} = {g \in Operation!Hosts : host[g] = "done"}
  BY <1>1, <1>2 DEF Operation!MayOpen, Operation!Counted
<1>4. Operation!OpenIsCounted'
  <2>1. Operation!Cardinality(Operation!MayOpen) \in 0..N /\ \A g \in Operation!MayOpen : Operation!Cardinality(Operation!MayOpen \ {g}) = Operation!Cardinality(Operation!MayOpen) - 1
    BY ScanCounts DEF Operation!MayOpen
  <2>2. CASE Operation!MayOpen' = Operation!MayOpen
    BY <1>0, <1>1, <2>2 DEF Operation!OpenIsCounted
  <2>3. CASE Operation!MayOpen' = Operation!MayOpen \ {h} /\ h \in Operation!MayOpen
    <3>1. open \in 0..N /\ N \in Nat
      BY <1>0 DEF Operation!TypeOK, Operation!ScanAssumption
    <3>2. Operation!Cardinality(Operation!MayOpen') = Operation!Cardinality(Operation!MayOpen) - 1
      BY <2>1, <2>3
    <3> QED BY <1>0, <1>1, <2>1, <3>1, <3>2 DEF Operation!OpenIsCounted
  <2> QED BY <1>3, <2>2, <2>3
<1>5. Operation!MarksAreOneToN'
  BY <1>0, <1>1, <1>3 DEF Operation!MarksAreOneToN, Operation!request
<1>6. scanErr' \in BOOLEAN
  BY DEF Operation!ScanReturns
<1>7. Operation!TypeOK'
  BY <1>0, <1>1, <1>2, <1>6 DEF Operation!TypeOK, Operation!request, Operation!iteration
<1> QED BY <1>2, <1>4, <1>5, <1>7 DEF Operation!IInv

\* The count that a host gets is the next one: the marks stay without a gap.
LEMMA ScanCountHost == ASSUME Operation!ScanAssumption, Operation!IInv, NEW h \in Operation!Hosts, Operation!CountHost(h) PROVE Operation!IInv'
<1>0. Operation!TypeOK /\ Operation!OpenIsCounted /\ Operation!MarksAreOneToN
  BY DEF Operation!IInv
<1>1. /\ UNCHANGED <<Operation!request, stopped, phase, Operation!iteration, scanErr, open, opened, counts, end>>
      /\ host[h] = "returned" /\ mode = "block" /\ host' = [host EXCEPT ![h] = "counted"]
      /\ completed' = completed + 1 /\ found' = [found EXCEPT ![h] = completed + 1]
  BY DEF Operation!CountHost, Operation!events
<1>2. /\ host' \in [Operation!Hosts -> {"waiting", "scanning", "found", "returned", "counted", "done"}]
      /\ host'[h] = "counted" /\ \A g \in Operation!Hosts : g # h => host'[g] = host[g]
      /\ Operation!HostsFollowPhase' /\ Operation!SweepIsCounted' /\ Operation!DoneIsTrue' /\ Operation!ProgressReachesTotal'
  BY <1>1, ScanHostMoves
<1>3. Operation!MayOpen' = Operation!MayOpen /\ Operation!Counted' = Operation!Counted \cup {h} /\ h \notin Operation!Counted
      /\ {g \in Operation!Hosts : host'[g] = "done"} = {g \in Operation!Hosts : host[g] = "done"}
  BY <1>1, <1>2 DEF Operation!MayOpen, Operation!Counted
<1>4. /\ completed = Operation!Cardinality(Operation!Counted) /\ {found[g] : g \in Operation!Counted} = 1..completed
      /\ counts = {found[g] : g \in {g \in Operation!Hosts : host[g] = "done"}}
  BY <1>0, <1>1 DEF Operation!MarksAreOneToN
<1>5. Operation!Cardinality(Operation!Counted') = completed + 1 /\ completed + 1 \in 1..N /\ completed \in Nat
  <2>1. Operation!Cardinality(Operation!Counted \cup {h}) = Operation!Cardinality(Operation!Counted) + 1
    BY <1>3, ScanCounts DEF Operation!Counted
  <2>2. Operation!Cardinality(Operation!Counted) \in 0..N /\ Operation!Cardinality(Operation!Counted') \in 0..N
    BY ScanCounts, <1>2 DEF Operation!Counted
  <2> QED BY <1>3, <1>4, <2>1, <2>2 DEF Operation!ScanAssumption
<1>6. found' \in [Operation!Hosts -> 0..N] /\ found'[h] = completed + 1 /\ \A g \in Operation!Hosts : g # h => found'[g] = found[g]
  <2>1. found \in [Operation!Hosts -> 0..N] /\ completed + 1 \in 0..N
    BY <1>0, <1>5 DEF Operation!TypeOK
  <2> QED BY <1>1, <2>1
<1>7. {found'[g] : g \in Operation!Counted'} = 1..(completed + 1)
  <2>1. {found'[g] : g \in Operation!Counted'} = {found[g] : g \in Operation!Counted} \cup {completed + 1}
    BY <1>3, <1>6 DEF Operation!Counted
  <2>2. 1..(completed + 1) = (1..completed) \cup {completed + 1}
    BY <1>5
  <2> QED BY <1>4, <2>1, <2>2
<1>8. Operation!MarksAreOneToN'
  <2>1. {found'[g] : g \in {g \in Operation!Hosts : host'[g] = "done"}} = {found[g] : g \in {g \in Operation!Hosts : host[g] = "done"}}
    BY <1>1, <1>3, <1>6
  <2>2. completed' = Operation!Cardinality(Operation!Counted') /\ {found'[g] : g \in Operation!Counted'} = 1..completed'
        /\ mode' = "block" /\ counts' = {found'[g] : g \in {g \in Operation!Hosts : host'[g] = "done"}}
    BY <1>1, <1>4, <1>5, <1>7, <2>1 DEF Operation!request
  <2> QED BY <2>2 DEF Operation!MarksAreOneToN
<1>9. Operation!OpenIsCounted'
  BY <1>0, <1>1, <1>3 DEF Operation!OpenIsCounted
<1>10. Operation!TypeOK'
  BY <1>0, <1>1, <1>2, <1>5, <1>6 DEF Operation!TypeOK, Operation!request, Operation!iteration
<1> QED BY <1>2, <1>8, <1>9, <1>10 DEF Operation!IInv

\* A host that is counted announces a total no host before it announced.
LEMMA ScanHostDone == ASSUME Operation!ScanAssumption, Operation!IInv, NEW h \in Operation!Hosts, Operation!HostDone(h) PROVE Operation!IInv'
<1>0. Operation!TypeOK /\ Operation!OpenIsCounted /\ Operation!MarksAreOneToN
  BY DEF Operation!IInv
<1>1. /\ UNCHANGED <<Operation!request, stopped, phase, Operation!iteration, found, scanErr, completed, open, opened, end>>
      /\ host[h] = "counted" \/ (host[h] = "returned" /\ mode = "targets")
      /\ host' = [host EXCEPT ![h] = "done"]
      /\ counts' = IF mode = "block" THEN counts \cup {found[h]} ELSE counts
  BY DEF Operation!HostDone
<1>2. /\ host' \in [Operation!Hosts -> {"waiting", "scanning", "found", "returned", "counted", "done"}]
      /\ host'[h] = "done" /\ \A g \in Operation!Hosts : g # h => host'[g] = host[g]
      /\ Operation!HostsFollowPhase' /\ Operation!SweepIsCounted' /\ Operation!DoneIsTrue' /\ Operation!ProgressReachesTotal'
  BY <1>1, ScanHostMoves
<1>3. Operation!MayOpen' = Operation!MayOpen /\ (mode = "block" => Operation!Counted' = Operation!Counted)
      /\ {g \in Operation!Hosts : host'[g] = "done"} = {g \in Operation!Hosts : host[g] = "done"} \cup {h}
  BY <1>1, <1>2 DEF Operation!MayOpen, Operation!Counted
<1>4. Operation!MarksAreOneToN'
  <2>1. CASE mode = "block"
    <3>1. {found[g] : g \in {g \in Operation!Hosts : host'[g] = "done"}}
             = {found[g] : g \in {g \in Operation!Hosts : host[g] = "done"}} \cup {found[h]}
      BY <1>3
    <3>2. /\ completed = Operation!Cardinality(Operation!Counted) /\ {found[g] : g \in Operation!Counted} = 1..completed
          /\ counts = {found[g] : g \in {g \in Operation!Hosts : host[g] = "done"}}
      BY <1>0, <2>1 DEF Operation!MarksAreOneToN
    <3>3. {found'[g] : g \in Operation!Counted'} = 1..completed'
          /\ counts' = {found'[g] : g \in {g \in Operation!Hosts : host'[g] = "done"}}
      BY <1>1, <1>3, <2>1, <3>1, <3>2
    <3> QED BY <1>1, <1>3, <2>1, <3>2, <3>3 DEF Operation!MarksAreOneToN, Operation!request
  <2>2. CASE mode # "block"
    BY <1>0, <1>1, <2>2 DEF Operation!MarksAreOneToN, Operation!request
  <2> QED BY <2>1, <2>2
<1>5. Operation!OpenIsCounted'
  BY <1>0, <1>1, <1>3 DEF Operation!OpenIsCounted
<1>6. Operation!TypeOK'
  <2>1. counts' \subseteq 0..N
    <3>1. counts \subseteq 0..N /\ found[h] \in 0..N
      BY <1>0 DEF Operation!TypeOK
    <3> QED BY <1>1, <3>1
  <2> QED BY <1>0, <1>1, <1>2, <2>1 DEF Operation!TypeOK, Operation!request, Operation!iteration
<1> QED BY <1>2, <1>4, <1>5, <1>6 DEF Operation!IInv

\* Every step preserves the invariant.
LEMMA ScanNext == ASSUME Operation!ScanAssumption, Operation!IInv, [Operation!Next]_Operation!vars PROVE Operation!IInv'
<1>1. CASE Operation!Control
  BY <1>1, ScanSweep, ScanSweepEnds, ScanLaunches, ScanLaunchesEnd, ScanFinish DEF Operation!Control
<1>2. CASE Operation!Cancel
  BY <1>2, ScanAside
<1>3. ASSUME NEW h \in Operation!Hosts, Operation!HostStep(h) \/ Operation!OnOpen(h) PROVE Operation!IInv'
  BY <1>3, ScanAside, ScanOnOpen, ScanHostReturns, ScanCountHost,
     ScanHostDone DEF Operation!HostStep
<1>4. CASE UNCHANGED Operation!vars
  <2>1. UNCHANGED <<mode, ping, stopped, phase, pos, blocked, checked, pinged, todo, host, found,
                    scanErr, completed, open, opened, counts, end>>
    BY <1>4 DEF Operation!vars, Operation!request, Operation!iteration, Operation!gather,
       Operation!events
  <2>2. Operation!OpenIsCounted' /\ Operation!MarksAreOneToN'
    BY <2>1, ScanFrame DEF Operation!gather
  <2> QED BY <2>1, <2>2 DEF Operation!IInv, Operation!TypeOK, Operation!HostsFollowPhase,
             Operation!SweepIsCounted, Operation!DoneIsTrue,
             Operation!ProgressReachesTotal, Operation!Running
<1> QED BY <1>1, <1>2, <1>3, <1>4 DEF Operation!Next

\* What the counters, the sets and the phase say of the hosts agrees at every
\* step of ScanPorts and scanPortBlock (app.go).
THEOREM ScanInvariance == Operation!Spec => []Operation!IInv
<1>1. Operation!Init => Operation!IInv
  BY ScannerAssumption, ScanInit
<1>2. Operation!IInv /\ [Operation!Next]_Operation!vars => Operation!IInv'
  BY ScannerAssumption, ScanNext
<1> QED BY <1>1, <1>2, PTL DEF Operation!Spec

\* The progress of a scan of the pool reaches its total once, and what the
\* operation reports at its end is true (pool.go, Scan; app.go, ScanPorts), for
\* any number of workers, scans, hosts and slots.
THEOREM ReportsStayTrue == Spec /\ Operation!Spec => []ReportsAreTrue
<1>1. TotalAnnouncedOnce /\ Operation!IInv => ReportsAreTrue
  BY DEF ReportsAreTrue
<1> QED BY <1>1, TotalOnce, ScanInvariance, PTL

\* Nothing that could emit an event is left once the terminal one is out.
THEOREM ScanQuietAfterEnd == Operation!Spec => QuietAfterEnd
<1>1. ASSUME Operation!IInv, [Operation!Next]_Operation!vars, end # Operation!NoEnd PROVE UNCHANGED Operation!events
  <2>1. phase = "ended" /\ \A h \in Operation!Hosts : host[h] \in {"waiting", "done"}
    BY <1>1 DEF Operation!IInv, Operation!HostsFollowPhase, Operation!TypeOK, Operation!Running
  <2>2. ASSUME NEW h \in Operation!Hosts PROVE ~Operation!Launch(h) /\ ~Operation!OnOpen(h) /\ ~Operation!CountHost(h) /\ ~Operation!HostDone(h)
                                               /\ \A outcome : ~Operation!ScanReturns(h, outcome)
    BY <2>1 DEF Operation!Launch, Operation!OnOpen, Operation!CountHost, Operation!HostDone,
       Operation!ScanReturns
  <2>3. ~Operation!Control
    BY <2>1, <2>2 DEF Operation!Control, Operation!Start, Operation!StartFails,
       Operation!PingNext, Operation!PingAcquire, Operation!PingStop, Operation!PingExhausted,
       Operation!SweepEnds, Operation!ReturnCancelled, Operation!BeginScan,
       Operation!LaunchesEnd, Operation!Finish
  <2>4. CASE Operation!Cancel
    BY <2>4 DEF Operation!Cancel
  <2>5. ASSUME NEW h \in Operation!Hosts, Operation!PingReply(h) \/ Operation!PingSilent(h) PROVE UNCHANGED Operation!events
    BY <2>5 DEF Operation!PingReply, Operation!PingSilent
  <2>6. CASE UNCHANGED Operation!vars
    BY <2>6 DEF Operation!vars
  <2> QED BY <1>1, <2>2, <2>3, <2>4, <2>5, <2>6 DEF Operation!Next, Operation!HostStep
<1>2. Operation!IInv /\ [Operation!Next]_Operation!vars => [end # Operation!NoEnd => UNCHANGED Operation!events]_Operation!vars
  BY ScannerAssumption, <1>1
<1> QED BY <1>2, ScanInvariance, PTL DEF Operation!Spec, QuietAfterEnd, Operation!QuietAfterEnd

-----------------------------------------------------------------------------
(* The discovery of subdomains.                                             *)

LEMMA NameConstants ==
  /\ Forward \in [Names -> SUBSET Ips] /\ Backward \in [Ips -> SUBSET Names]
  /\ Apex \subseteq Ips /\ Words \subseteq Names /\ Crawled \subseteq Names
  /\ Services \in Seq(Discovery!ServiceRecords) /\ MaxScans \in Nat
BY ScannerAssumption DEF Discovery!NamesAssumption

LEMMA Ranks ==
  \A s \in Discovery!Sources : Discovery!SourceRank[s] \in Nat /\ Discovery!SourceRank["crawl"] <= Discovery!SourceRank[s]
BY DEF Discovery!Sources, Discovery!SourceRank

\* Of two sources the better one is kept, and a crawl is better than none.
LEMMA BestSource ==
  ASSUME NEW s \in Discovery!Sources, NEW t \in Discovery!Sources
  PROVE /\ Discovery!Best(s, t) \in {s, t}
        /\ Discovery!SourceRank[s] <= Discovery!SourceRank[Discovery!Best(s, t)]
        /\ Discovery!SourceRank[t] <= Discovery!SourceRank[Discovery!Best(s, t)]
        /\ Discovery!Best("crawl", t) = t
<1>1. "crawl" \in Discovery!Sources
  BY DEF Discovery!Sources
<1>2. /\ Discovery!SourceRank[s] \in Nat /\ Discovery!SourceRank[t] \in Nat
      /\ Discovery!SourceRank["crawl"] \in Nat /\ Discovery!SourceRank["crawl"] <= Discovery!SourceRank[t]
  BY <1>1, Ranks
<1> QED BY <1>2 DEF Discovery!Best

\* What a step may do to the row of a name: nothing, or one report.
RowMoves(n) ==
  \/ rows'[n] = rows[n] /\ reports'[n] = reports[n]
  \/ \E source \in Discovery!Sources, ips \in SUBSET Ips :
       /\ rows'[n] = IF n \in Discovery!In(rows) THEN Discovery!Merged(rows[n], source, ips)
                     ELSE [source |-> source, ips |-> ips]
       /\ reports'[n] = reports[n] \cup {source}
       /\ source = "brute" => ~(ips \subseteq wild)

\* The part of the invariant about the rows and who reported them.
RowsTrue ==
  /\ rows \in [Names -> Discovery!Rows] /\ reports \in [Names -> SUBSET Discovery!Sources]
  /\ Discovery!SourceIsStable /\ Discovery!WildcardAddsNothing
  /\ \A n \in Names \ Discovery!In(rows) : reports[n] = {}

LEMMA NamesMove ==
  ASSUME RowsTrue, \A n \in Names : RowMoves(n), DOMAIN rows' = Names, DOMAIN reports' = Names,
         rows' = [n \in Names |-> rows'[n]], reports' = [n \in Names |-> reports'[n]],
         wild' = wild, Discovery!In(store) \subseteq Discovery!In(store')
  PROVE RowsTrue' /\ Discovery!In(rows) \subseteq Discovery!In(rows')
<1> DEFINE Row(n) == /\ rows'[n] \in Discovery!Rows /\ reports'[n] \in SUBSET Discovery!Sources
                     /\ n \in Discovery!In(rows) => n \in Discovery!In(rows')
                     /\ n \notin Discovery!In(rows') => reports'[n] = {}
                     /\ n \in Discovery!In(rows') =>
                          /\ rows'[n].source \in reports'[n]
                          /\ \A s \in reports'[n] : Discovery!SourceRank[s] <= Discovery!SourceRank[rows'[n].source]
                          /\ (n \notin Discovery!In(store') /\ reports'[n] = {"brute"}) => ~(rows'[n].ips \subseteq wild')
<1>1. ASSUME NEW n \in Names PROVE Row(n)
  <2>0. /\ rows[n] \in Discovery!Rows /\ reports[n] \in SUBSET Discovery!Sources
        /\ n \in Discovery!In(rows) <=> rows[n].source # "none"
        /\ n \in Discovery!In(rows') <=> rows'[n].source # "none"
    BY DEF RowsTrue, Discovery!In
  <2>1. CASE rows'[n] = rows[n] /\ reports'[n] = reports[n]
    BY <2>0, <2>1 DEF RowsTrue, Discovery!SourceIsStable, Discovery!WildcardAddsNothing
  <2>2. ASSUME NEW source \in Discovery!Sources, NEW ips \in SUBSET Ips,
               rows'[n] = IF n \in Discovery!In(rows) THEN Discovery!Merged(rows[n], source, ips)
                          ELSE [source |-> source, ips |-> ips],
               reports'[n] = reports[n] \cup {source},
               source = "brute" => ~(ips \subseteq wild)
        PROVE Row(n)
    <3>1. source # "none"
      BY DEF Discovery!Sources
    <3>2. CASE n \in Discovery!In(rows)
      <4>1. rows[n].source \in Discovery!Sources /\ rows[n].ips \in SUBSET Ips
        BY <2>0, <3>2 DEF Discovery!Rows
      <4>2. rows'[n].source = Discovery!Best(source, rows[n].source) /\ rows'[n].ips = rows[n].ips \cup ips
            /\ rows'[n] = [source |-> Discovery!Best(source, rows[n].source), ips |-> rows[n].ips \cup ips]
        BY <2>2, <3>2 DEF Discovery!Merged
      <4> DEFINE kept == Discovery!Best(source, rows[n].source)
      <4>3. /\ kept \in {source, rows[n].source}
            /\ Discovery!SourceRank[source] <= Discovery!SourceRank[kept]
            /\ Discovery!SourceRank[rows[n].source] <= Discovery!SourceRank[kept]
        BY <4>1, BestSource
      <4> HIDE DEF kept
      <4>4. rows'[n].source = kept /\ rows'[n] = [source |-> kept, ips |-> rows[n].ips \cup ips] /\ kept \in Discovery!Sources
        BY <4>1, <4>2, <4>3 DEF kept
      <4>5. kept # "none"
        BY <4>4 DEF Discovery!Sources
      <4>6. rows'[n] \in Discovery!Rows /\ reports'[n] \in SUBSET Discovery!Sources /\ n \in Discovery!In(rows')
        BY <2>0, <2>2, <4>1, <4>4, <4>5 DEF Discovery!Rows
      <4>7. rows[n].source \in reports[n]
            /\ \A s \in reports[n] : Discovery!SourceRank[s] <= Discovery!SourceRank[rows[n].source]
        BY <3>2 DEF RowsTrue, Discovery!SourceIsStable
      <4>8. rows'[n].source \in reports'[n]
        BY <2>2, <4>3, <4>4, <4>7
      <4>9. \A s \in reports'[n] : Discovery!SourceRank[s] <= Discovery!SourceRank[kept]
        <5> TAKE s \in reports'[n]
        <5>1. CASE s = source
          BY <5>1, <4>3
        <5>2. CASE s \in reports[n]
          <6>1. s \in Discovery!Sources
            BY <2>0, <5>2
          <6> QED BY <4>1, <4>3, <4>4, <4>7, <5>2, <6>1, Ranks
        <5> QED BY <2>2, <5>1, <5>2
      <4>10. (n \notin Discovery!In(store') /\ reports'[n] = {"brute"}) => ~(rows'[n].ips \subseteq wild')
        BY <2>2, <4>2
      <4> QED BY <4>4, <4>6, <4>8, <4>9, <4>10
    <3>3. CASE n \notin Discovery!In(rows)
      <4>1. rows'[n] = [source |-> source, ips |-> ips] /\ reports[n] = {} /\ reports'[n] = {source}
        BY <2>2, <3>3 DEF RowsTrue
      <4>2. rows'[n].source = source /\ rows'[n].ips = ips /\ rows'[n] \in Discovery!Rows
        BY <4>1 DEF Discovery!Rows
      <4> QED BY <2>0, <2>2, <3>1, <3>3, <4>1, <4>2, Ranks
    <3> QED BY <3>2, <3>3
  <2> QED BY <2>1, <2>2 DEF RowMoves
<1> HIDE DEF Row
<1>2. \A n \in Names : Row(n)
  BY <1>1
<1>3. Discovery!In(rows) \subseteq Names /\ Discovery!In(rows') \subseteq Names
  BY DEF Discovery!In
<1>4. rows' \in [Names -> Discovery!Rows] /\ reports' \in [Names -> SUBSET Discovery!Sources]
  BY <1>2 DEF Row
<1>5. Discovery!SourceIsStable' /\ Discovery!WildcardAddsNothing' /\ \A n \in Names \ Discovery!In(rows') : reports'[n] = {}
  BY <1>2, <1>3 DEF Row, Discovery!SourceIsStable, Discovery!WildcardAddsNothing
<1> QED BY <1>2, <1>3, <1>4, <1>5 DEF Row, RowsTrue

\* A report under the collector's lock.
LEMMA ReportMoves ==
  ASSUME RowsTrue, NEW n \in Names, NEW source \in Discovery!Sources, NEW ips \in SUBSET Ips,
         Discovery!Report(n, source, ips), source = "brute" => ~(ips \subseteq wild),
         wild' = wild, store' = store
  PROVE RowsTrue' /\ Discovery!In(rows) \subseteq Discovery!In(rows')
<1>1. /\ rows' = Discovery!Add(rows, n, source, ips)
      /\ reports' = [reports EXCEPT ![n] = IF n \in Discovery!In(rows') THEN @ \cup {source} ELSE @]
      /\ rows \in [Names -> Discovery!Rows] /\ reports \in [Names -> SUBSET Discovery!Sources]
  BY DEF RowsTrue, Discovery!Report
<1>2. \/ n \in Discovery!In(rows) /\ rows' = [rows EXCEPT ![n] = Discovery!Merged(rows[n], source, ips)]
      \/ n \notin Discovery!In(rows) /\ rows' = rows
      \/ n \notin Discovery!In(rows) /\ rows' = [rows EXCEPT ![n] = [source |-> source, ips |-> ips]]
  BY <1>1 DEF Discovery!Add
<1>3. DOMAIN rows' = Names /\ DOMAIN reports' = Names /\ rows' = [m \in Names |-> rows'[m]] /\ reports' = [m \in Names |-> reports'[m]]
  BY <1>1, <1>2
<1>4. ASSUME NEW m \in Names, m # n PROVE RowMoves(m)
  BY <1>1, <1>2, <1>4 DEF RowMoves
<1>5. RowMoves(n)
  <2>1. CASE n \notin Discovery!In(rows) /\ rows' = rows
    BY <1>1, <2>1 DEF RowMoves
  <2>2. CASE n \in Discovery!In(rows) /\ rows' = [rows EXCEPT ![n] = Discovery!Merged(rows[n], source, ips)]
    <3>1. rows'[n] = Discovery!Merged(rows[n], source, ips)
      BY <1>1, <2>2
    <3>2. rows[n].source \in Discovery!Sources
      BY <1>1, <2>2 DEF Discovery!In, Discovery!Rows
    <3>3. Discovery!Best(source, rows[n].source) # "none"
      <4>1. Discovery!Best(source, rows[n].source) \in Discovery!Sources
        BY <3>2, BestSource
      <4> QED BY <4>1 DEF Discovery!Sources
    <3>4. n \in Discovery!In(rows')
      BY <3>1, <3>3 DEF Discovery!In, Discovery!Merged
    <3> QED BY <1>1, <2>2, <3>1, <3>4 DEF RowMoves
  <2>3. CASE n \notin Discovery!In(rows) /\ rows' = [rows EXCEPT ![n] = [source |-> source, ips |-> ips]]
    <3>1. rows'[n] = [source |-> source, ips |-> ips] /\ source # "none"
      BY <1>1, <2>3 DEF Discovery!Sources
    <3>2. n \in Discovery!In(rows')
      BY <3>1 DEF Discovery!In
    <3> QED BY <1>1, <2>3, <3>1, <3>2 DEF RowMoves
  <2> QED BY <1>2, <2>1, <2>2, <2>3
<1> QED BY <1>3, <1>4, <1>5, NamesMove

LEMMA RowsUnmoved ==
  ASSUME RowsTrue, UNCHANGED <<rows, reports, wild>>, Discovery!In(store) \subseteq Discovery!In(store')
  PROVE RowsTrue'
BY DEF RowsTrue, Discovery!SourceIsStable, Discovery!WildcardAddsNothing, Discovery!In

-----------------------------------------------------------------------------
NamesInv == RowsTrue /\ Discovery!TypeOK /\ Discovery!PhasesFollow /\ Discovery!PtrSeesAll

LEMMA NameParts == Discovery!IInv <=> NamesInv
BY DEF Discovery!IInv, NamesInv, RowsTrue, Discovery!TypeOK

LEMMA NamesInit == Discovery!Init => NamesInv
<1> SUFFICES ASSUME Discovery!Init PROVE NamesInv
  OBVIOUS
<1>1. /\ rows = [n \in Names |-> Discovery!Missing] /\ store = [n \in Names |-> Discovery!Missing]
      /\ reports = [n \in Names |-> {}] /\ Discovery!In(rows) = {}
  BY DEF Discovery!Init, Discovery!Empty, Discovery!In, Discovery!Missing
<1>2. Discovery!Missing \in Discovery!Rows /\ Discovery!IpsOf(rows) = {}
  BY <1>1 DEF Discovery!Missing, Discovery!Rows, Discovery!IpsOf
<1>3. Discovery!TypeOK
  BY <1>1, <1>2, NameConstants DEF Discovery!Init, Discovery!TypeOK
<1>4. Discovery!PhasesFollow /\ Discovery!PtrSeesAll
  BY DEF Discovery!Init, Discovery!PhasesFollow, Discovery!PtrSeesAll
<1>5. RowsTrue
  BY <1>1, <1>2 DEF RowsTrue, Discovery!SourceIsStable, Discovery!WildcardAddsNothing
<1> QED BY <1>3, <1>4, <1>5 DEF NamesInv

LEMMA NamesStart ==
  ASSUME NamesInv, NEW r, Discovery!Start(r) PROVE NamesInv'
<1>0. RowsTrue /\ Discovery!TypeOK /\ Discovery!PhasesFollow /\ Discovery!PtrSeesAll
  BY DEF NamesInv
<1>1. /\ UNCHANGED <<scanCtx, rows, seedIps, wild, words, probing, services, lookups, known, store, reports>>
      /\ stage = "idle" /\ stage' \in {"load", "crawl"} /\ scan < MaxScans /\ scan' = scan + 1
  BY DEF Discovery!Start, Discovery!phases
<1>2. RowsTrue'
  BY <1>0, <1>1, RowsUnmoved
<1>3. Discovery!TypeOK'
  BY <1>0, <1>1, NameConstants DEF Discovery!TypeOK
<1>4. Discovery!PhasesFollow' /\ Discovery!PtrSeesAll'
  BY <1>0, <1>1 DEF Discovery!PhasesFollow, Discovery!PtrSeesAll
<1> QED BY <1>2, <1>3, <1>4 DEF NamesInv

LEMMA NamesCancel ==
  ASSUME NamesInv, Discovery!Cancel PROVE NamesInv'
<1>0. RowsTrue /\ Discovery!TypeOK /\ Discovery!PhasesFollow /\ Discovery!PtrSeesAll
  BY DEF NamesInv
<1>1. /\ UNCHANGED <<scan, stage, rows, seedIps, wild, words, probing, services, lookups, known, store, reports>>
      /\ scanCtx' = "cancelled"
  BY DEF Discovery!Cancel, Discovery!phases
<1>2. RowsTrue'
  BY <1>0, <1>1, RowsUnmoved
<1>3. Discovery!TypeOK'
  BY <1>0, <1>1 DEF Discovery!TypeOK
<1>4. Discovery!PhasesFollow' /\ Discovery!PtrSeesAll'
  BY <1>0, <1>1 DEF Discovery!PhasesFollow, Discovery!PtrSeesAll, Discovery!In, Discovery!IpsOf
<1> QED BY <1>2, <1>3, <1>4 DEF NamesInv

\* The cached names come with the one report of their old source.
LEMMA NamesLoad ==
  ASSUME NamesInv, NEW ok \in BOOLEAN, NEW kept \in SUBSET Names, Discovery!Load(ok, kept)
  PROVE NamesInv'
<1>0. RowsTrue /\ Discovery!TypeOK /\ Discovery!PhasesFollow /\ Discovery!PtrSeesAll
  BY DEF NamesInv
<1>1. /\ UNCHANGED <<scan, scanCtx, seedIps, wild, words, probing, services, lookups, known, store>>
      /\ stage = "load" /\ stage' = "seed" /\ kept \subseteq Discovery!In(store)
      /\ rows' = [n \in Names |-> IF n \in kept THEN store[n] ELSE Discovery!Missing]
      /\ reports' = [n \in Names |-> IF n \in kept THEN {store[n].source} ELSE {}]
  BY DEF Discovery!Load, Discovery!phases
<1>2. \A n \in Discovery!In(store) : store[n] \in Discovery!Rows /\ store[n].source \in Discovery!Sources
  BY <1>0 DEF Discovery!In, Discovery!TypeOK, Discovery!Rows
<1>3. Discovery!Missing \in Discovery!Rows
  BY DEF Discovery!Missing, Discovery!Rows
<1>4. rows' \in [Names -> Discovery!Rows] /\ reports' \in [Names -> SUBSET Discovery!Sources]
  BY <1>1, <1>2, <1>3
<1>5. Discovery!In(rows') \subseteq kept /\ \A n \in Names : n \notin kept => reports'[n] = {}
  BY <1>1 DEF Discovery!In, Discovery!Missing
<1>6. Discovery!In(rows') = kept
  BY <1>1, <1>5 DEF Discovery!In
<1>7. RowsTrue'
  <2>1. Discovery!SourceIsStable'
    <3>1. \A n \in kept : rows'[n].source = store[n].source /\ reports'[n] = {store[n].source}
                          /\ Discovery!SourceRank[store[n].source] \in Nat
      BY <1>1, <1>2, Ranks
    <3>2. \A n \in kept : \A s \in reports'[n] : Discovery!SourceRank[s] <= Discovery!SourceRank[rows'[n].source]
      BY <3>1
    <3> QED BY <1>6, <3>1, <3>2 DEF Discovery!SourceIsStable
  <2>2. Discovery!WildcardAddsNothing'
    <3>1. Discovery!In(store') = Discovery!In(store)
      BY <1>1
    <3> QED BY <1>1, <1>6, <3>1 DEF Discovery!WildcardAddsNothing
  <2> QED BY <1>4, <1>5, <1>6, <2>1, <2>2 DEF RowsTrue
<1>8. Discovery!TypeOK'
  BY <1>0, <1>1, <1>4 DEF Discovery!TypeOK
<1>9. Discovery!PhasesFollow' /\ Discovery!PtrSeesAll'
  <2>1. Discovery!In(rows') \subseteq Discovery!In(store')
    BY <1>1, <1>6
  <2> QED BY <1>0, <1>1, <2>1 DEF Discovery!PhasesFollow, Discovery!PtrSeesAll
<1> QED BY <1>7, <1>8, <1>9 DEF NamesInv

LEMMA IpsAreKnown == ASSUME Discovery!TypeOK PROVE Discovery!IpsOf(rows) \subseteq Ips
BY DEF Discovery!TypeOK, Discovery!IpsOf, Discovery!Rows

\* The wildcard is crawled out before anything but the cache is in the collector.
LEMMA NamesSeed ==
  ASSUME NamesInv, NEW apex \in {Apex, {}}, NEW wildcard, Discovery!Seed(apex, wildcard)
  PROVE NamesInv'
<1>0. RowsTrue /\ Discovery!TypeOK /\ Discovery!PhasesFollow /\ Discovery!PtrSeesAll
  BY DEF NamesInv
<1>1. /\ UNCHANGED <<scan, scanCtx, rows, probing, lookups, known, store, reports>>
      /\ stage = "seed" /\ stage' = "discover" /\ seedIps' = Discovery!IpsOf(rows) \cup apex
      /\ words' \in {Words, {}} /\ services' \in {Services, <<>>}
  BY DEF Discovery!Seed
<1>2. Discovery!In(rows) \subseteq Discovery!In(store)
  BY <1>0, <1>1 DEF Discovery!PhasesFollow
<1>3. RowsTrue'
  <2>1. Discovery!In(rows') \subseteq Discovery!In(store')
    BY <1>1, <1>2
  <2> QED BY <1>0, <1>1, <2>1 DEF RowsTrue, Discovery!SourceIsStable, Discovery!WildcardAddsNothing
<1>4. Discovery!TypeOK'
  <2>1. <<>> \in Seq(Discovery!ServiceRecords)
    BY EmptySeq
  <2> QED BY <1>0, <1>1, <2>1, IpsAreKnown, NameConstants DEF Discovery!TypeOK
<1>5. Discovery!PhasesFollow' /\ Discovery!PtrSeesAll'
  BY <1>1 DEF Discovery!PhasesFollow, Discovery!PtrSeesAll
<1> QED BY <1>3, <1>4, <1>5 DEF NamesInv

LEMMA NamesSpawn ==
  ASSUME NamesInv, NEW n \in Names, Discovery!Spawn(n) PROVE NamesInv'
<1>0. RowsTrue /\ Discovery!TypeOK /\ Discovery!PhasesFollow /\ Discovery!PtrSeesAll
  BY DEF NamesInv
<1>1. /\ UNCHANGED <<scan, scanCtx, stage, rows, seedIps, wild, services, lookups, known, store, reports>>
      /\ stage = "discover" /\ words' = words \ {n} /\ probing' = probing \cup {n}
  BY DEF Discovery!Spawn
<1>2. RowsTrue'
  BY <1>0, <1>1, RowsUnmoved
<1>3. Discovery!TypeOK'
  BY <1>0, <1>1 DEF Discovery!TypeOK
<1>4. Discovery!PhasesFollow' /\ Discovery!PtrSeesAll'
  BY <1>0, <1>1 DEF Discovery!PhasesFollow, Discovery!PtrSeesAll
<1> QED BY <1>2, <1>3, <1>4 DEF NamesInv

\* What holds after a step of the discovery phases.
LEMMA WhileDiscovering ==
  ASSUME Discovery!TypeOK, Discovery!PhasesFollow, RowsTrue', stage = "discover",
         UNCHANGED <<scan, scanCtx, stage, seedIps, lookups, known, store, words>>,
         probing' \subseteq probing, services' \in Seq(Discovery!ServiceRecords)
  PROVE NamesInv'
<1>1. Discovery!TypeOK'
  BY DEF Discovery!TypeOK, RowsTrue
<1>2. Discovery!PhasesFollow' /\ Discovery!PtrSeesAll'
  BY DEF Discovery!PhasesFollow, Discovery!PtrSeesAll
<1> QED BY <1>1, <1>2 DEF NamesInv

LEMMA NamesProbeFails ==
  ASSUME NamesInv, NEW n \in Names, Discovery!ProbeFails(n) PROVE NamesInv'
<1>0. RowsTrue /\ Discovery!TypeOK /\ Discovery!PhasesFollow /\ Discovery!PtrSeesAll
  BY DEF NamesInv
<1>1. /\ UNCHANGED <<scan, scanCtx, stage, rows, seedIps, wild, words, services, lookups, known, store, reports>>
      /\ n \in probing /\ probing' = probing \ {n}
  BY DEF Discovery!ProbeFails
<1>2. RowsTrue'
  BY <1>0, <1>1, RowsUnmoved
<1>3. stage = "discover" /\ services' \in Seq(Discovery!ServiceRecords)
  BY <1>0, <1>1 DEF Discovery!PhasesFollow, Discovery!TypeOK
<1> QED BY <1>0, <1>1, <1>2, <1>3, WhileDiscovering

\* Brute force reports an address that is not the wildcard's.
LEMMA NamesProbe ==
  ASSUME NamesInv, NEW n \in Names, Discovery!Probe(n) PROVE NamesInv'
<1> DEFINE ips == Forward[n] \ wild
<1>0. RowsTrue /\ Discovery!TypeOK /\ Discovery!PhasesFollow /\ Discovery!PtrSeesAll
  BY DEF NamesInv
<1>1. /\ UNCHANGED <<scan, scanCtx, stage, seedIps, wild, words, services, lookups, known, store>>
      /\ n \in probing /\ probing' = probing \ {n}
      /\ IF ips = {} THEN UNCHANGED <<rows, reports>> ELSE Discovery!Report(n, "brute", ips)
  BY DEF Discovery!Probe
<1>2. ips \in SUBSET Ips /\ (ips # {} => ~(ips \subseteq wild))
  BY NameConstants
<1> HIDE DEF ips
<1>3. RowsTrue'
  <2>1. CASE ips = {}
    BY <1>0, <1>1, <2>1, RowsUnmoved
  <2>2. CASE ips # {}
    <3>1. "brute" \in Discovery!Sources
      BY DEF Discovery!Sources
    <3> QED BY <1>0, <1>1, <1>2, <2>2, <3>1, ReportMoves
  <2> QED BY <2>1, <2>2
<1>4. stage = "discover" /\ services' \in Seq(Discovery!ServiceRecords)
  BY <1>0, <1>1 DEF Discovery!PhasesFollow, Discovery!TypeOK
<1> QED BY <1>0, <1>1, <1>3, <1>4, WhileDiscovering

LEMMA NamesAddService ==
  ASSUME NamesInv, NEW ok \in BOOLEAN, Discovery!AddService(ok) PROVE NamesInv'
<1> DEFINE s == Head(services)
           ips == IF ok /\ ~Discovery!Cancelled THEN Forward[s.name] ELSE {}
<1>0. RowsTrue /\ Discovery!TypeOK /\ Discovery!PhasesFollow /\ Discovery!PtrSeesAll
  BY DEF NamesInv
<1>1. /\ UNCHANGED <<scan, scanCtx, stage, seedIps, wild, words, probing, lookups, known, store>>
      /\ services # <<>> /\ services' = Tail(services)
      /\ IF ips = {} THEN UNCHANGED <<rows, reports>> ELSE Discovery!Report(s.name, s.source, ips)
  BY DEF Discovery!AddService
<1>2. s \in Discovery!ServiceRecords /\ services' \in Seq(Discovery!ServiceRecords)
  BY <1>0, <1>1, HeadTailProperties DEF Discovery!TypeOK
<1>3. s.name \in Names /\ s.source \in Discovery!Sources /\ s.source # "brute"
  BY <1>2 DEF Discovery!ServiceRecords, Discovery!Sources
<1>4. ips \in SUBSET Ips
  BY <1>3, NameConstants
<1> HIDE DEF s, ips
<1>5. RowsTrue'
  <2>1. CASE ips = {}
    BY <1>0, <1>1, <2>1, RowsUnmoved
  <2>2. CASE ips # {}
    BY <1>0, <1>1, <1>3, <1>4, <2>2, ReportMoves
  <2> QED BY <2>1, <2>2
<1>6. stage = "discover"
  BY <1>0, <1>1 DEF Discovery!PhasesFollow
<1> QED BY <1>0, <1>1, <1>2, <1>5, <1>6, WhileDiscovering

LEMMA NamesJoin ==
  ASSUME NamesInv, Discovery!Join PROVE NamesInv'
<1>0. RowsTrue /\ Discovery!TypeOK /\ Discovery!PhasesFollow /\ Discovery!PtrSeesAll
  BY DEF NamesInv
<1>1. /\ UNCHANGED <<scan, scanCtx, rows, seedIps, wild, words, probing, services, store, reports>>
      /\ stage = "discover" /\ words = {} /\ probing = {} /\ services = <<>>
      /\ stage' \in {"ptr", "save"}
      /\ known' = Discovery!IpsOf(rows) \cup seedIps /\ lookups' = known' \cap Public
  BY DEF Discovery!Join
<1>2. RowsTrue'
  BY <1>0, <1>1, RowsUnmoved
<1>3. Discovery!TypeOK'
  BY <1>0, <1>1, IpsAreKnown DEF Discovery!TypeOK
<1>4. Discovery!PhasesFollow' /\ Discovery!PtrSeesAll'
  <2>1. Discovery!IpsOf(rows') \subseteq known'
    BY <1>1
  <2> QED BY <1>1, <2>1 DEF Discovery!PhasesFollow, Discovery!PtrSeesAll
<1> QED BY <1>2, <1>3, <1>4 DEF NamesInv

\* A reverse lookup adds an address that was known, if any.
LEMMA NamesLookupAddr ==
  ASSUME NamesInv, NEW ip \in Ips, NEW ok \in BOOLEAN, Discovery!LookupAddr(ip, ok)
  PROVE NamesInv'
<1>0. RowsTrue /\ Discovery!TypeOK /\ Discovery!PhasesFollow /\ Discovery!PtrSeesAll
  BY DEF NamesInv
<1>1. /\ UNCHANGED <<scan, scanCtx, stage, seedIps, wild, words, probing, services, known, store>>
      /\ stage \in {"ptr", "sweep"} /\ ip \in lookups /\ lookups' = lookups \ {ip}
      /\ IF ok THEN \E taken \in SUBSET Backward[ip] : Discovery!ReportPtr(ip, taken) ELSE UNCHANGED <<rows, reports>>
  BY DEF Discovery!LookupAddr
<1>2. RowsTrue' /\ \A n \in Names : rows'[n].ips \subseteq rows[n].ips \cup {ip}
  <2>1. CASE ~ok
    BY <1>0, <1>1, <2>1, RowsUnmoved
  <2>2. CASE ok
    <3>1. PICK taken \in SUBSET Backward[ip] : Discovery!ReportPtr(ip, taken)
      BY <1>1, <2>2
    <3>2. /\ taken \subseteq Backward[ip] \ Discovery!In(rows)
          /\ rows' = [n \in Names |->
               IF n \in taken THEN [source |-> "ptr", ips |-> {ip}]
               ELSE IF n \in Backward[ip] \cap Discovery!In(rows) THEN Discovery!Merged(rows[n], "ptr", {ip})
               ELSE rows[n]]
          /\ reports' = [n \in Names |-> IF n \in Backward[ip] \cap Discovery!In(rows') THEN reports[n] \cup {"ptr"} ELSE reports[n]]
      BY <3>1 DEF Discovery!ReportPtr
    <3>3. "ptr" \in Discovery!Sources /\ {ip} \in SUBSET Ips /\ "ptr" # "brute" /\ "ptr" # "none"
      BY DEF Discovery!Sources
    <3>4. \A n \in Names : n \in Discovery!In(rows') <=> rows'[n].source # "none"
      BY DEF Discovery!In
    <3>5. ASSUME NEW n \in Names PROVE RowMoves(n) /\ rows'[n].ips \subseteq rows[n].ips \cup {ip}
      <4>0. rows[n] \in Discovery!Rows
        BY <1>0 DEF RowsTrue
      <4>1. CASE n \in taken
        <5>1. rows'[n] = [source |-> "ptr", ips |-> {ip}] /\ n \in Backward[ip] /\ n \notin Discovery!In(rows)
          BY <3>2, <4>1
        <5>2. n \in Discovery!In(rows')
          BY <3>3, <3>4, <5>1
        <5>3. reports'[n] = reports[n] \cup {"ptr"}
          BY <3>2, <5>1, <5>2
        <5> QED BY <3>3, <5>1, <5>3 DEF RowMoves
      <4>2. CASE n \in Backward[ip] \cap Discovery!In(rows)
        <5>1. n \notin taken /\ rows'[n] = Discovery!Merged(rows[n], "ptr", {ip})
          BY <3>2, <4>2
        <5>2. rows[n].source \in Discovery!Sources
          BY <4>0, <4>2 DEF Discovery!In, Discovery!Rows
        <5>3. Discovery!Best("ptr", rows[n].source) \in Discovery!Sources
          BY <3>3, <5>2, BestSource
        <5>4. rows'[n].source = Discovery!Best("ptr", rows[n].source) /\ rows'[n].ips = rows[n].ips \cup {ip}
          BY <5>1 DEF Discovery!Merged
        <5>5. n \in Discovery!In(rows')
          BY <3>4, <5>3, <5>4 DEF Discovery!Sources
        <5>6. reports'[n] = reports[n] \cup {"ptr"}
          BY <3>2, <4>2, <5>5
        <5> QED BY <3>3, <4>2, <5>1, <5>4, <5>6 DEF RowMoves
      <4>3. CASE n \notin taken /\ n \notin Backward[ip] \cap Discovery!In(rows)
        <5>1. rows'[n] = rows[n]
          BY <3>2, <4>3
        <5>2. n \notin Backward[ip] \/ n \notin Discovery!In(rows')
          BY <3>4, <4>3, <5>1 DEF Discovery!In
        <5>3. reports'[n] = reports[n]
          BY <3>2, <5>2
        <5> QED BY <5>1, <5>3 DEF RowMoves
      <4> QED BY <4>1, <4>2, <4>3
    <3>6. DOMAIN rows' = Names /\ DOMAIN reports' = Names /\ rows' = [n \in Names |-> rows'[n]] /\ reports' = [n \in Names |-> reports'[n]]
      BY <3>2
    <3>7. wild' = wild /\ Discovery!In(store) \subseteq Discovery!In(store')
      BY <1>1
    <3>8. RowsTrue'
      BY <1>0, <3>5, <3>6, <3>7, NamesMove
    <3> QED BY <3>5, <3>8
  <2> QED BY <2>1, <2>2
<1>3. Discovery!TypeOK'
  BY <1>0, <1>1, <1>2 DEF Discovery!TypeOK, RowsTrue
<1>4. Discovery!PhasesFollow'
  BY <1>0, <1>1 DEF Discovery!PhasesFollow
<1>5. Discovery!PtrSeesAll'
  <2>1. CASE stage = "ptr"
    <3>1. Discovery!IpsOf(rows) \subseteq known /\ ip \in known
      BY <1>0, <1>1, <2>1 DEF Discovery!PtrSeesAll, Discovery!PhasesFollow
    <3>2. Discovery!IpsOf(rows') \subseteq Discovery!IpsOf(rows) \cup {ip}
      BY <1>2 DEF Discovery!IpsOf
    <3>3. Discovery!IpsOf(rows') \subseteq known'
      BY <1>1, <3>1, <3>2
    <3> QED BY <3>3 DEF Discovery!PtrSeesAll
  <2>2. CASE stage # "ptr"
    BY <1>1, <2>2 DEF Discovery!PtrSeesAll
  <2> QED BY <2>1, <2>2
<1> QED BY <1>2, <1>3, <1>4, <1>5 DEF NamesInv

\* Steps of the reverse lookups that find nothing, and the transaction.
LEMMA NamesGoOn ==
  ASSUME NamesInv, UNCHANGED <<scan, scanCtx, rows, seedIps, wild, words, probing, services, known, reports>>,
         stage # "discover", stage' \in {"sweep", "save", "crawl", "list"}, lookups' \subseteq Ips,
         store' \in [Names -> Discovery!Rows], Discovery!In(store) \subseteq Discovery!In(store')
  PROVE NamesInv'
<1>0. RowsTrue /\ Discovery!TypeOK /\ Discovery!PhasesFollow /\ Discovery!PtrSeesAll
  BY DEF NamesInv
<1>1. RowsTrue'
  BY <1>0, RowsUnmoved
<1>2. Discovery!TypeOK'
  BY <1>0 DEF Discovery!TypeOK
<1>3. Discovery!PhasesFollow' /\ Discovery!PtrSeesAll'
  BY <1>0 DEF Discovery!PhasesFollow, Discovery!PtrSeesAll
<1> QED BY <1>1, <1>2, <1>3 DEF NamesInv

LEMMA StoreGrows ==
  ASSUME Discovery!TypeOK, NEW fresh \in [Names -> Discovery!Rows], NEW ok \in BOOLEAN, Discovery!Upsert(fresh, ok)
  PROVE store' \in [Names -> Discovery!Rows] /\ Discovery!In(store) \subseteq Discovery!In(store')
BY DEF Discovery!TypeOK, Discovery!Upsert, Discovery!In

LEMMA NamesReverse ==
  ASSUME NamesInv, Discovery!ReverseStops \/ (\E blocks \in SUBSET Discovery!Range(Block) : Discovery!Sweep(blocks))
                         \/ Discovery!ReverseEnds
  PROVE NamesInv'
<1>1. Discovery!TypeOK
  BY DEF NamesInv
<1>2. CASE Discovery!ReverseStops
  BY <1>1, <1>2, NamesGoOn DEF Discovery!ReverseStops, Discovery!TypeOK
<1>3. CASE \E blocks \in SUBSET Discovery!Range(Block) : Discovery!Sweep(blocks)
  <2>1. PICK blocks \in SUBSET Discovery!Range(Block) : Discovery!Sweep(blocks)
    BY <1>3
  <2> DEFINE swept == {ip \in Ips : Block[ip] \in blocks}
  <2>2. /\ UNCHANGED <<scan, scanCtx, rows, seedIps, wild, words, probing, services, known, store, reports>>
        /\ stage = "ptr" /\ stage' = "sweep" /\ lookups' \in {swept, {}}
    BY <2>1 DEF Discovery!Sweep
  <2>3. lookups' \subseteq Ips
    BY <2>2
  <2> QED BY <1>1, <2>2, <2>3, NamesGoOn DEF Discovery!TypeOK
<1>4. CASE Discovery!ReverseEnds
  BY <1>1, <1>4, NamesGoOn DEF Discovery!ReverseEnds, Discovery!TypeOK, Discovery!phases
<1> QED BY <1>2, <1>3, <1>4

LEMMA NamesSave ==
  ASSUME NamesInv, NEW ok \in BOOLEAN, Discovery!Save(ok) PROVE NamesInv'
<1>1. Discovery!TypeOK
  BY DEF NamesInv
<1>2. /\ UNCHANGED <<scan, scanCtx, rows, seedIps, wild, words, probing, services, lookups, known, reports>>
      /\ stage = "save" /\ stage' \in {"crawl", "list"} /\ Discovery!Upsert(rows, ok)
  BY DEF Discovery!Save, Discovery!phases
<1>3. store' \in [Names -> Discovery!Rows] /\ Discovery!In(store) \subseteq Discovery!In(store')
  BY <1>1, <1>2, StoreGrows DEF Discovery!TypeOK
<1> QED BY <1>1, <1>2, <1>3, NamesGoOn DEF Discovery!TypeOK

\* A name of the crawl is reported last and least: its source stays.
LEMMA NamesCrawl ==
  ASSUME NamesInv, NEW crawled \in SUBSET Crawled, NEW ok \in BOOLEAN, Discovery!CrawlReturns(crawled, ok)
  PROVE NamesInv'
<1> DEFINE fresh == [n \in Names |-> IF n \in crawled \ Discovery!In(rows) THEN Discovery!CrawlRow(n) ELSE Discovery!Missing]
<1>0. RowsTrue /\ Discovery!TypeOK /\ Discovery!PhasesFollow /\ Discovery!PtrSeesAll
  BY DEF NamesInv
<1>1. /\ UNCHANGED <<scan, scanCtx, seedIps, wild, words, probing, services, lookups, known>>
      /\ stage = "crawl" /\ stage' = "list" /\ Discovery!Upsert(fresh, ok)
      /\ rows' = [n \in Names |-> IF n \notin crawled THEN rows[n]
                   ELSE IF n \in Discovery!In(rows) THEN [rows[n] EXCEPT !.ips = @ \cup Forward[n]]
                   ELSE Discovery!CrawlRow(n)]
      /\ reports' = [n \in Names |-> IF n \in crawled THEN reports[n] \cup {"crawl"} ELSE reports[n]]
  BY DEF Discovery!CrawlReturns, Discovery!phases, Discovery!Merge
<1>2. \A n \in Names : Discovery!CrawlRow(n) = [source |-> "crawl", ips |-> Forward[n]] /\ Forward[n] \in SUBSET Ips
  BY NameConstants DEF Discovery!CrawlRow
<1>3. "crawl" \in Discovery!Sources /\ "crawl" # "brute"
  BY DEF Discovery!Sources
<1>4. store' \in [Names -> Discovery!Rows] /\ Discovery!In(store) \subseteq Discovery!In(store')
  <2>1. \A n \in Names : Discovery!CrawlRow(n) \in Discovery!Rows /\ Discovery!Missing \in Discovery!Rows
    BY <1>2, <1>3 DEF Discovery!Rows, Discovery!Missing
  <2>2. fresh \in [Names -> Discovery!Rows]
    BY <2>1
  <2> HIDE DEF fresh
  <2> QED BY <1>0, <1>1, <2>2, StoreGrows
<1> HIDE DEF fresh
<1>5. ASSUME NEW n \in Names PROVE RowMoves(n)
  <2>0. rows[n] \in Discovery!Rows
    BY <1>0 DEF RowsTrue
  <2>1. CASE n \notin crawled
    BY <1>1, <2>1 DEF RowMoves
  <2>2. CASE n \in crawled /\ n \in Discovery!In(rows)
    <3>1. rows[n].source \in Discovery!Sources
      BY <2>0, <2>2 DEF Discovery!In, Discovery!Rows
    <3>2. Discovery!Best("crawl", rows[n].source) = rows[n].source
      BY <1>3, <3>1, BestSource
    <3>3. [rows[n] EXCEPT !.ips = @ \cup Forward[n]] = [source |-> rows[n].source, ips |-> rows[n].ips \cup Forward[n]]
      BY <2>0 DEF Discovery!Rows
    <3>4. rows'[n] = Discovery!Merged(rows[n], "crawl", Forward[n]) /\ reports'[n] = reports[n] \cup {"crawl"}
      BY <1>1, <2>2, <3>2, <3>3 DEF Discovery!Merged
    <3> QED BY <1>2, <1>3, <2>2, <3>4 DEF RowMoves
  <2>3. CASE n \in crawled /\ n \notin Discovery!In(rows)
    <3>1. rows'[n] = [source |-> "crawl", ips |-> Forward[n]] /\ reports'[n] = reports[n] \cup {"crawl"}
      BY <1>1, <1>2, <2>3
    <3> QED BY <1>2, <1>3, <2>3, <3>1 DEF RowMoves
  <2> QED BY <2>1, <2>2, <2>3
<1>6. DOMAIN rows' = Names /\ DOMAIN reports' = Names /\ rows' = [n \in Names |-> rows'[n]] /\ reports' = [n \in Names |-> reports'[n]]
  BY <1>1
<1>7. RowsTrue'
  BY <1>0, <1>1, <1>4, <1>5, <1>6, NamesMove
<1>8. Discovery!TypeOK'
  BY <1>0, <1>1, <1>4, <1>7 DEF Discovery!TypeOK, RowsTrue
<1>9. Discovery!PhasesFollow' /\ Discovery!PtrSeesAll'
  BY <1>0, <1>1 DEF Discovery!PhasesFollow, Discovery!PtrSeesAll
<1> QED BY <1>7, <1>8, <1>9 DEF NamesInv

LEMMA NamesList ==
  ASSUME NamesInv, Discovery!List PROVE NamesInv'
<1>0. RowsTrue /\ Discovery!TypeOK /\ Discovery!PhasesFollow /\ Discovery!PtrSeesAll
  BY DEF NamesInv
<1>1. /\ UNCHANGED <<scan, words, probing, services, store>>
      /\ stage = "list" /\ stage' = "idle" /\ scanCtx' = "live"
      /\ rows' = [n \in Names |-> Discovery!Missing] /\ reports' = [n \in Names |-> {}]
      /\ seedIps' = {} /\ wild' = {} /\ known' = {} /\ lookups' = {}
  BY DEF Discovery!List, Discovery!Empty
<1>2. Discovery!Missing \in Discovery!Rows /\ Discovery!In(rows') = {}
  BY <1>1 DEF Discovery!Missing, Discovery!Rows, Discovery!In
<1>3. RowsTrue'
  BY <1>1, <1>2 DEF RowsTrue, Discovery!SourceIsStable, Discovery!WildcardAddsNothing
<1>4. Discovery!TypeOK'
  BY <1>0, <1>1, <1>2 DEF Discovery!TypeOK
<1>5. Discovery!PhasesFollow' /\ Discovery!PtrSeesAll'
  BY <1>0, <1>1 DEF Discovery!PhasesFollow, Discovery!PtrSeesAll
<1> QED BY <1>3, <1>4, <1>5 DEF NamesInv

LEMMA NamesStep == NamesInv /\ [Discovery!Next]_Discovery!vars => NamesInv'
<1> SUFFICES ASSUME NamesInv, [Discovery!Next]_Discovery!vars PROVE NamesInv'
  OBVIOUS
<1>1. ASSUME UNCHANGED Discovery!vars PROVE NamesInv'
  <2>1. UNCHANGED <<scan, scanCtx, stage, rows, seedIps, wild, words, probing, services, lookups, known, store, reports>>
    BY <1>1 DEF Discovery!vars, Discovery!phases
  <2> QED BY <2>1 DEF NamesInv, RowsTrue, Discovery!TypeOK, Discovery!PhasesFollow, Discovery!SourceIsStable,
                      Discovery!WildcardAddsNothing, Discovery!PtrSeesAll, Discovery!In, Discovery!IpsOf
<1>2. ASSUME Discovery!Phase PROVE NamesInv'
  BY <1>2, NamesLoad, NamesSeed, NamesSpawn, NamesJoin, NamesLookupAddr, NamesReverse, NamesSave, NamesCrawl,
     NamesList DEF Discovery!Phase
<1>3. ASSUME NEW n \in Names, Discovery!Worker(n) PROVE NamesInv'
  BY <1>3, NamesProbeFails, NamesProbe DEF Discovery!Worker
<1>4. ASSUME Discovery!ServicesStep PROVE NamesInv'
  BY <1>4, NamesAddService DEF Discovery!ServicesStep
<1> QED BY <1>1, <1>2, <1>3, <1>4, NamesStart, NamesCancel DEF Discovery!Next

-----------------------------------------------------------------------------
(* The choice of the targets: lists that are built in order.                *)

\* A set of numbers has a smallest one.
LEMMA Smallest ==
  ASSUME NEW D \in SUBSET Nat, D # {} PROVE \E d \in D : \A e \in D : d <= e
<1>1. PICK d \in D : \A e \in D : ~(<<e, d>> \in OpToRel(<, Nat))
  BY WFMin, NatLessThanWellFounded
<1>2. \A e \in D : ~(e < d)
  BY <1>1 DEF OpToRel
<1>3. QED
  BY <1>2

LEMMA TargetSets ==
  /\ \A S : Selection!Cardinality(S) = Cardinality(S)
  /\ \A S : Selection!IsFiniteSet(S) <=> IsFiniteSet(S)
BY DEF Selection!Cardinality, Selection!IsFiniteSet, Cardinality, IsFiniteSet

\* Every number up to the size of a set of positions is the rank of one of them.
LEMMA EveryRank ==
  ASSUME NEW n \in Nat, NEW P \in SUBSET (1..n)
  PROVE /\ Cardinality(P) \in Nat
        /\ \A i \in 1..Cardinality(P) : Selection!Nth(P, i) \in P
        /\ \A i, j \in 1..Cardinality(P) : Selection!Nth(P, i) = Selection!Nth(P, j) => i = j
<1> DEFINE Below(p) == {q \in P : q <= p}
           m == Cardinality(P)
           rank == [p \in P |-> Cardinality(Below(p))]
<1>1. IsFiniteSet(P) /\ m \in Nat
  <2>1. IsFiniteSet(1..n)
    BY FS_Interval
  <2> QED BY <2>1, FS_Subset, FS_CardinalityType
<1>2. \A p \in P : IsFiniteSet(Below(p)) /\ Cardinality(Below(p)) \in Nat /\ Cardinality(Below(p)) <= m
  <2> TAKE p \in P
  <2>1. Below(p) \in SUBSET P
    OBVIOUS
  <2> QED BY <1>1, <2>1, FS_Subset, FS_CardinalityType
<1>3. ASSUME NEW p \in P, NEW q \in P, p < q PROVE Cardinality(Below(p)) < Cardinality(Below(q))
  <2>0. p \in Int /\ q \in Int /\ \A e \in P : e \in Int
    OBVIOUS
  <2>1. Below(p) \in SUBSET (Below(q) \ {q}) /\ q \in Below(q)
    <3>1. ASSUME NEW e \in P, e <= p PROVE e <= q /\ e # q
      BY <1>3, <2>0, <3>1
    <3>2. q <= q
      BY <2>0
    <3> QED BY <3>1, <3>2
  <2>2. IsFiniteSet(Below(q) \ {q}) /\ Cardinality(Below(q) \ {q}) = Cardinality(Below(q)) - 1
    BY <1>2, <2>1, FS_RemoveElement
  <2>3. Cardinality(Below(p)) <= Cardinality(Below(q) \ {q})
    BY <2>1, <2>2, FS_Subset
  <2> QED BY <1>2, <2>2, <2>3
<1>4. \A p \in P : Cardinality(Below(p)) \in 1..m
  <2> TAKE p \in P
  <2>1. Below(p) # {}
    OBVIOUS
  <2>2. Cardinality(Below(p)) # 0
    BY <1>2, <2>1, FS_EmptySet
  <2> QED BY <1>1, <1>2, <2>2
<1>5. rank \in [P -> 1..m] /\ \A p \in P : rank[p] = Cardinality(Below(p))
  BY <1>4
<1>6. \A p, q \in P : rank[p] = rank[q] => p = q
  BY <1>2, <1>3, <1>5
<1> HIDE DEF rank, Below, m
<1>7. rank \in Injection(P, 1..m)
  BY <1>5, <1>6 DEF Injection, IsInjective
<1>8. IsFiniteSet(1..m) /\ Cardinality(1..m) = m
  BY <1>1, FS_Interval
<1>9. rank \in Surjection(P, 1..m)
  BY <1>1, <1>7, <1>8, FS_Injection DEF m
<1>10. \A i \in 1..m : \E p \in P : rank[p] = i
  BY <1>9 DEF Surjection
<1>11. \A i : Selection!Nth(P, i) = CHOOSE p \in P : Cardinality(Below(p)) = i
  BY TargetSets DEF Selection!Nth, Below
<1>12. \A i \in 1..m : Selection!Nth(P, i) \in P /\ rank[Selection!Nth(P, i)] = i
  <2> TAKE i \in 1..m
  <2> DEFINE HasRank(p) == Cardinality(Below(p)) = i
  <2>1. PICK p \in P : HasRank(p)
    BY <1>5, <1>10
  <2>2. Selection!Nth(P, i) = CHOOSE q \in P : HasRank(q)
    BY <1>11
  <2> HIDE DEF HasRank
  <2>3. Selection!Nth(P, i) \in P /\ HasRank(Selection!Nth(P, i))
    BY <2>1, <2>2
  <2> QED BY <1>5, <2>3 DEF HasRank
<1> QED BY <1>1, <1>12 DEF m

\* The list of what is at some positions.
LEMMA AtPositions ==
  ASSUME NEW S, NEW list \in Seq(S), NEW P \in SUBSET DOMAIN list
  PROVE LET at == Selection!At(list, P)
        IN /\ at \in Seq(S) /\ DOMAIN at = 1..Len(at)
           /\ \E place \in [DOMAIN at -> P] :
                /\ \A i \in DOMAIN at : at[i] = list[place[i]]
                /\ \A i, j \in DOMAIN at : place[i] = place[j] => i = j
<1> DEFINE m == Cardinality(P)
           at == Selection!At(list, P)
           place == [i \in 1..m |-> Selection!Nth(P, i)]
<1>1. Len(list) \in Nat /\ DOMAIN list = 1..Len(list) /\ \A k \in DOMAIN list : list[k] \in S
  OBVIOUS
<1>2. /\ m \in Nat /\ \A i \in 1..m : place[i] \in P
      /\ \A i, j \in 1..m : place[i] = place[j] => i = j
  BY <1>1, EveryRank
<1>3. at = [i \in 1..m |-> list[place[i]]]
  BY TargetSets DEF Selection!At
<1> HIDE DEF at
<1>4. \A i \in 1..m : at[i] \in S /\ at[i] = list[place[i]]
  BY <1>1, <1>2, <1>3
<1>5. at \in Seq(S) /\ DOMAIN at = 1..m /\ Len(at) = m
  BY <1>2, <1>3, <1>4
<1>6. place \in [DOMAIN at -> P]
  BY <1>2, <1>5
<1> HIDE DEF place, m
<1>7. \A i \in DOMAIN at : at[i] = list[place[i]]
  BY <1>4, <1>5
<1>8. \A i, j \in DOMAIN at : place[i] = place[j] => i = j
  BY <1>2, <1>5
<1>9. DOMAIN at = 1..Len(at)
  BY <1>5
<1> QED BY <1>5, <1>6, <1>7, <1>8, <1>9 DEF at

\* The new ones of a list: each once.
LEMMA FirstsAreNew ==
  ASSUME NEW S, NEW list \in Seq(S), NEW seen
  PROVE LET new == Selection!At(list, Selection!Firsts(list, seen))
        IN /\ new \in Seq(S)
           /\ \A i, j \in DOMAIN new : new[i] = new[j] => i = j
           /\ \A i \in DOMAIN new : new[i] \notin seen
<1> DEFINE P == Selection!Firsts(list, seen)
           new == Selection!At(list, P)
<1>1. /\ P \in SUBSET DOMAIN list /\ DOMAIN list = 1..Len(list) /\ Len(list) \in Nat
      /\ \A k \in P : list[k] \notin seen /\ \A j \in 1..(k - 1) : list[j] # list[k]
  BY DEF Selection!Firsts
<1>2. \A k, l \in P : list[k] = list[l] => k = l
  <2>1. ASSUME NEW k \in P, NEW l \in P, k < l PROVE list[k] # list[l]
    BY <1>1, <2>1
  <2>2. \A k, l \in P : k \in Nat /\ l \in Nat
    BY <1>1
  <2> QED BY <2>1, <2>2
<1> HIDE DEF P
<1>3. new \in Seq(S)
  BY <1>1, AtPositions
<1>4. PICK place \in [DOMAIN new -> P] :
         (\A i \in DOMAIN new : new[i] = list[place[i]]) /\ (\A i, j \in DOMAIN new : place[i] = place[j] => i = j)
  BY <1>1, AtPositions
<1> HIDE DEF new
<1>5. \A i \in DOMAIN new : place[i] \in P
  BY <1>4
<1> QED BY <1>1, <1>2, <1>3, <1>4, <1>5 DEF new, P

LEMMA UpToPrefix ==
  ASSUME NEW S, NEW list \in Seq(S), NEW n \in Nat
  PROVE LET cut == Selection!UpTo(list, n)
        IN /\ cut \in Seq(S) /\ Len(cut) <= n /\ Len(cut) <= Len(list)
           /\ \A i \in DOMAIN cut : i \in DOMAIN list /\ cut[i] = list[i]
<1> DEFINE m == IF Len(list) < n THEN Len(list) ELSE n
<1>1. Len(list) \in Nat /\ m \in 0..Len(list) /\ m <= n /\ \A i \in 1..m : i \in DOMAIN list /\ list[i] \in S
  OBVIOUS
<1>2. Selection!UpTo(list, n) = SubSeq(list, 1, m)
  BY DEF Selection!UpTo
<1> HIDE DEF m
<1>3. 1 \in Int /\ m \in Int
  BY <1>1
<1>4. /\ SubSeq(list, 1, m) \in Seq(S) /\ Len(SubSeq(list, 1, m)) = m
      /\ \A i \in 1..m : SubSeq(list, 1, m)[i] = list[i]
  <2>1. /\ SubSeq(list, 1, m) \in Seq(S) /\ Len(SubSeq(list, 1, m)) = IF 1 <= m THEN m - 1 + 1 ELSE 0
        /\ \A i \in 1..(m - 1 + 1) : SubSeq(list, 1, m)[i] = list[1 + i - 1]
    BY <1>1, <1>3, SubSeqProperties
  <2>2. m - 1 + 1 = m /\ \A i \in 1..m : 1 + i - 1 = i
    BY <1>1
  <2> QED BY <1>1, <2>1, <2>2
<1> QED BY <1>1, <1>2, <1>4

\* What a recursion up to n from a base makes of it, one step at a time.
Unfolds(f, X, base, n, move) ==
  f \in [0..n -> X] /\ f[0] = base /\ \A k \in 1..n : f[k] = move[k][f[k - 1]]

LEMMA RecursionExists ==
  ASSUME NEW X, NEW base \in X, NEW n \in Nat, NEW move \in [1..n -> [X -> X]]
  PROVE \E f : Unfolds(f, X, base, n, move)
<1> DEFINE Good(f, m) == f[0] = base /\ \A k \in 1..m : f[k] = move[k][f[k - 1]]
           D == {m \in 0..n : ~(\E f \in [0..m -> X] : Good(f, m))}
<1>1. ASSUME NEW d \in D, \A e \in D : d <= e PROVE FALSE
  <2>1. d # 0
    <3>1. [k \in 0..0 |-> base] \in [0..0 -> X] /\ Good([k \in 0..0 |-> base], 0)
      OBVIOUS
    <3> QED BY <3>1
  <2>2. d \in 1..n /\ d - 1 \in 0..n /\ d - 1 \notin D
    BY <1>1, <2>1
  <2>3. PICK f \in [0..(d - 1) -> X] : Good(f, d - 1)
    BY <2>2
  <2> DEFINE g == [k \in 0..d |-> IF k = d THEN move[d][f[d - 1]] ELSE f[k]]
  <2>4. f[d - 1] \in X /\ move[d][f[d - 1]] \in X
    BY <2>2
  <2>5. g \in [0..d -> X]
    <3>1. \A k \in 0..d : k # d => f[k] \in X
      BY <2>2
    <3> QED BY <2>4, <3>1
  <2>6. \A k \in 0..d : g[k] = IF k = d THEN move[d][f[d - 1]] ELSE f[k]
    OBVIOUS
  <2> HIDE DEF g
  <2>7. g[0] = base
    BY <2>2, <2>3, <2>6
  <2>8. ASSUME NEW k \in 1..d PROVE g[k] = move[k][g[k - 1]]
    <3>1. g[k - 1] = f[k - 1]
      BY <2>2, <2>6
    <3>2. CASE k = d
      <4>1. d \in 0..d /\ g[d] = move[d][f[d - 1]]
        BY <2>2, <2>6
      <4> QED BY <3>1, <3>2, <4>1
    <3>3. CASE k # d
      <4>1. k \in 1..(d - 1) /\ k \in 0..d
        BY <2>2, <3>3
      <4> QED BY <2>3, <2>6, <3>1, <3>3, <4>1
    <3> QED BY <3>2, <3>3
  <2> QED BY <2>2, <2>5, <2>7, <2>8
<1>2. D = {}
  <2>1. D \in SUBSET Nat
    OBVIOUS
  <2> HIDE DEF D
  <2> QED BY <1>1, <2>1, Smallest
<1>3. \E f \in [0..n -> X] : Good(f, n)
  BY <1>2
<1> QED BY <1>3 DEF Unfolds

\* The lists of a list, one after the other, are a list of the same things.
LEMMA FlattenTargets ==
  ASSUME NEW S, NEW ss \in Seq(Seq(S)) PROVE Selection!FlattenSeq(ss) \in Seq(S)
<1> DEFINE n == Len(ss)
           Rec(f) == f = [i \in 1..n |-> IF i = 1 THEN ss[i] ELSE f[i - 1] \o ss[i]]
<1>0. n \in Nat /\ \A i \in 1..n : ss[i] \in Seq(S)
  OBVIOUS
<1>1. CASE n = 0
  BY <1>1 DEF Selection!FlattenSeq
<1>2. CASE n # 0
  <2>1. Selection!FlattenSeq(ss) = (CHOOSE f : Rec(f))[n]
    BY <1>2, Zenon DEF Selection!FlattenSeq
  <2> DEFINE move == [k \in 1..n |-> [s \in Seq(S) |-> IF k = 1 THEN ss[k] ELSE s \o ss[k]]]
  <2>2. move \in [1..n -> [Seq(S) -> Seq(S)]]
    <3>1. \A k \in 1..n, s \in Seq(S) : s \o ss[k] \in Seq(S)
      BY <1>0, ConcatProperties
    <3> QED BY <1>0, <3>1
  <2>3. \A s \in Seq(S), k \in 1..n : move[k][s] = IF k = 1 THEN ss[k] ELSE s \o ss[k]
    OBVIOUS
  <2> HIDE DEF move
  <2>4. PICK f : Unfolds(f, Seq(S), <<>>, n, move)
    <3>1. <<>> \in Seq(S)
      OBVIOUS
    <3> HIDE DEF n
    <3> QED BY <1>0, <2>2, <3>1, RecursionExists
  <2>5. \A k \in 1..n : f[k] = IF k = 1 THEN ss[k] ELSE f[k - 1] \o ss[k]
    <3>1. \A k \in 1..n : k - 1 \in 0..n
      BY <1>0
    <3>2. \A k \in 1..n : f[k - 1] \in Seq(S)
      BY <2>4, <3>1 DEF Unfolds
    <3> QED BY <2>3, <2>4, <3>2 DEF Unfolds
  <2> DEFINE g == [i \in 1..n |-> f[i]]
  <2>6. \A i \in 1..n : g[i] = f[i] /\ (i # 1 => g[i - 1] = f[i - 1])
    BY <1>0
  <2>7. Rec(g)
    BY <2>5, <2>6
  <2> HIDE DEF g
  <2>8. Rec(CHOOSE h : Rec(h))
    BY <2>7
  <2>9. PICK h : Rec(h) /\ Selection!FlattenSeq(ss) = h[n]
    BY <2>1, <2>8
  <2>10. \A k \in 1..n : h[k] = IF k = 1 THEN ss[k] ELSE h[k - 1] \o ss[k]
    BY <2>9
  <2> DEFINE D == {k \in 1..n : h[k] \notin Seq(S)}
  <2>11. ASSUME NEW d \in D, \A e \in D : d <= e PROVE FALSE
    <3>1. CASE d = 1
      BY <1>0, <2>10, <3>1
    <3>2. CASE d # 1
      <4>1. d \in 1..n /\ d - 1 \in 1..n /\ h[d - 1] \in Seq(S)
        BY <1>0, <2>11, <3>2
      <4>2. h[d - 1] \o ss[d] \in Seq(S)
        BY <1>0, <4>1, ConcatProperties
      <4> QED BY <2>10, <3>2, <4>1, <4>2
    <3> QED BY <3>1, <3>2
  <2>12. D = {}
    <3>1. D \in SUBSET Nat
      OBVIOUS
    <3> HIDE DEF D
    <3> QED BY <2>11, <3>1, Smallest
  <2>13. n \in 1..n
    BY <1>0, <1>2
  <2> QED BY <2>9, <2>12, <2>13
<1> QED BY <1>1, <1>2

LEMMA TargetConstants ==
  /\ Domain \in DOMAIN Zone /\ Zone \in [DOMAIN Zone -> Seq(Selection!Records)]
  /\ HostAddress \in [DOMAIN Zone -> Seq(HostIps)] /\ Discovered \in Seq(Seq(HostIps))
  /\ Mailbox \in [DOMAIN Zone -> DOMAIN Zone]
  /\ MaxTargets \in Nat /\ MaxNSDepth \in Nat /\ MaxNSHosts \in Nat
BY ScannerAssumption DEF Selection!TargetAssumption

\* A list that grows keeps what it had, and has nothing twice.
LEMMA RecordsAdded ==
  ASSUME NEW S, NEW list \in Seq(S), NEW more \in Seq(S), \A i, j \in DOMAIN list : list[i] = list[j] => i = j
  PROVE LET all == Selection!AddRecords(list, more)
        IN /\ all \in Seq(S) /\ \A i, j \in DOMAIN all : all[i] = all[j] => i = j
           /\ Len(list) <= Len(all) /\ \A i \in 1..Len(list) : all[i] = list[i]
<1> DEFINE new == Selection!At(more, Selection!Firsts(more, Selection!Range(list)))
           all == list \o new
<1>0. Selection!AddRecords(list, more) = all
  BY DEF Selection!AddRecords
<1>1. /\ new \in Seq(S) /\ \A i, j \in DOMAIN new : new[i] = new[j] => i = j
      /\ \A i \in DOMAIN new : new[i] \notin Selection!Range(list)
  BY FirstsAreNew
<1> HIDE DEF new
<1>2. \A i \in DOMAIN list, j \in DOMAIN new : list[i] # new[j]
  BY <1>1 DEF Selection!Range
<1>3. Len(list) \in Nat /\ Len(new) \in Nat /\ DOMAIN list = 1..Len(list) /\ DOMAIN new = 1..Len(new)
  BY <1>1
<1>4. /\ all \in Seq(S) /\ Len(all) = Len(list) + Len(new)
      /\ \A i \in 1..(Len(list) + Len(new)) : all[i] = IF i <= Len(list) THEN list[i] ELSE new[i - Len(list)]
  BY <1>1, ConcatProperties
<1> HIDE DEF all
<1>5. DOMAIN all = 1..(Len(list) + Len(new))
  BY <1>4
<1>6. \A i \in DOMAIN all : \/ i \in DOMAIN list /\ all[i] = list[i]
                            \/ i - Len(list) \in DOMAIN new /\ all[i] = new[i - Len(list)]
  BY <1>3, <1>4, <1>5
<1>7. \A i, j \in DOMAIN all : all[i] = all[j] => i = j
  <2> TAKE i, j \in DOMAIN all
  <2> HAVE all[i] = all[j]
  <2>1. i \in Int /\ j \in Int
    BY <1>3, <1>5
  <2>2. CASE i \in DOMAIN list /\ all[i] = list[i]
    BY <1>2, <1>6, <2>2
  <2>3. CASE i - Len(list) \in DOMAIN new /\ all[i] = new[i - Len(list)]
    <3>1. CASE j \in DOMAIN list /\ all[j] = list[j]
      BY <1>2, <2>3, <3>1
    <3>2. CASE j - Len(list) \in DOMAIN new /\ all[j] = new[j - Len(list)]
      <4>1. i - Len(list) = j - Len(list)
        BY <1>1, <2>3, <3>2
      <4> QED BY <1>3, <2>1, <4>1
    <3> QED BY <1>6, <3>1, <3>2
  <2> QED BY <1>6, <2>2, <2>3
<1>8. \A i \in 1..Len(list) : all[i] = list[i]
  BY <1>3, <1>4
<1> QED BY <1>0, <1>3, <1>4, <1>7, <1>8

LEMMA TypesKept ==
  ASSUME NEW list \in Seq(Selection!Records), NEW types
  PROVE LET kept == Selection!OfTypes(list, types)
        IN kept \in Seq(Selection!Records) /\ \A i \in DOMAIN kept : kept[i] \in Selection!Records /\ kept[i].type \in types
<1> DEFINE P == {k \in DOMAIN list : list[k].type \in types}
           kept == Selection!At(list, P)
<1>1. P \in SUBSET DOMAIN list /\ \A k \in P : list[k].type \in types
  OBVIOUS
<1>2. Selection!OfTypes(list, types) = kept
  BY DEF Selection!OfTypes
<1> HIDE DEF P
<1>3. kept \in Seq(Selection!Records) /\ DOMAIN kept = 1..Len(kept)
  BY <1>1, AtPositions
<1>4. PICK place \in [DOMAIN kept -> P] : \A i \in DOMAIN kept : kept[i] = list[place[i]]
  BY <1>1, AtPositions
<1> HIDE DEF kept
<1>5. \A i \in DOMAIN kept : kept[i].type \in types
  BY <1>1, <1>4
<1>6. \A i \in DOMAIN kept : kept[i] \in Selection!Records
  BY <1>3
<1> QED BY <1>2, <1>3, <1>5, <1>6

LEMMA AnswersAreRecords ==
  ASSUME NEW h \in DOMAIN Zone, NEW types
  PROVE LET all == Selection!Answers(h, types)
        IN all \in Seq(Selection!Records) /\ \A i, j \in DOMAIN all : all[i] = all[j] => i = j
<1> DEFINE kept == Selection!OfTypes(Zone[h], types)
<1>1. Zone[h] \in Seq(Selection!Records)
  BY TargetConstants
<1>2. kept \in Seq(Selection!Records)
  BY <1>1, TypesKept
<1>3. Selection!Answers(h, types) = Selection!AddRecords(<<>>, kept)
  BY DEF Selection!Answers
<1> HIDE DEF kept
<1>4. <<>> \in Seq(Selection!Records) /\ DOMAIN <<>> = {}
  OBVIOUS
<1> QED BY <1>2, <1>3, <1>4, RecordsAdded

LEMMA NsHostsAreHosts ==
  ASSUME NEW list \in Seq(Selection!Records) PROVE Selection!NsHosts(list) \in Seq(DOMAIN Zone)
<1> DEFINE pointing == Selection!OfTypes(list, {"NS", "SOA"})
           hs == [k \in DOMAIN pointing |-> pointing[k].value]
<1>1. /\ pointing \in Seq(Selection!Records)
      /\ \A i \in DOMAIN pointing : pointing[i] \in Selection!Records /\ pointing[i].type \in {"NS", "SOA"}
  BY TypesKept
<1>2. Selection!NsHosts(list) = Selection!At(hs, Selection!Firsts(hs, {}))
  BY DEF Selection!NsHosts
<1> HIDE DEF pointing
<1>3. \A i \in DOMAIN pointing : pointing[i].value \in DOMAIN Zone
  BY <1>1 DEF Selection!Records
<1>4. hs \in Seq(DOMAIN Zone)
  <2>1. DOMAIN pointing = 1..Len(pointing) /\ Len(pointing) \in Nat
    BY <1>1
  <2> QED BY <1>3, <2>1
<1> HIDE DEF hs
<1> QED BY <1>2, <1>4, FirstsAreNew

-----------------------------------------------------------------------------
(* The numbers of the targets.                                              *)

Numbered(list) ==
  /\ list \in Seq(Selection!Targets) /\ \A k \in DOMAIN list : list[k].id = k
  /\ \A j, k \in DOMAIN list : list[j].ip = list[k].ip => j = k

Candidates == [kind : Selection!Kinds, ip : DOMAIN Zone \cup HostIps]

LEMMA CutIsNumbered ==
  ASSUME NEW list, Numbered(list), NEW n \in Nat
  PROVE Numbered(Selection!UpTo(list, n)) /\ Len(Selection!UpTo(list, n)) <= n
<1> DEFINE cut == Selection!UpTo(list, n)
<1>1. list \in Seq(Selection!Targets)
  BY DEF Numbered
<1>2. /\ cut \in Seq(Selection!Targets) /\ Len(cut) <= n
      /\ \A i \in DOMAIN cut : i \in DOMAIN list /\ cut[i] = list[i]
  BY <1>1, UpToPrefix
<1> HIDE DEF cut
<1>3. Numbered(cut)
  BY <1>2 DEF Numbered
<1> QED BY <1>2, <1>3 DEF cut

LEMMA TargetsAdded ==
  ASSUME NEW list, Numbered(list), NEW more \in Seq(Candidates) PROVE Numbered(Selection!AddTargets(list, more))
<1> DEFINE ips == [k \in DOMAIN more |-> more[k].ip]
           listed == {list[k].ip : k \in DOMAIN list}
           P == Selection!Firsts(ips, listed)
           new == Selection!At(more, P)
           tail == [k \in DOMAIN new |-> [id |-> Len(list) + k, kind |-> new[k].kind, ip |-> new[k].ip]]
           all == list \o tail
<1>0. Selection!AddTargets(list, more) = all
  BY DEF Selection!AddTargets
<1>1. /\ list \in Seq(Selection!Targets) /\ Len(list) \in Nat /\ DOMAIN list = 1..Len(list)
      /\ \A k \in DOMAIN list : list[k].id = k /\ list[k] \in Selection!Targets
      /\ \A j, k \in DOMAIN list : list[j].ip = list[k].ip => j = k
  BY DEF Numbered
<1>2. Len(more) \in Nat /\ DOMAIN more = 1..Len(more) /\ DOMAIN ips = DOMAIN more /\ \A k \in DOMAIN more : ips[k] = more[k].ip
  OBVIOUS
<1>3. /\ P \in SUBSET DOMAIN more
      /\ \A k \in P : more[k].ip \notin listed
      /\ \A k, l \in P : k < l => more[k].ip # more[l].ip
  <2>1. \A k \in P : k \in DOMAIN more /\ ips[k] \notin listed /\ \A j \in 1..(k - 1) : ips[j] # ips[k]
    BY <1>2 DEF Selection!Firsts
  <2>2. \A k, l \in P : k < l => k \in 1..(l - 1)
    BY <1>2, <2>1
  <2> HIDE DEF P, listed, ips
  <2> QED BY <1>2, <2>1, <2>2
<1>4. \A k, l \in P : more[k].ip = more[l].ip => k = l
  <2>1. \A k \in P : k \in Int
    BY <1>2, <1>3
  <2> HIDE DEF P
  <2> QED BY <1>3, <2>1
<1> HIDE DEF P, listed
<1>5. new \in Seq(Candidates) /\ DOMAIN new = 1..Len(new) /\ Len(new) \in Nat
  BY <1>3, AtPositions
<1>6. PICK place \in [DOMAIN new -> P] :
         (\A i \in DOMAIN new : new[i] = more[place[i]]) /\ (\A i, j \in DOMAIN new : place[i] = place[j] => i = j)
  BY <1>3, AtPositions
<1> HIDE DEF new
<1>7. /\ \A i \in DOMAIN new : new[i].ip \notin listed
      /\ \A i, j \in DOMAIN new : new[i].ip = new[j].ip => i = j
  <2>1. \A i \in DOMAIN new : place[i] \in P
    BY <1>6
  <2> QED BY <1>3, <1>4, <1>6, <2>1
<1>8. /\ DOMAIN tail = 1..Len(new)
      /\ \A i \in 1..Len(new) : tail[i] = [id |-> Len(list) + i, kind |-> new[i].kind, ip |-> new[i].ip]
  BY <1>5
<1>9. \A i \in 1..Len(new) : tail[i] \in Selection!Targets
  <2> TAKE i \in 1..Len(new)
  <2>1. new[i] \in Candidates
    BY <1>5
  <2>2. new[i].kind \in Selection!Kinds /\ new[i].ip \in DOMAIN Zone \cup HostIps /\ Len(list) + i \in Nat
    BY <1>1, <1>5, <2>1 DEF Candidates
  <2> QED BY <1>8, <2>2 DEF Selection!Targets
<1> HIDE DEF tail
<1>10. tail \in Seq(Selection!Targets) /\ Len(tail) = Len(new)
  <2>1. tail = [i \in 1..Len(new) |-> tail[i]]
    BY <1>8 DEF tail
  <2> QED BY <1>5, <1>9, <2>1
<1>11. /\ all \in Seq(Selection!Targets) /\ Len(all) = Len(list) + Len(new)
       /\ \A i \in 1..(Len(list) + Len(new)) : all[i] = IF i <= Len(list) THEN list[i] ELSE tail[i - Len(list)]
  <2>1. /\ all \in Seq(Selection!Targets) /\ Len(all) = Len(list) + Len(tail)
        /\ \A i \in 1..(Len(list) + Len(tail)) : all[i] = IF i <= Len(list) THEN list[i] ELSE tail[i - Len(list)]
    <3>1. list \in Seq(Selection!Targets) /\ tail \in Seq(Selection!Targets)
      BY <1>1, <1>10
    <3> QED BY <3>1, ConcatProperties
  <2> HIDE DEF all
  <2> QED BY <1>10, <2>1
<1> HIDE DEF all
<1>12. DOMAIN all = 1..(Len(list) + Len(new))
  BY <1>11
<1>13. \A i \in DOMAIN all :
         \/ i \in DOMAIN list /\ all[i].id = i /\ all[i].ip = list[i].ip
         \/ i - Len(list) \in DOMAIN new /\ all[i].id = i /\ all[i].ip = new[i - Len(list)].ip
  <2> TAKE i \in DOMAIN all
  <2>1. CASE i <= Len(list)
    BY <1>1, <1>11, <1>12, <2>1
  <2>2. CASE ~(i <= Len(list))
    <3> DEFINE k == i - Len(list)
    <3>1. i \in 1..(Len(list) + Len(new)) /\ k \in 1..Len(new) /\ Len(list) + k = i
      BY <1>1, <1>5, <1>12, <2>2
    <3>2. all[i] = tail[k]
      BY <1>11, <2>2, <3>1
    <3>3. tail[k] = [id |-> Len(list) + k, kind |-> new[k].kind, ip |-> new[k].ip]
      BY <1>8, <3>1
    <3> QED BY <1>5, <3>1, <3>2, <3>3
  <2> QED BY <2>1, <2>2
<1>14. \A i \in DOMAIN list, j \in DOMAIN new : list[i].ip # new[j].ip
  BY <1>7 DEF listed
<1>15. \A i, j \in DOMAIN all : all[i].ip = all[j].ip => i = j
  <2> TAKE i, j \in DOMAIN all
  <2> HAVE all[i].ip = all[j].ip
  <2>1. i \in Int /\ j \in Int
    BY <1>1, <1>5, <1>12
  <2>2. CASE i \in DOMAIN list /\ all[i].ip = list[i].ip
    <3>1. CASE j \in DOMAIN list /\ all[j].ip = list[j].ip
      BY <1>1, <2>2, <3>1
    <3>2. CASE j - Len(list) \in DOMAIN new /\ all[j].ip = new[j - Len(list)].ip
      BY <1>14, <2>2, <3>2
    <3> QED BY <1>13, <3>1, <3>2
  <2>3. CASE i - Len(list) \in DOMAIN new /\ all[i].ip = new[i - Len(list)].ip
    <3>1. CASE j \in DOMAIN list /\ all[j].ip = list[j].ip
      BY <1>14, <2>3, <3>1
    <3>2. CASE j - Len(list) \in DOMAIN new /\ all[j].ip = new[j - Len(list)].ip
      <4>1. i - Len(list) = j - Len(list)
        BY <1>7, <2>3, <3>2
      <4> QED BY <1>1, <2>1, <4>1
    <3> QED BY <1>13, <3>1, <3>2
  <2> QED BY <1>13, <2>2, <2>3
<1>16. \A i \in DOMAIN all : all[i].id = i
  BY <1>13
<1> QED BY <1>0, <1>11, <1>15, <1>16 DEF Numbered

\* Dropping targets and numbering the others anew.
LEMMA FilterIsNumbered ==
  ASSUME NEW list, Numbered(list), NEW ipv6
  PROVE /\ Numbered(Selection!FilterUnroutable(list, ipv6))
        /\ Len(Selection!FilterUnroutable(list, ipv6)) <= Len(list)
<1> DEFINE P == {k \in DOMAIN list : list[k].ip \notin IPv6}
           kept == Selection!At(list, P)
           filtered == [k \in DOMAIN kept |-> [kept[k] EXCEPT !.id = k]]
<1>1. /\ list \in Seq(Selection!Targets) /\ Len(list) \in Nat /\ DOMAIN list = 1..Len(list)
      /\ \A j, k \in DOMAIN list : list[j].ip = list[k].ip => j = k
  BY DEF Numbered
<1>2. Selection!FilterUnroutable(list, ipv6) = IF ipv6 THEN list ELSE filtered
  BY DEF Selection!FilterUnroutable
<1>3. P \in SUBSET DOMAIN list
  OBVIOUS
<1> HIDE DEF P
<1>4. kept \in Seq(Selection!Targets) /\ DOMAIN kept = 1..Len(kept) /\ Len(kept) \in Nat
  BY <1>1, <1>3, AtPositions
<1>5. PICK place \in [DOMAIN kept -> P] :
         (\A i \in DOMAIN kept : kept[i] = list[place[i]]) /\ (\A i, j \in DOMAIN kept : place[i] = place[j] => i = j)
  BY <1>1, <1>3, AtPositions
<1>6. Len(kept) <= Len(list)
  <2>1. IsFiniteSet(P) /\ Cardinality(P) <= Len(list)
    <3>1. \A n \in Nat : IsFiniteSet(1..n) /\ Cardinality(1..n) = n
      <4> TAKE n \in Nat
      <4>1. 1 \in Int /\ n \in Int
        OBVIOUS
      <4> QED BY <4>1, FS_Interval
    <3>2. IsFiniteSet(1..Len(list)) /\ Cardinality(1..Len(list)) = Len(list)
      BY <1>1, <3>1
    <3> QED BY <1>1, <1>3, <3>2, FS_Subset
  <2>2. kept = [i \in 1..Cardinality(P) |-> list[Selection!Nth(P, i)]]
    BY TargetSets DEF Selection!At
  <2>3. Cardinality(P) \in Nat
    BY <2>1, FS_CardinalityType
  <2>4. Len(kept) = Cardinality(P)
    <3>1. DOMAIN kept = 1..Cardinality(P)
      BY <2>2
    <3> HIDE DEF kept
    <3> QED BY <1>4, <2>3, <3>1
  <2> QED BY <2>1, <2>4
<1> HIDE DEF kept
<1>7. \A i \in DOMAIN kept : kept[i] \in Selection!Targets /\ place[i] \in DOMAIN list /\ kept[i] = list[place[i]]
  BY <1>3, <1>4, <1>5
<1>8. \A i \in DOMAIN kept : /\ filtered[i] = [kept[i] EXCEPT !.id = i] /\ filtered[i].id = i
                             /\ filtered[i].ip = kept[i].ip /\ filtered[i] \in Selection!Targets
  <2> TAKE i \in DOMAIN kept
  <2> DEFINE old == kept[i]
  <2>1. filtered[i] = [old EXCEPT !.id = i]
    OBVIOUS
  <2>2. old \in [id : Nat, kind : Selection!Kinds, ip : DOMAIN Zone \cup HostIps] /\ i \in Nat
    BY <1>4, <1>7 DEF Selection!Targets
  <2> HIDE DEF old, filtered
  <2>3. filtered[i] = [id |-> i, kind |-> old.kind, ip |-> old.ip]
    BY <2>1, <2>2
  <2>4. filtered[i].id = i /\ filtered[i].ip = old.ip /\ filtered[i] \in Selection!Targets
    BY <2>2, <2>3 DEF Selection!Targets
  <2> QED BY <2>1, <2>4 DEF old
<1>9. DOMAIN filtered = DOMAIN kept /\ filtered = [k \in 1..Len(kept) |-> filtered[k]]
  BY <1>4
<1> HIDE DEF filtered
<1>10. filtered \in Seq(Selection!Targets) /\ Len(filtered) = Len(kept)
  BY <1>4, <1>8, <1>9
<1>11. \A i, j \in DOMAIN filtered : filtered[i].ip = filtered[j].ip => i = j
  <2> TAKE i, j \in DOMAIN filtered
  <2> HAVE filtered[i].ip = filtered[j].ip
  <2>1. i \in DOMAIN kept /\ j \in DOMAIN kept
    BY <1>9
  <2>2. list[place[i]].ip = list[place[j]].ip
    BY <1>7, <1>8, <2>1
  <2>3. place[i] = place[j]
    BY <1>1, <1>7, <2>1, <2>2
  <2> QED BY <1>5, <2>1, <2>3
<1>12. Numbered(filtered) /\ Len(filtered) <= Len(list)
  BY <1>6, <1>8, <1>9, <1>10, <1>11 DEF Numbered
<1> QED BY <1>1, <1>2, <1>12

-----------------------------------------------------------------------------
(* The selection, step by step.                                                  *)

SelectionInv ==
  /\ Selection!TypeOK /\ Selection!TargetsAreNumbered /\ Selection!DelegationIsBounded
  /\ selection = "records" => asked = <<>>
  /\ selection \in {"records", "expand"} => targets = <<>>

LEMMA SelectionParts == Selection!IInv <=> SelectionInv
BY DEF Selection!IInv, SelectionInv

LEMMA SelectionInit == Selection!Init => SelectionInv
<1> SUFFICES ASSUME Selection!Init PROVE SelectionInv
  OBVIOUS
<1>1. /\ selection = "records" /\ records = <<>> /\ hosts = <<>> /\ level = 0 /\ asked = <<>>
      /\ first = <<>> /\ targets = <<>>
  BY DEF Selection!Init, Selection!InitWith
<1>2. \A S : <<>> \in Seq(S)
  OBVIOUS
<1>3. Selection!TypeOK
  BY <1>1, <1>2, TargetConstants DEF Selection!TypeOK
<1>4. Selection!TargetsAreNumbered
  BY <1>1 DEF Selection!TargetsAreNumbered
<1>5. Selection!DelegationIsBounded
  BY <1>1, TargetConstants DEF Selection!DelegationIsBounded, Selection!IsInjective, Selection!Range, Selection!IsPrefix
<1> QED BY <1>1, <1>3, <1>4, <1>5 DEF SelectionInv

\* A prefix, element by element.
LEMMA PrefixByElement ==
  ASSUME NEW S, NEW s \in Seq(S), NEW t \in Seq(S)
  PROVE Selection!IsPrefix(s, t) <=> Len(s) <= Len(t) /\ \A i \in 1..Len(s) : s[i] = t[i]
<1>0. Len(s) \in Nat /\ Len(t) \in Nat
  OBVIOUS
<1>1. CASE ~(Len(s) <= Len(t))
  BY <1>1 DEF Selection!IsPrefix
<1>2. CASE Len(s) <= Len(t)
  <2>1. \A u \in Seq(S) : Len(s) <= Len(u) =>
          /\ SubSeq(u, 1, Len(s)) \in Seq(S) /\ Len(SubSeq(u, 1, Len(s))) = Len(s)
          /\ \A i \in 1..Len(s) : SubSeq(u, 1, Len(s))[i] = u[i]
    <3> TAKE u \in Seq(S)
    <3> HAVE Len(s) <= Len(u)
    <3> DEFINE n == Len(s)
    <3>1. n \in Int /\ 1 \in Int /\ Len(u) \in Nat /\ \A i \in 1..n : u[i] \in S
      BY <1>0
    <3>2. n \in Nat
      BY <1>0
    <3> HIDE DEF n
    <3>3. /\ SubSeq(u, 1, n) \in Seq(S) /\ Len(SubSeq(u, 1, n)) = IF 1 <= n THEN n - 1 + 1 ELSE 0
          /\ \A i \in 1..(n - 1 + 1) : SubSeq(u, 1, n)[i] = u[1 + i - 1]
      BY <3>1, SubSeqProperties
    <3>4. n - 1 + 1 = n /\ \A i \in 1..n : 1 + i - 1 = i
      BY <3>2
    <3>5. SubSeq(u, 1, n) \in Seq(S) /\ Len(SubSeq(u, 1, n)) = n /\ \A i \in 1..n : SubSeq(u, 1, n)[i] = u[i]
      BY <3>2, <3>3, <3>4
    <3> QED BY <3>5 DEF n
  <2>2. Len(s) <= Len(s)
    BY <1>0
  <2>3. /\ SubSeq(s, 1, Len(s)) \in Seq(S) /\ Len(SubSeq(s, 1, Len(s))) = Len(s)
        /\ \A i \in 1..Len(s) : SubSeq(s, 1, Len(s))[i] = s[i]
    BY <2>1, <2>2
  <2>4. /\ SubSeq(t, 1, Len(s)) \in Seq(S) /\ Len(SubSeq(t, 1, Len(s))) = Len(s)
        /\ \A i \in 1..Len(s) : SubSeq(t, 1, Len(s))[i] = t[i]
    BY <1>2, <2>1
  <2>5. ASSUME \A i \in 1..Len(s) : s[i] = t[i] PROVE SubSeq(s, 1, Len(s)) = SubSeq(t, 1, Len(s))
    BY <2>3, <2>4, <2>5, SeqEqual
  <2>6. ASSUME SubSeq(s, 1, Len(s)) = SubSeq(t, 1, Len(s)) PROVE \A i \in 1..Len(s) : s[i] = t[i]
    BY <2>3, <2>4, <2>6
  <2> QED BY <1>2, <2>5, <2>6 DEF Selection!IsPrefix
<1> QED BY <1>1, <1>2

LEMMA SelectionLooksUp ==
  ASSUME SelectionInv, NEW types, Selection!LookupAll(types) PROVE SelectionInv'
<1> DEFINE all == Selection!Answers(Domain, types)
<1>0. Selection!TypeOK /\ Selection!TargetsAreNumbered /\ asked = <<>> /\ targets = <<>> /\ Selection!DelegationIsBounded
  BY DEF SelectionInv, Selection!LookupAll
<1>1. /\ UNCHANGED <<expand, auto, level, asked, targets>>
      /\ selection' = "expand" /\ records' = all /\ first' = all
      /\ hosts' = IF expand THEN Selection!NsHosts(all) ELSE <<>>
  BY DEF Selection!LookupAll
<1>2. all \in Seq(Selection!Records) /\ \A i, j \in DOMAIN all : all[i] = all[j] => i = j
  BY TargetConstants, AnswersAreRecords
<1> HIDE DEF all
<1>3. hosts' \in Seq(DOMAIN Zone)
  <2>1. <<>> \in Seq(DOMAIN Zone)
    OBVIOUS
  <2> QED BY <1>1, <1>2, <2>1, NsHostsAreHosts
<1>4. Selection!TypeOK'
  BY <1>0, <1>1, <1>2, <1>3 DEF Selection!TypeOK
<1>5. Selection!DelegationIsBounded'
  <2>1. Selection!IsPrefix(all, all)
    BY <1>2, PrefixByElement
  <2> QED BY <1>0, <1>1, <1>2, <2>1 DEF Selection!DelegationIsBounded, Selection!IsInjective
<1>6. Selection!TargetsAreNumbered'
  BY <1>0, <1>1 DEF Selection!TargetsAreNumbered
<1> QED BY <1>0, <1>1, <1>4, <1>5, <1>6 DEF SelectionInv

\* A level claims new hosts only, and no more of them than are left.
LEMMA ClaimIsNew ==
  ASSUME SelectionInv
  PROVE LET claimed == Selection!Claim(hosts)
        IN /\ claimed \in Seq(DOMAIN Zone) /\ Len(claimed) <= MaxNSHosts - Len(asked)
           /\ \A i, j \in DOMAIN claimed : claimed[i] = claimed[j] => i = j
           /\ \A i \in DOMAIN claimed : claimed[i] \notin Selection!Range(asked) \cup {Domain}
<1> DEFINE new == Selection!At(hosts, Selection!Firsts(hosts, Selection!Range(asked) \cup {Domain}))
           room == MaxNSHosts - Len(asked)
           claimed == Selection!UpTo(new, room)
<1>0. Selection!Claim(hosts) = claimed
  BY DEF Selection!Claim
<1>1. hosts \in Seq(DOMAIN Zone) /\ asked \in Seq(DOMAIN Zone) /\ Len(asked) <= MaxNSHosts
  BY DEF SelectionInv, Selection!TypeOK, Selection!DelegationIsBounded
<1>2. room \in Nat
  BY <1>1, TargetConstants
<1>3. /\ new \in Seq(DOMAIN Zone) /\ \A i, j \in DOMAIN new : new[i] = new[j] => i = j
      /\ \A i \in DOMAIN new : new[i] \notin Selection!Range(asked) \cup {Domain}
  BY <1>1, FirstsAreNew
<1> HIDE DEF new, room
<1>4. /\ claimed \in Seq(DOMAIN Zone) /\ Len(claimed) <= room
      /\ \A i \in DOMAIN claimed : i \in DOMAIN new /\ claimed[i] = new[i]
  BY <1>2, <1>3, UpToPrefix
<1> HIDE DEF claimed
<1>5. /\ \A i, j \in DOMAIN claimed : claimed[i] = claimed[j] => i = j
      /\ \A i \in DOMAIN claimed : claimed[i] \notin Selection!Range(asked) \cup {Domain}
  BY <1>3, <1>4
<1> QED BY <1>0, <1>4, <1>5 DEF room

LEMMA SelectionExpands ==
  ASSUME SelectionInv, NEW types, Selection!ExpandLevel(types) PROVE SelectionInv'
<1> DEFINE claimed == Selection!Claim(hosts)
           Found(k) == Selection!Answers(claimed[k], types[claimed[k]])
           Behind(k) == Selection!NsHosts(Found(k))
           crawled == Selection!FlattenSeq([k \in DOMAIN claimed |-> Found(k)])
           behind == Selection!FlattenSeq([k \in DOMAIN claimed |-> Behind(k)])
           more == asked \o claimed
           all == Selection!AddRecords(records, crawled)
<1>0. /\ Selection!TypeOK /\ Selection!TargetsAreNumbered /\ Selection!DelegationIsBounded
      /\ asked \in Seq(DOMAIN Zone) /\ records \in Seq(Selection!Records) /\ first \in Seq(Selection!Records)
  BY DEF SelectionInv, Selection!TypeOK
<1>1. /\ UNCHANGED <<selection, expand, auto, first, targets>>
      /\ selection = "expand" /\ level < MaxNSDepth /\ level' = level + 1
      /\ asked' = more /\ records' = all /\ hosts' = behind
  BY DEF Selection!ExpandLevel
<1>2. targets = <<>>
  BY <1>1 DEF SelectionInv
<1>3. /\ claimed \in Seq(DOMAIN Zone) /\ Len(claimed) <= MaxNSHosts - Len(asked)
      /\ \A i, j \in DOMAIN claimed : claimed[i] = claimed[j] => i = j
      /\ \A i \in DOMAIN claimed : claimed[i] \notin Selection!Range(asked) \cup {Domain}
  BY ClaimIsNew
<1> HIDE DEF claimed
<1>4. DOMAIN claimed = 1..Len(claimed) /\ Len(claimed) \in Nat /\ \A k \in DOMAIN claimed : claimed[k] \in DOMAIN Zone
  BY <1>3
<1>5. \A k \in DOMAIN claimed : Found(k) \in Seq(Selection!Records) /\ Behind(k) \in Seq(DOMAIN Zone)
  <2> TAKE k \in DOMAIN claimed
  <2>1. Found(k) \in Seq(Selection!Records)
    BY <1>4, AnswersAreRecords
  <2>2. Behind(k) \in Seq(DOMAIN Zone)
    BY <2>1, NsHostsAreHosts
  <2> QED BY <2>1, <2>2
<1> HIDE DEF Found, Behind
<1>6. crawled \in Seq(Selection!Records) /\ behind \in Seq(DOMAIN Zone)
  <2>1. [k \in DOMAIN claimed |-> Found(k)] \in Seq(Seq(Selection!Records))
    BY <1>4, <1>5
  <2>2. [k \in DOMAIN claimed |-> Behind(k)] \in Seq(Seq(DOMAIN Zone))
    BY <1>4, <1>5
  <2> QED BY <2>1, <2>2, FlattenTargets
<1> HIDE DEF crawled, behind
<1>7. \A i, j \in DOMAIN records : records[i] = records[j] => i = j
  BY <1>0 DEF Selection!DelegationIsBounded, Selection!IsInjective
<1>8. /\ all \in Seq(Selection!Records) /\ \A i, j \in DOMAIN all : all[i] = all[j] => i = j
      /\ Len(records) <= Len(all) /\ \A i \in 1..Len(records) : all[i] = records[i]
  BY <1>0, <1>6, <1>7, RecordsAdded
<1> HIDE DEF all
<1>9. /\ more \in Seq(DOMAIN Zone) /\ Len(more) = Len(asked) + Len(claimed)
      /\ \A i \in 1..(Len(asked) + Len(claimed)) : more[i] = IF i <= Len(asked) THEN asked[i] ELSE claimed[i - Len(asked)]
  BY <1>0, <1>3, ConcatProperties
<1> HIDE DEF more
<1>10. Len(asked) \in Nat /\ DOMAIN asked = 1..Len(asked) /\ DOMAIN more = 1..(Len(asked) + Len(claimed))
  BY <1>0, <1>9
<1>11. \A i \in DOMAIN more : \/ i \in DOMAIN asked /\ more[i] = asked[i]
                              \/ i - Len(asked) \in DOMAIN claimed /\ more[i] = claimed[i - Len(asked)]
  BY <1>4, <1>9, <1>10
<1>12. Selection!TypeOK'
  <2>1. level' \in 0..MaxNSDepth
    BY <1>0, <1>1, TargetConstants DEF Selection!TypeOK
  <2> QED BY <1>0, <1>1, <1>6, <1>8, <1>9, <2>1 DEF Selection!TypeOK
<1>13. Selection!DelegationIsBounded'
  <2>1. Selection!IsInjective(asked) /\ Domain \notin Selection!Range(asked) /\ Len(asked) <= MaxNSHosts
        /\ Selection!IsPrefix(first, records)
    BY <1>0 DEF Selection!DelegationIsBounded
  <2>2. \A i \in DOMAIN asked, j \in DOMAIN claimed : asked[i] # claimed[j]
    BY <1>3 DEF Selection!Range
  <2>3. \A i, j \in DOMAIN more : more[i] = more[j] => i = j
    <3> TAKE i, j \in DOMAIN more
    <3> HAVE more[i] = more[j]
    <3>1. i \in Int /\ j \in Int
      BY <1>10
    <3>2. CASE i \in DOMAIN asked /\ more[i] = asked[i]
      <4>1. CASE j \in DOMAIN asked /\ more[j] = asked[j]
        BY <2>1, <3>2, <4>1 DEF Selection!IsInjective
      <4>2. CASE j - Len(asked) \in DOMAIN claimed /\ more[j] = claimed[j - Len(asked)]
        BY <2>2, <3>2, <4>2
      <4> QED BY <1>11, <4>1, <4>2
    <3>3. CASE i - Len(asked) \in DOMAIN claimed /\ more[i] = claimed[i - Len(asked)]
      <4>1. CASE j \in DOMAIN asked /\ more[j] = asked[j]
        BY <2>2, <3>3, <4>1
      <4>2. CASE j - Len(asked) \in DOMAIN claimed /\ more[j] = claimed[j - Len(asked)]
        <5>1. i - Len(asked) = j - Len(asked)
          BY <1>3, <3>3, <4>2
        <5> QED BY <1>10, <3>1, <5>1
      <4> QED BY <1>11, <4>1, <4>2
    <3> QED BY <1>11, <3>2, <3>3
  <2>4. Domain \notin Selection!Range(more)
    <3>1. \A i \in DOMAIN more : more[i] # Domain
      BY <1>3, <1>11, <2>1 DEF Selection!Range
    <3> QED BY <3>1 DEF Selection!Range
  <2>5. Len(more) <= MaxNSHosts
    BY <1>3, <1>4, <1>9, <1>10, TargetConstants
  <2>6. Selection!IsPrefix(first, all)
    <3>1. Len(first) <= Len(records) /\ \A i \in 1..Len(first) : first[i] = records[i]
      BY <1>0, <2>1, PrefixByElement
    <3>2. Len(first) \in Nat /\ Len(records) \in Nat /\ Len(all) \in Nat
      BY <1>0, <1>8
    <3>3. Len(first) <= Len(all) /\ \A i \in 1..Len(first) : first[i] = all[i]
      BY <1>8, <3>1, <3>2
    <3> QED BY <1>0, <1>8, <3>3, PrefixByElement
  <2> QED BY <1>1, <1>8, <2>3, <2>4, <2>5, <2>6 DEF Selection!DelegationIsBounded, Selection!IsInjective
<1>14. Selection!TargetsAreNumbered'
  BY <1>0, <1>1 DEF Selection!TargetsAreNumbered
<1> QED BY <1>1, <1>2, <1>12, <1>13, <1>14 DEF SelectionInv

\* The addresses of a host, and those of the discovered names, are candidates.
LEMMA KindsAreCandidates ==
  ASSUME NEW kind \in Selection!Kinds, NEW ips \in Seq(HostIps)
  PROVE Selection!OfKind(kind, ips) \in Seq(Candidates)
<1>1. DOMAIN ips = 1..Len(ips) /\ Len(ips) \in Nat /\ \A k \in DOMAIN ips : ips[k] \in HostIps
  OBVIOUS
<1>2. \A k \in DOMAIN ips : [kind |-> kind, ip |-> ips[k]] \in Candidates
  BY <1>1 DEF Candidates
<1> QED BY <1>1, <1>2 DEF Selection!OfKind

LEMMA NothingIsNumbered == Numbered(<<>>)
BY DEF Numbered

LEMMA AllTargetsNumbered ==
  ASSUME SelectionInv, NEW resolving \in SUBSET DOMAIN Zone PROVE Numbered(Selection!AllTargets(resolving))
<1> DEFINE direct == Selection!OfTypes(records, {"A", "AAAA"})
           behind == Selection!OfTypes(records, {"MX", "NS", "SOA"})
           Addresses(name) == IF name \in resolving THEN HostAddress[name] ELSE <<>>
           Each(r) == Selection!FlattenSeq([k \in DOMAIN Selection!Named(r) |-> Addresses(Selection!Named(r)[k])])
           Resolved(r) == Selection!OfKind(r.type, Each(r))
           near == [k \in DOMAIN direct |-> [kind |-> direct[k].type, ip |-> direct[k].value]]
           far == Selection!FlattenSeq([k \in DOMAIN behind |-> Resolved(behind[k])])
<1>0. Selection!AllTargets(resolving) = Selection!AddTargets(<<>>, near \o far)
  BY DEF Selection!AllTargets
<1>1. records \in Seq(Selection!Records)
  BY DEF SelectionInv, Selection!TypeOK
<1>2. /\ direct \in Seq(Selection!Records)
      /\ \A i \in DOMAIN direct : direct[i] \in Selection!Records /\ direct[i].type \in {"A", "AAAA"}
  BY <1>1, TypesKept
<1>3. /\ behind \in Seq(Selection!Records)
      /\ \A i \in DOMAIN behind : behind[i] \in Selection!Records /\ behind[i].type \in {"MX", "NS", "SOA"}
  BY <1>1, TypesKept
<1> HIDE DEF direct, behind
<1>4. near \in Seq(Candidates)
  <2>1. DOMAIN direct = 1..Len(direct) /\ Len(direct) \in Nat
    BY <1>2
  <2>2. \A k \in DOMAIN direct : [kind |-> direct[k].type, ip |-> direct[k].value] \in Candidates
    BY <1>2 DEF Candidates, Selection!Kinds, Selection!Records
  <2> QED BY <2>1, <2>2
<1>5. far \in Seq(Candidates)
  <2>1. DOMAIN behind = 1..Len(behind) /\ Len(behind) \in Nat
    BY <1>3
  <2>2. \A k \in DOMAIN behind : Resolved(behind[k]) \in Seq(Candidates)
    <3> TAKE k \in DOMAIN behind
    <3>1. behind[k].type \in Selection!Kinds
      BY <1>3 DEF Selection!Kinds
    <3>2. Each(behind[k]) \in Seq(HostIps)
      <4> DEFINE list == Selection!Named(behind[k])
      <4>1. Len(list) \in Nat /\ DOMAIN list = 1..Len(list)
        <5>1. CASE behind[k].type = "SOA"
          BY <5>1 DEF Selection!Named
        <5>2. CASE behind[k].type # "SOA"
          BY <5>2 DEF Selection!Named
        <5> QED BY <5>1, <5>2
      <4>2. \A j \in DOMAIN list : Addresses(list[j]) \in Seq(HostIps)
        <5>1. <<>> \in Seq(HostIps)
          OBVIOUS
        <5>2. \A name \in resolving : HostAddress[name] \in Seq(HostIps)
          BY TargetConstants
        <5> QED BY <5>1, <5>2
      <4> HIDE DEF list, Addresses
      <4>3. [j \in DOMAIN list |-> Addresses(list[j])] \in Seq(Seq(HostIps))
        BY <4>1, <4>2
      <4>4. Selection!FlattenSeq([j \in DOMAIN list |-> Addresses(list[j])]) \in Seq(HostIps)
        BY <4>3, FlattenTargets
      <4> QED BY <4>4 DEF list
    <3> QED BY <3>1, <3>2, KindsAreCandidates
  <2> HIDE DEF Resolved
  <2>3. [k \in DOMAIN behind |-> Resolved(behind[k])] \in Seq(Seq(Candidates))
    BY <2>1, <2>2
  <2> QED BY <2>3, FlattenTargets
<1> HIDE DEF near, far
<1>6. near \o far \in Seq(Candidates)
  BY <1>4, <1>5, ConcatProperties
<1> QED BY <1>0, <1>6, NothingIsNumbered, TargetsAdded

LEMMA SelectionResolves ==
  ASSUME SelectionInv, NEW resolving \in SUBSET DOMAIN Zone, Selection!Resolve(resolving) PROVE SelectionInv'
<1>0. Selection!TypeOK /\ Selection!DelegationIsBounded
  BY DEF SelectionInv
<1>1. /\ UNCHANGED <<expand, auto, records, hosts, level, asked, first>>
      /\ selection' = "select" /\ targets' = Selection!AllTargets(resolving)
  BY DEF Selection!Resolve
<1>2. Numbered(targets')
  BY <1>1, AllTargetsNumbered
<1>3. Selection!TypeOK'
  BY <1>0, <1>1, <1>2 DEF Selection!TypeOK, Numbered
<1>4. Selection!TargetsAreNumbered'
  BY <1>1, <1>2 DEF Selection!TargetsAreNumbered, Numbered
<1>5. Selection!DelegationIsBounded'
  BY <1>0, <1>1 DEF Selection!DelegationIsBounded
<1> QED BY <1>1, <1>3, <1>4, <1>5 DEF SelectionInv

LEMMA SubdomainsAreNumbered ==
  ASSUME NEW list, Numbered(list) PROVE Numbered(Selection!WithSubdomains(list))
<1> DEFINE more == Selection!FlattenSeq([k \in DOMAIN Discovered |-> Selection!OfKind("SUB", Discovered[k])])
<1>0. Selection!WithSubdomains(list) =
        IF Len(list) >= MaxTargets THEN list ELSE Selection!UpTo(Selection!AddTargets(list, more), MaxTargets)
  BY DEF Selection!WithSubdomains
<1>1. more \in Seq(Candidates)
  <2>1. DOMAIN Discovered = 1..Len(Discovered) /\ Len(Discovered) \in Nat /\ \A k \in DOMAIN Discovered : Discovered[k] \in Seq(HostIps)
    BY TargetConstants
  <2>2. "SUB" \in Selection!Kinds
    BY DEF Selection!Kinds
  <2>3. \A k \in DOMAIN Discovered : Selection!OfKind("SUB", Discovered[k]) \in Seq(Candidates)
    BY <2>1, <2>2, KindsAreCandidates
  <2>4. [k \in DOMAIN Discovered |-> Selection!OfKind("SUB", Discovered[k])] \in Seq(Seq(Candidates))
    BY <2>1, <2>3
  <2> QED BY <2>4, FlattenTargets
<1> HIDE DEF more
<1> QED BY <1>0, <1>1, TargetsAdded, CutIsNumbered, TargetConstants

LEMMA SelectionSelects ==
  ASSUME SelectionInv, NEW ipv6, Selection!Select(ipv6) PROVE SelectionInv'
<1> DEFINE all == IF auto THEN Selection!WithSubdomains(targets) ELSE targets
           cut == Selection!UpTo(all, MaxTargets)
           kept == Selection!FilterUnroutable(cut, ipv6)
<1>0. Selection!TypeOK /\ Selection!TargetsAreNumbered /\ Selection!DelegationIsBounded
  BY DEF SelectionInv
<1>1. /\ UNCHANGED <<expand, auto, records, hosts, level, asked, first>>
      /\ targets' = kept /\ selection' = IF kept = <<>> THEN "error" ELSE "announced"
  BY DEF Selection!Select
<1>2. Numbered(targets)
  BY <1>0 DEF Numbered, Selection!TypeOK, Selection!TargetsAreNumbered
<1>3. Numbered(all)
  BY <1>2, SubdomainsAreNumbered
<1> HIDE DEF all
<1>4. Numbered(cut) /\ Len(cut) <= MaxTargets
  BY <1>3, CutIsNumbered, TargetConstants
<1> HIDE DEF cut
<1>5. Numbered(kept) /\ Len(kept) <= Len(cut)
  BY <1>4, FilterIsNumbered
<1> HIDE DEF kept
<1>6. kept # <<>> => Len(kept) \in 1..MaxTargets
  <2>1. cut \in Seq(Selection!Targets) /\ kept \in Seq(Selection!Targets)
    BY <1>4, <1>5 DEF Numbered
  <2> QED BY <1>4, <1>5, <2>1, EmptySeq, TargetConstants
<1>7. Selection!TypeOK'
  BY <1>0, <1>1, <1>5 DEF Selection!TypeOK, Numbered
<1>8. Selection!TargetsAreNumbered'
  BY <1>1, <1>5, <1>6 DEF Selection!TargetsAreNumbered, Numbered
<1>9. Selection!DelegationIsBounded'
  BY <1>0, <1>1 DEF Selection!DelegationIsBounded
<1> QED BY <1>1, <1>7, <1>8, <1>9 DEF SelectionInv

LEMMA SelectionStep == SelectionInv /\ [Selection!Next]_Selection!vars => SelectionInv'
<1> SUFFICES ASSUME SelectionInv, [Selection!Next]_Selection!vars PROVE SelectionInv'
  OBVIOUS
<1>1. ASSUME UNCHANGED Selection!vars PROVE SelectionInv'
  BY <1>1 DEF Selection!vars, SelectionInv, Selection!TypeOK, Selection!TargetsAreNumbered, Selection!DelegationIsBounded
<1>2. ASSUME Selection!Next PROVE SelectionInv'
  BY <1>2, SelectionLooksUp, SelectionExpands, SelectionResolves, SelectionSelects DEF Selection!Next
<1> QED BY <1>1, <1>2

LEMMA TargetsPromise == ASSUME NamesInv, SelectionInv PROVE TargetsAreHonest
<1>1. Discovery!IInv /\ Selection!IInv
  BY NameParts, SelectionParts
<1> QED BY <1>1 DEF TargetsAreHonest, Discovery!IInv, Selection!IInv

\* What a scan lists and traces, for any zone, any names and any order of the
\* reports (subdomains.go, collector; dnscheck.go, Expand and AllTargets; app.go,
\* appendSubdomainTargets and filterUnroutable): a listed name has the best of its
\* sources, nothing is there because of the wildcard alone and the reverse lookups
\* start from every address known; the numbers of the targets are their positions,
\* no address is traced twice, and delegations are followed once each.
THEOREM ScanTargetsStayHonest == Discovery!Spec /\ Selection!Spec => []TargetsAreHonest
<1>1. Discovery!Spec => []NamesInv
  BY NamesInit, NamesStep, PTL DEF Discovery!Spec
<1>2. Selection!Spec => []SelectionInv
  BY SelectionInit, SelectionStep, PTL DEF Selection!Spec
<1> QED BY <1>1, <1>2, TargetsPromise, PTL
=============================================================================
