------------------------------ MODULE PortPool ------------------------------
(***************************************************************************)
(* The worker pool of src/internal/portscan/pool.go: a fixed set of        *)
(* workers takes probes from an unbuffered channel, several calls of Scan  *)
(* share it, and contexts may be cancelled and the pool closed at any      *)
(* moment.                                                                 *)
(***************************************************************************)
EXTENDS Integers, FiniteSets, Sequences

CONSTANTS Workers, Scans,
          Ports,          \* the ports of a scan's plan, without duplicates
          Every,          \* progressEvery
          NoJob

ASSUME PoolAssumption ==
  /\ IsFiniteSet(Workers) /\ IsFiniteSet(Ports)
  /\ Ports # {}                   \* plan refuses a scan without ports
  /\ Every \in Nat \ {0}
  /\ NoJob \notin Scans \X Ports

Total == Cardinality(Ports)

VARIABLES
  closed,     \* the channel done is closed
  closer,     \* the caller of Close
  cancelled,  \* the scans whose context is cancelled
  call,       \* [Scans]: how far Scan has come
  offered,    \* [Scans]: the ports put into the select so far
  offer,      \* [Scans]: the port the submitter is blocked on, {} or {p}
  inflight,   \* [Scans]: the WaitGroup's counter
  job,        \* [Workers]: the probe at hand
  step,       \* [Workers]: how far job.run has come
  done,       \* [Scans]: the atomic counter
  reported,   \* [Scans]: the ports it has counted
  mark,       \* [Workers]: n, what the worker's AddInt64 returned
  progress    \* [Scans]: the done values OnProgress was called with, in order

submitter == <<call, offered, offer>>
worker == <<job, step, mark>>
tally == <<done, reported, progress>>
vars == <<closed, closer, cancelled, submitter, inflight, worker, tally>>

Init ==
  /\ closed = FALSE /\ closer = "no"
  /\ cancelled = {}
  /\ call = [s \in Scans |-> "idle"]
  /\ offered = [s \in Scans |-> {}]
  /\ offer = [s \in Scans |-> {}]
  /\ inflight = [s \in Scans |-> 0]
  /\ job = [w \in Workers |-> NoJob]
  /\ step = [w \in Workers |-> "idle"]
  /\ mark = [w \in Workers |-> 0]
  /\ done = [s \in Scans |-> 0]
  /\ reported = [s \in Scans |-> {}]
  /\ progress = [s \in Scans |-> <<>>]

Goto(s, to) == call' = [call EXCEPT ![s] = to]

-----------------------------------------------------------------------------
(* Pool.Scan: a look at done, then plan, which resolves the host and takes *)
(* its time, then run.                                                     *)

Enter(s) ==
  /\ call[s] = "idle"
  /\ Goto(s, IF closed THEN "error" ELSE "planning")
  /\ UNCHANGED <<closed, closer, cancelled, offered, offer, inflight, worker, tally>>

Plan(s) ==
  /\ call[s] = "planning"
  /\ Goto(s, "submitting")
  /\ UNCHANGED <<closed, closer, cancelled, offered, offer, inflight, worker, tally>>

PlanFails(s) ==
  /\ call[s] = "planning"
  /\ Goto(s, "error")
  /\ UNCHANGED <<closed, closer, cancelled, offered, offer, inflight, worker, tally>>

\* The next port of the shuffled plan: inflight.Add(1), then the select.
Offer(s) ==
  /\ call[s] = "submitting" /\ offer[s] = {}
  /\ \E p \in Ports \ offered[s] :
       /\ offer' = [offer EXCEPT ![s] = {p}]
       /\ offered' = [offered EXCEPT ![s] = @ \cup {p}]
  /\ inflight' = [inflight EXCEPT ![s] = @ + 1]
  /\ UNCHANGED <<closed, closer, cancelled, call, worker, tally>>

\* p.jobs <- job: the channel is unbuffered, a worker in its select takes it.
\* Go picks any ready case, so a closed pool may still take a job.
Handoff(s, w) ==
  /\ offer[s] # {}
  /\ step[w] = "idle"
  /\ \E p \in offer[s] : job' = [job EXCEPT ![w] = <<s, p>>]
  /\ step' = [step EXCEPT ![w] = "taken"]
  /\ offer' = [offer EXCEPT ![s] = {}]
  /\ UNCHANGED <<closed, closer, cancelled, call, offered, inflight, mark, tally>>

\* The cases <-p.done and <-ctx.Done() of the select.
GiveUp(s) ==
  /\ offer[s] # {}
  /\ closed \/ s \in cancelled
  /\ offer' = [offer EXCEPT ![s] = {}]
  /\ inflight' = [inflight EXCEPT ![s] = @ - 1]
  /\ Goto(s, "waiting")
  /\ UNCHANGED <<closed, closer, cancelled, offered, worker, tally>>

AllSubmitted(s) ==
  /\ call[s] = "submitting" /\ offer[s] = {} /\ offered[s] = Ports
  /\ Goto(s, "waiting")
  /\ UNCHANGED <<closed, closer, cancelled, offered, offer, inflight, worker, tally>>

\* Faulty variant: no inflight.Wait.
ReturnUnwaited(s) ==
  /\ call[s] = "waiting"
  /\ Goto(s, IF s \in cancelled THEN "error" ELSE "ok")
  /\ UNCHANGED <<closed, closer, cancelled, offered, offer, inflight, worker, tally>>

\* Faulty variant: the results gathered are returned without the context's error.
ReturnNoError(s) ==
  /\ call[s] = "waiting"
  /\ inflight[s] = 0
  /\ Goto(s, "ok")
  /\ UNCHANGED <<closed, closer, cancelled, offered, offer, inflight, worker, tally>>

\* inflight.Wait, sort, and the context's error if it has one.
Return(s) ==
  /\ call[s] = "waiting"
  /\ inflight[s] = 0
  /\ Goto(s, IF s \in cancelled THEN "error" ELSE "ok")
  /\ UNCHANGED <<closed, closer, cancelled, offered, offer, inflight, worker, tally>>

-----------------------------------------------------------------------------
(* Pool.worker and probeJob.run.                                           *)

\* finish: the WaitGroup's Done, then back to the worker's select.
Finish(w) ==
  /\ inflight' = [inflight EXCEPT ![job[w][1]] = @ - 1]
  /\ job' = [job EXCEPT ![w] = NoJob]
  /\ step' = [step EXCEPT ![w] = "idle"]
  /\ mark' = [mark EXCEPT ![w] = 0]

\* The context has ended, before or during the jitter.
Skip(w) ==
  /\ step[w] = "taken"
  /\ job[w][1] \in cancelled
  /\ Finish(w)
  /\ UNCHANGED <<closed, closer, cancelled, submitter, tally>>

\* scanPort; report appends an open port to the results and calls OnOpen.
Probe(w) ==
  /\ step[w] = "taken"
  /\ step' = [step EXCEPT ![w] = "probed"]
  /\ UNCHANGED <<closed, closer, cancelled, submitter, inflight, job, mark, tally>>

\* n := atomic.AddInt64(&done, 1)
Count(w) ==
  /\ step[w] = "probed"
  /\ done' = [done EXCEPT ![job[w][1]] = @ + 1]
  /\ reported' = [reported EXCEPT ![job[w][1]] = @ \cup {job[w][2]}]
  /\ mark' = [mark EXCEPT ![w] = done[job[w][1]] + 1]
  /\ step' = [step EXCEPT ![w] = "counted"]
  /\ UNCHANGED <<closed, closer, cancelled, submitter, inflight, job, progress>>

\* OnProgress, every progressEvery probes and at the last one; then finish.
Announce(w) ==
  /\ step[w] = "counted"
  /\ LET s == job[w][1]
         n == mark[w]
     IN progress' = IF n % Every = 0 \/ n = Total
                    THEN [progress EXCEPT ![s] = Append(@, n)] ELSE progress
  /\ Finish(w)
  /\ UNCHANGED <<closed, closer, cancelled, submitter, done, reported>>

Exit(w) ==
  /\ step[w] = "idle" /\ closed
  /\ step' = [step EXCEPT ![w] = "exited"]
  /\ UNCHANGED <<closed, closer, cancelled, submitter, inflight, job, mark, tally>>

-----------------------------------------------------------------------------
(* The environment: the operation is cancelled; Close is called and waits. *)

\* A context that ends after the call has returned concerns nobody.
CancelScan(s) ==
  /\ s \notin cancelled
  /\ call[s] \notin {"ok", "error"}
  /\ cancelled' = cancelled \cup {s}
  /\ UNCHANGED <<closed, closer, submitter, inflight, worker, tally>>

\* Nothing stops a caller from closing the pool under a Scan.
CloseBegin ==
  /\ closer = "no"
  /\ closed' = TRUE
  /\ closer' = "waiting"
  /\ UNCHANGED <<cancelled, submitter, inflight, worker, tally>>

CloseEnd ==
  /\ closer = "waiting"
  /\ \A w \in Workers : step[w] = "exited"
  /\ closer' = "closed"
  /\ UNCHANGED <<closed, cancelled, submitter, inflight, worker, tally>>

ScanStep(s) ==
  \/ Plan(s) \/ PlanFails(s) \/ Offer(s) \/ GiveUp(s) \/ AllSubmitted(s) \/ Return(s)
  \/ \E w \in Workers : Handoff(s, w)

WorkerStep(w) ==
  Skip(w) \/ Probe(w) \/ Count(w) \/ Announce(w) \/ Exit(w)

Next == \/ CloseBegin \/ CloseEnd
        \/ \E s \in Scans : Enter(s) \/ ScanStep(s) \/ CancelScan(s)
        \/ \E w \in Workers : WorkerStep(w)

Spec == Init /\ [][Next]_vars

\* Goroutines run; a probe ends by its timeout.  Nobody must call, cancel or
\* close anything.
Fairness ==
  WF_vars(CloseEnd \/ (\E s \in Scans : ScanStep(s)) \/ \E w \in Workers : WorkerStep(w))

FairSpec == Spec /\ Fairness

-----------------------------------------------------------------------------
Jobs == Scans \X Ports

TypeOK ==
  /\ closed \in BOOLEAN /\ closer \in {"no", "waiting", "closed"}
  /\ cancelled \subseteq Scans
  /\ call \in [Scans -> {"idle", "planning", "submitting", "waiting",
                         "ok", "error"}]
  /\ offered \in [Scans -> SUBSET Ports]
  /\ offer \in [Scans -> SUBSET Ports]
  /\ inflight \in [Scans -> Nat]
  /\ job \in [Workers -> Jobs \cup {NoJob}]
  /\ step \in [Workers -> {"idle", "taken", "probed", "counted", "exited"}]
  /\ done \in [Scans -> Nat]
  /\ reported \in [Scans -> SUBSET Ports]
  /\ mark \in [Workers -> Nat]
  /\ progress \in [Scans -> Seq(Nat)]

Outcome(s) == IF call[s] \in {"idle", "ok", "error"} THEN call[s] ELSE "active"
Ended(s) == call[s] \in {"ok", "error"}

Holders(s) == {w \in Workers : job[w] # NoJob /\ job[w][1] = s}

\* A call that has returned leaves no worker behind that could still call its
\* observer or append to the results being sorted (Pool.run, inflight.Wait).
NothingAfterReturn == \A s \in Scans : Outcome(s) # "active" => Holders(s) = {}

\* The WaitGroup counts exactly the probes offered or in a worker's hands.
InflightExact ==
  \A s \in Scans : inflight[s] = Cardinality(Holders(s)) + Cardinality(offer[s])

\* The inductive invariant behind NothingAfterReturn.
StepMatchesJob ==
  \A w \in Workers : job[w] # NoJob <=> step[w] \in {"taken", "probed", "counted"}
OfferPending ==
  \A s \in Scans : offer[s] = {} \/ /\ call[s] = "submitting"
                                    /\ \E p \in Ports : offer[s] = {p}
QuietOutside ==
  \A s \in Scans : call[s] \in {"idle", "planning", "ok", "error"} => inflight[s] = 0
IInv == TypeOK /\ StepMatchesJob /\ OfferPending /\ QuietOutside /\ InflightExact

\* The way of a port through a scan, once each: put into the select, in the
\* hands of one worker, counted as reported.
NothingEarly ==
  \A s \in Scans :
    call[s] \in {"idle", "planning"} => offered[s] = {} /\ reported[s] = {}
OffersFresh ==
  \A s \in Scans : /\ offer[s] \cup reported[s] \subseteq offered[s]
                   /\ offer[s] \cap reported[s] = {}
OneWorkerEach ==
  \A v, w \in Workers : job[v] # NoJob /\ job[v] = job[w] => v = w
JobsWellFormed ==
  \A w \in Workers, s \in Scans, p \in Ports :
    job[w] = <<s, p>> => /\ p \in offered[s] /\ p \notin offer[s]
                         /\ p \in reported[s] <=> step[w] = "counted"
CutShort(s) == closed \/ s \in cancelled
NoneLost ==
  \A s \in Scans : CutShort(s) \/ \A p \in offered[s] :
    p \in offer[s] \cup reported[s] \/ \E w \in Workers : job[w] = <<s, p>>
AllOffered ==
  \A s \in Scans : call[s] = "waiting" => offered[s] = Ports \/ CutShort(s)
Accounting == /\ NothingEarly /\ OffersFresh /\ OneWorkerEach /\ JobsWellFormed
              /\ NoneLost /\ AllOffered

\* The values that AddInt64 returns, on their way to the observer.
DoneCounts == \A s \in Scans : done[s] = Cardinality(reported[s])
Marked(s) == {w \in Holders(s) : step[w] = "counted"}
Announced(s) == {progress[s][i] : i \in DOMAIN progress[s]}
MarksApart ==
  \A s \in Scans : \A v, w \in Marked(s) : mark[v] = mark[w] => v = w
MarksFresh ==
  \A s \in Scans : \A w \in Marked(s) : mark[w] <= done[s] /\ mark[w] \notin Announced(s)
AnnouncedOnce ==
  \A s \in Scans : /\ \A n \in Announced(s) : n <= done[s]
                   /\ \A i, j \in DOMAIN progress[s] : progress[s][i] = progress[s][j] => i = j
TotalComing ==
  \A s \in Scans : done[s] = Total =>
    Total \in Announced(s) \/ \E w \in Marked(s) : mark[w] = Total
TallyInv == DoneCounts /\ MarksApart /\ MarksFresh /\ AnnouncedOnce /\ TotalComing

\* A scan that has probed all its ports has announced the total, and announced
\* it once, whatever workers overtook each other between AddInt64 and
\* OnProgress.
TotalAnnouncedOnce ==
  \A s \in Scans :
    Ended(s) /\ done[s] = Total =>
      Cardinality({i \in DOMAIN progress[s] : progress[s][i] = Total}) = 1

\* Every call of Scan comes back, also when it is blocked on busy workers while
\* the pool is closed and the workers have left (the select of Pool.run).
ScansReturn == <>[](\A s \in Scans : call[s] = "idle" \/ Ended(s))

\* Close waits for the workers and comes back.
CloseReturns == <>[](closer # "waiting")

\* Pool.Scan keeps the contract of ScanContract: no port reported twice or after
\* the return, and none missing from a result returned without an error unless
\* Close was called under the scan.
Contract == INSTANCE ScanContract WITH outcome <- [s \in Scans |-> Outcome(s)]
ContractSpec == Contract!Spec
=============================================================================
