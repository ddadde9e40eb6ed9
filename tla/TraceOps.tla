------------------------------ MODULE TraceOps ------------------------------
(***************************************************************************)
(* Trace operations from the click to the idle status bar: the GUI thread  *)
(* (src/ui_app.go, ui_scan.go), the operation goroutine it spawns, the     *)
(* traces a scan fans out to and the geolocation goroutines they leave     *)
(* behind (src/app.go), the canceler they share (module Canceler) and the  *)
(* FIFO of closures through which every event reaches the GUI thread.      *)
(*                                                                         *)
(* The four kinds are Trace, Scan, TraceTargets ("subs") and TraceBlock.   *)
(* Item 0 of a trace is its header line (the resolved target), item i the  *)
(* i-th hop.  Events that only print, fill a table or move a progress bar  *)
(* are left out; which hop carries which location is kept.                 *)
(***************************************************************************)
EXTENDS Integers, FiniteSets, Sequences

CONSTANTS Runs, NoRun,    \* as in Canceler: one run per started operation
          Kinds,          \* the kinds of operation the user may start
          Targets,        \* the target ids of a scan, 1..n
          Limit,          \* scanConcurrency
          Items,          \* bound: what one traceroute prints, 0 for the header
          QueueCap        \* bound: closures waiting for the GUI thread

ASSUME ScanAssumption == /\ NoRun \notin Runs
                         /\ IsFiniteSet(Targets) /\ Targets = 1..Cardinality(Targets)
                         /\ Limit \in Nat \ {0}
                         /\ Items \subseteq Nat
                         /\ QueueCap \in Nat \ {0}
                         /\ Kinds \subseteq {"trace", "scan", "subs", "block"}

TargetIds == {0} \cup Targets    \* 0 is the single-trace view

VARIABLES
  gen, fn, myGen, ctx, pc,       \* App.ops, see Canceler
  kind, stage, failed,           \* per run: what it is, how far, its error
  trace,                         \* [run][target]: the traceroute
  look,                          \* [run][target][item]: the geo goroutine
  queue,                         \* closures posted to the GUI thread
  busy,                          \* u.opLabel # ""
  cancelOn,                      \* u.cancelB is enabled
  haveSubs,                      \* u.subs # nil
  shown, settled, hops,          \* u.traces: entries, Done or Error, Hops
  latest, since, abandoned     \* history: see History variables below

ops     == <<gen, fn, myGen, ctx, pc>>
backend == <<kind, stage, failed, trace, look>>
view    == <<haveSubs, shown, settled, hops>>
gui     == <<busy, cancelOn, view>>
history == <<latest, since, abandoned>>
vars    == <<ops, backend, queue, gui, history>>

Ops == INSTANCE Canceler

(* History variables.  latest is the operation the user started last,      *)
(* since what the user clicked after that, abandoned holds the runs that   *)
(* the user's stop reached or that a newer run evicted.                    *)

Init ==
  /\ Ops!CancelerInit
  /\ kind = [r \in Runs |-> "none"]
  /\ stage = [r \in Runs |-> "new"]
  /\ failed = [r \in Runs |-> FALSE]
  /\ trace = [r \in Runs |-> [t \in TargetIds |-> "none"]]
  /\ look = [r \in Runs |-> [t \in TargetIds |-> [i \in Items |-> "none"]]]
  /\ queue = <<>>
  /\ busy = FALSE /\ cancelOn = FALSE
  /\ haveSubs = FALSE
  /\ shown = {} /\ settled = {} /\ hops = [t \in TargetIds |-> <<>>]
  /\ latest = NoRun /\ since = "nothing" /\ abandoned = {}

Event(name, r, t, i) == [ev |-> name, run |-> r, target |-> t, item |-> i]
Post(e) == Len(queue) < QueueCap /\ queue' = Append(queue, e)

Single(r) == kind[r] = "trace"
RunTargets(r) == IF Single(r) THEN {0} ELSE Targets
Running(r) == {t \in TargetIds : trace[r][t] = "running"}

-----------------------------------------------------------------------------
(* GUI thread: the user's clicks.                                          *)

StartOp == busy' = TRUE /\ cancelOn' = TRUE
FinishOp == busy' = FALSE /\ cancelOn' = FALSE
ClearTraces == shown' = {} /\ settled' = {} /\ hops' = [t \in TargetIds |-> <<>>]

\* startTrace, traceHost, the scan dialog's Start, traceSelectedSubs.  Nothing
\* disables them while another operation runs.
Start(r, k) ==
  /\ stage[r] = "new"
  /\ k = "subs" => haveSubs
  /\ ClearTraces
  /\ haveSubs' = (haveSubs /\ k = "subs")      \* resetForOperation drops u.subs
  /\ StartOp
  /\ kind' = [kind EXCEPT ![r] = k]
  /\ stage' = [stage EXCEPT ![r] = "launched"]
  /\ latest' = r
  /\ since' = "nothing"
  /\ UNCHANGED <<ops, failed, trace, look, queue, abandoned>>

\* Faulty variant: stop forgets the cancel function it has called.
StopOpsForgets ==
  IF fn = NoRun THEN UNCHANGED <<ops, abandoned>>
  ELSE /\ ctx' = Ops!CtxAfterCancel(fn)
       /\ fn' = NoRun
       /\ abandoned' = abandoned \cup {fn}
       /\ UNCHANGED <<gen, myGen, pc>>

\* App.Cancel: canceler.stop, a no-op on a nil handle.
StopOps ==
  IF fn = NoRun THEN UNCHANGED <<ops, abandoned>>
  ELSE Ops!Stop /\ abandoned' = abandoned \cup {fn}

Cancel ==
  /\ cancelOn
  /\ StopOps
  /\ FinishOp
  /\ since' = "cancel"
  /\ UNCHANGED <<backend, queue, view, latest>>

Clean ==
  /\ StopOps
  /\ FinishOp
  /\ ClearTraces
  /\ haveSubs' = FALSE
  /\ since' = "clean"
  /\ UNCHANGED <<backend, queue, latest>>

-----------------------------------------------------------------------------
(* The operation goroutine: App.Trace, Scan, TraceTargets, TraceBlock.     *)

BeginOp(r) ==
  /\ stage[r] = "launched"
  /\ Ops!Begin(r)
  /\ abandoned' = abandoned \cup ({fn} \ {NoRun})
  /\ stage' = [stage EXCEPT ![r] = IF Single(r) THEN "tracing" ELSE "preparing"]
  /\ trace' = IF Single(r) THEN [trace EXCEPT ![r][0] = "running"] ELSE trace
  /\ UNCHANGED <<kind, failed, look, queue, gui, latest, since>>

Return(r, err) ==
  /\ stage' = [stage EXCEPT ![r] = "returning"]
  /\ failed' = [failed EXCEPT ![r] = err]

\* Scan: DNS discovery and crawl have finished and EventSubdomains is emitted.
Discover(r) ==
  /\ stage[r] = "preparing" /\ kind[r] = "scan"
  /\ stage' = [stage EXCEPT ![r] = "discovered"]
  /\ Post(Event("subdomains", r, 0, 0))
  /\ UNCHANGED <<ops, kind, failed, trace, look, gui, history>>

\* No target to trace, or a bad wordlist, CIDR block or port list.
PrepareFails(r) ==
  /\ stage[r] \in {"preparing", "discovered"}
  /\ Return(r, TRUE)
  /\ Post(Event("error", r, 0, 0))
  /\ UNCHANGED <<ops, kind, trace, look, gui, history>>

\* TraceBlock, cancelled while it looked for live hosts.
PrepareCancelled(r) ==
  /\ stage[r] = "preparing" /\ kind[r] = "block"
  /\ ctx[r] = "cancelled"
  /\ Return(r, TRUE)
  /\ Post(Event("scanDone", r, 0, 0))
  /\ UNCHANGED <<ops, kind, trace, look, gui, history>>

\* The targets are known: traceScan starts.  Only TraceBlock asks its context.
PrepareDone(r) ==
  /\ stage[r] \in {"preparing", "discovered"}
  /\ kind[r] = "block" => ctx[r] = "live"
  /\ stage' = [stage EXCEPT ![r] = "tracing"]
  /\ UNCHANGED <<ops, kind, failed, trace, look, queue, gui, history>>

\* Faulty variant: no semaphore.
LaunchUnbounded(r, t) ==
  /\ stage[r] = "tracing" /\ t \in RunTargets(r)
  /\ trace[r][t] = "none"
  /\ \A s \in RunTargets(r) : s < t => trace[r][s] # "none"
  /\ trace' = [trace EXCEPT ![r][t] = "running"]
  /\ UNCHANGED <<ops, kind, stage, failed, look, queue, gui, history>>

\* Faulty variant: a finished trace keeps its slot.
LaunchLeaksSlot(r, t) ==
  /\ stage[r] = "tracing" /\ t \in RunTargets(r)
  /\ trace[r][t] = "none"
  /\ \A s \in RunTargets(r) : s < t => trace[r][s] # "none"
  /\ Cardinality({s \in TargetIds : trace[r][s] # "none"}) < Limit
  /\ trace' = [trace EXCEPT ![r][t] = "running"]
  /\ UNCHANGED <<ops, kind, stage, failed, look, queue, gui, history>>

\* traceScan launches the targets in order; it waits for a slot, not for ctx.
Launch(r, t) ==
  /\ stage[r] = "tracing" /\ t \in RunTargets(r)
  /\ trace[r][t] = "none"
  /\ \A s \in RunTargets(r) : s < t => trace[r][s] # "none"
  /\ Cardinality(Running(r)) < Limit
  /\ trace' = [trace EXCEPT ![r][t] = "running"]
  /\ UNCHANGED <<ops, kind, stage, failed, look, queue, gui, history>>

\* Faulty variant: the condition on the hop's answer is inverted.
EmitInverted(r, t, i, responded) ==
  /\ trace[r][t] = "running"
  /\ look[r][t][i] = "none"
  /\ \A j \in Items : j > i => look[r][t][j] = "none"
  /\ \A j \in Items : 0 < j /\ j < i => look[r][t][j] # "none"
  /\ i = 0 => responded
  /\ Post(Event(IF i = 0 THEN "target" ELSE IF responded THEN "hop" ELSE "silent", r, t, i))
  /\ look' = [look EXCEPT ![r][t][i] = IF responded THEN "silent" ELSE "lookup"]
  /\ UNCHANGED <<ops, kind, stage, failed, trace, gui, history>>

\* runTrace's observer.  A killed traceroute may still have printed a line, so
\* the context plays no part.  A hop that did not answer gets no location.
Emit(r, t, i, responded) ==
  /\ trace[r][t] = "running"
  /\ look[r][t][i] = "none"
  /\ \A j \in Items : j > i => look[r][t][j] = "none"
  /\ \A j \in Items : 0 < j /\ j < i => look[r][t][j] # "none"
  /\ i = 0 => responded
  /\ Post(Event(IF i = 0 THEN "target" ELSE IF responded THEN "hop" ELSE "silent", r, t, i))
  /\ look' = [look EXCEPT ![r][t][i] = IF responded THEN "lookup" ELSE "silent"]
  /\ UNCHANGED <<ops, kind, stage, failed, trace, gui, history>>

\* Faulty variant: a cancelled or finished trace reports nothing.
SettleUnreported(r, t, error) ==
  /\ trace[r][t] = "running"
  /\ trace' = [trace EXCEPT ![r][t] = "settled"]
  /\ IF error THEN Post(Event("error", r, t, 0)) ELSE UNCHANGED queue
  /\ IF Single(r) THEN Return(r, error) ELSE UNCHANGED <<stage, failed>>
  /\ UNCHANGED <<ops, kind, look, gui, history>>

\* runTrace ends.  Cancellation is reported as Done, so Error needs another
\* reason: a missing tool, a timeout or traceroute's own failure.
Settle(r, t, error) ==
  /\ trace[r][t] = "running"
  /\ trace' = [trace EXCEPT ![r][t] = "settled"]
  /\ Post(Event(IF error THEN "error" ELSE "done", r, t, 0))
  /\ IF Single(r) THEN Return(r, error) ELSE UNCHANGED <<stage, failed>>
  /\ UNCHANGED <<ops, kind, look, gui, history>>

\* Faulty variant: wg.Wait is forgotten.
ScanReturnsEarly(r) ==
  /\ stage[r] = "tracing" /\ ~Single(r)
  /\ \A t \in Targets : trace[r][t] # "none"
  /\ Return(r, FALSE)
  /\ Post(Event("scanDone", r, 0, 0))
  /\ UNCHANGED <<ops, kind, trace, look, gui, history>>

\* traceScan: wg.Wait, then EventScanDone, also when it was cancelled.
ScanReturns(r) ==
  /\ stage[r] = "tracing" /\ ~Single(r)
  /\ \A t \in Targets : trace[r][t] = "settled"
  /\ Return(r, FALSE)
  /\ Post(Event("scanDone", r, 0, 0))
  /\ UNCHANGED <<ops, kind, trace, look, gui, history>>

\* The deferred end: its cancel reaches the geo goroutines still in flight.
EndCancel(r) ==
  /\ stage[r] = "returning"
  /\ Ops!EndCancel(r)
  /\ UNCHANGED <<backend, queue, gui, history>>

EndClear(r) ==
  /\ stage[r] = "returning"
  /\ Ops!EndClear(r)
  /\ stage' = [stage EXCEPT ![r] = "ended"]
  /\ UNCHANGED <<kind, failed, trace, look, queue, gui, history>>

\* Back in the GUI's goroutine: afterOp, except that traceSelectedSubs posts
\* something only on an error.
AfterOp(r) ==
  /\ stage[r] = "ended"
  /\ stage' = [stage EXCEPT ![r] = "over"]
  /\ IF kind[r] = "subs" /\ ~failed[r] THEN UNCHANGED queue
     ELSE Post(Event("afterOp", r, 0, 0))
  /\ UNCHANGED <<ops, kind, failed, trace, look, gui, history>>

-----------------------------------------------------------------------------
(* The goroutines emitGeo and emitTargetGeo.                               *)

\* A private address, a cached one or a reply in time.
ResolveOK(r, t, i) ==
  /\ look[r][t][i] = "lookup"
  /\ look' = [look EXCEPT ![r][t][i] = "ready"]
  /\ UNCHANGED <<ops, kind, stage, failed, trace, queue, gui, history>>

\* resolveGeo: a failure is still reported, unless the context has ended.
ResolveFails(r, t, i) ==
  /\ look[r][t][i] = "lookup"
  /\ look' = [look EXCEPT ![r][t][i] =
                 IF ctx[r] = "live" THEN "ready" ELSE "dropped"]
  /\ UNCHANGED <<ops, kind, stage, failed, trace, queue, gui, history>>

EmitGeo(r, t, i) ==
  /\ look[r][t][i] = "ready"
  /\ look' = [look EXCEPT ![r][t][i] = "sent"]
  /\ Post(Event(IF i = 0 THEN "targetGeo" ELSE "geo", r, t, i))
  /\ UNCHANGED <<ops, kind, stage, failed, trace, gui, history>>

-----------------------------------------------------------------------------
(* GUI thread: uiApp.handle and the closures posted beside it.  Each names *)
(* the part of the view it changes.                                        *)

EnsureTrace(t) == shown' = shown \cup {t}

OnHop(e) ==
  /\ e.ev \in {"hop", "silent"}
  /\ EnsureTrace(e.target)
  /\ hops' = IF e.ev = "silent" THEN hops
             ELSE [hops EXCEPT ![e.target] =
                      Append(@, [hop |-> e.item, run |-> e.run, geo |-> NoRun])]
  /\ UNCHANGED <<busy, cancelOn, haveSubs, settled>>

\* The first row with the event's hop number gets the location.
OnGeo(e) ==
  /\ e.ev = "geo"
  /\ EnsureTrace(e.target)
  /\ LET row == hops[e.target]
         match == {n \in DOMAIN row : row[n].hop = e.item}
     IN hops' = IF match = {} THEN hops
                ELSE [hops EXCEPT ![e.target]
                        [CHOOSE n \in match : \A m \in match : n <= m].geo = e.run]
  /\ UNCHANGED <<busy, cancelOn, haveSubs, settled>>

OnTarget(e) ==
  /\ e.ev \in {"target", "targetGeo"}
  /\ EnsureTrace(e.target)
  /\ UNCHANGED <<busy, cancelOn, haveSubs, settled, hops>>

OnDone(e) ==
  /\ e.ev = "done"
  /\ EnsureTrace(e.target)
  /\ settled' = settled \cup {e.target}
  /\ cancelOn' = FALSE
  /\ UNCHANGED <<busy, haveSubs, hops>>

OnError(e) ==
  /\ e.ev = "error"
  /\ IF e.target = 0 THEN FinishOp /\ UNCHANGED <<shown, settled>>
     ELSE /\ EnsureTrace(e.target)
          /\ settled' = settled \cup {e.target}
          /\ UNCHANGED <<busy, cancelOn>>
  /\ UNCHANGED <<haveSubs, hops>>

OnFinished(e) ==
  /\ e.ev \in {"scanDone", "afterOp"}
  /\ FinishOp
  /\ UNCHANGED view

OnSubdomains(e) ==
  /\ e.ev = "subdomains"
  /\ haveSubs' = TRUE
  /\ UNCHANGED <<busy, cancelOn, shown, settled, hops>>

Handle ==
  /\ queue # <<>>
  /\ queue' = Tail(queue)
  /\ LET e == Head(queue)
     IN \/ OnHop(e) \/ OnGeo(e) \/ OnTarget(e) \/ OnDone(e)
        \/ OnError(e) \/ OnFinished(e) \/ OnSubdomains(e)
  /\ UNCHANGED <<ops, backend, history>>

-----------------------------------------------------------------------------
User == Cancel \/ Clean \/ \E r \in Runs, k \in Kinds : Start(r, k)

Operation(r) ==
  \/ BeginOp(r) \/ Discover(r)
  \/ PrepareFails(r) \/ PrepareCancelled(r) \/ PrepareDone(r)
  \/ ScanReturns(r) \/ EndCancel(r) \/ EndClear(r) \/ AfterOp(r)
  \/ \E t \in Targets : Launch(r, t)

Traceroute(r, t) ==
  \/ \E i \in Items, responded \in BOOLEAN : Emit(r, t, i, responded)
  \/ \E error \in BOOLEAN : Settle(r, t, error)

Geolocation(r, t, i) == ResolveOK(r, t, i) \/ ResolveFails(r, t, i) \/ EmitGeo(r, t, i)

Next == \/ User
        \/ Handle
        \/ \E r \in Runs :
             \/ Operation(r)
             \/ \E t \in TargetIds :
                  \/ Traceroute(r, t)
                  \/ \E i \in Items : Geolocation(r, t, i)

Spec == Init /\ [][Next]_vars

\* The Go scheduler runs every goroutine and Qt every posted closure.  A
\* traceroute ends by itself or at tracerouter's timeout.  The user owes nothing.
Fairness ==
  /\ WF_vars(Handle)
  /\ \A r \in Runs :
       /\ WF_vars(Operation(r))
       /\ \A t \in TargetIds :
            /\ WF_vars(Traceroute(r, t))
            /\ \A i \in Items : WF_vars(Geolocation(r, t, i))

FairSpec == Spec /\ Fairness

-----------------------------------------------------------------------------
ItemEvents == {"hop", "silent", "target", "geo", "targetGeo"}
Closures ==
  [ev : ItemEvents, run : Runs, target : TargetIds, item : Items]
    \cup [ev : {"done", "error", "scanDone", "afterOp", "subdomains"},
          run : Runs, target : TargetIds, item : {0}]
Rows == [hop : Items, run : Runs, geo : Runs \cup {NoRun}]

TypeOK ==
  /\ Ops!CancelerTypeOK
  /\ kind \in [Runs -> Kinds \cup {"none"}]
  /\ stage \in [Runs -> {"new", "launched", "preparing", "discovered",
                         "tracing", "returning", "ended", "over"}]
  /\ failed \in [Runs -> BOOLEAN]
  /\ trace \in [Runs -> [TargetIds -> {"none", "running", "settled"}]]
  /\ look \in [Runs -> [TargetIds -> [Items ->
        {"none", "silent", "lookup", "ready", "sent", "dropped"}]]]
  /\ queue \in Seq(Closures)
  /\ busy \in BOOLEAN /\ cancelOn \in BOOLEAN /\ haveSubs \in BOOLEAN
  /\ shown \subseteq TargetIds /\ settled \subseteq shown
  /\ hops \in [TargetIds -> Seq(Rows)]
  /\ latest \in Runs \cup {NoRun} /\ since \in {"nothing", "cancel", "clean"}
  /\ abandoned \subseteq Runs

Live(r) == ctx[r] = "live"
InView(r) == r = latest /\ since # "clean"

\* scanConcurrency and the canceler together: however often the user starts a
\* new scan over an old one, no more than Limit traces run on a usable context.
LiveTracesBounded ==
  /\ TypeOK
  /\ Cardinality({p \in Runs \X TargetIds : Live(p[1]) /\ p[2] \in Running(p[1])}) <= Limit

Handles(name) == queue # <<>> /\ Head(queue).ev = name /\ queue' = Tail(queue)

\* When the status bar says "scan complete", the sidebar shows every target of
\* that scan as done or failed (unless the user has cleaned the view).
CompleteMeansSettled ==
  [][ Handles("scanDone") =>
        LET r == Head(queue).run
        IN InView(r) /\ Running(r) \cup {t \in Targets : trace[r][t] = "settled"} # {}
             => Targets \subseteq settled' ]_vars

\* The rows of other runs that an event's hop number also fits.
Rivals(e) == {n \in DOMAIN hops[e.target] :
                hops[e.target][n].hop = e.item /\ hops[e.target][n].run # e.run}

\* emitGeo starts after the hop's own event was emitted, so onGeo writes each
\* location of the operation in view into the row of its own hop and run and
\* changes no other row, if no late row of another run has the same number (the
\* events do not name their run, and the first row with the number is taken).
LocationFindsRow ==
  [][ Handles("geo") /\ InView(Head(queue).run) /\ Rivals(Head(queue)) = {} =>
        LET e == Head(queue)
        IN \E n \in DOMAIN hops[e.target] :
             /\ hops[e.target][n].hop = e.item /\ hops[e.target][n].run = e.run
             /\ hops' = [hops EXCEPT ![e.target][n].geo = e.run] ]_vars

\* Whatever happens to it, a started operation comes to its end, and the status
\* bar with it: the elapsed timer never runs forever, also for the kind of
\* operation whose goroutine posts no closure of its own.
OperationsEnd ==
  /\ \A r \in Runs : stage[r] = "launched" ~> stage[r] = "over"
  /\ busy ~> ~busy

\* Every target of the scan in view is eventually marked done or failed in the
\* sidebar, also those that were still waiting for a slot when the user
\* pressed Cancel: no row of the sidebar stays pending for ever.
TargetsReported ==
  \A r \in Runs :
    stage[r] = "tracing" /\ ~Single(r) ~> Targets \subseteq settled \/ ~InView(r)

(* The inductive invariant behind these.                                   *)

\* A run that has not begun has posted nothing, and nothing is traced before the
\* targets are known.
NothingEarly ==
  \A r \in Runs :
    /\ stage[r] \in {"new", "launched", "preparing", "discovered"} =>
         \A t \in TargetIds : trace[r][t] = "none" /\ \A i \in Items : look[r][t][i] = "none"
    /\ stage[r] \in {"new", "launched"} => \A n \in DOMAIN queue : queue[n].run # r

SlotsBounded == \A r \in Runs : Cardinality(Running(r)) <= Limit

\* Nothing but a new operation brings the view back that the user has cleaned.
CleanStays == since = "clean" => ~cancelOn

\* What the first n closures of the queue will have done to the view.
SettledBy(n, t) ==
  t \in settled \/ \E m \in 1..n : queue[m].ev \in {"done", "error"} /\ queue[m].target = t
HasRow(r, t, i) == \E k \in DOMAIN hops[t] : hops[t][k].hop = i /\ hops[t][k].run = r
RowBy(n, r, t, i) == HasRow(r, t, i) \/ \E m \in 1..n : queue[m] = Event("hop", r, t, i)

SettledReported ==
  \A r \in Runs, t \in Targets :
    InView(r) /\ trace[r][t] = "settled" => SettledBy(Len(queue), t)

ScanDoneLast ==
  \A n \in DOMAIN queue : queue[n].ev = "scanDone" =>
    LET r == queue[n].run
    IN /\ stage[r] \in {"returning", "ended", "over"}
       /\ \/ \A t \in TargetIds : trace[r][t] = "none"
          \/ InView(r) => \A t \in Targets : SettledBy(n - 1, t)

LooksHaveRows ==
  \A r \in Runs, t \in TargetIds, i \in Items :
    InView(r) /\ i > 0 /\ look[r][t][i] \in {"lookup", "ready"} => RowBy(Len(queue), r, t, i)

LocationsFollow ==
  \A n \in DOMAIN queue :
    queue[n].ev = "geo" /\ InView(queue[n].run) =>
      RowBy(n - 1, queue[n].run, queue[n].target, queue[n].item)

IInv ==
  /\ TypeOK /\ NothingEarly /\ SlotsBounded /\ CleanStays
  /\ SettledReported /\ ScanDoneLast /\ LooksHaveRows /\ LocationsFollow

(* What a comment says, and the code does not do.                          *)

\* emitGeo: "A failed lookup is still emitted [...] so the UI can stop showing
\* the hop as pending".  Only a run the user gave up on may drop a location.
FailedLookupsEmitted ==
  \A r \in Runs, t \in TargetIds, i \in Items :
    look[r][t][i] = "dropped" => r \in abandoned
=============================================================================
