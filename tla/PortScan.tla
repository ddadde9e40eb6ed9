------------------------------ MODULE PortScan ------------------------------
(***************************************************************************)
(* App.ScanPorts (src/app.go): the optional ping sweep, one goroutine per  *)
(* host behind a semaphore, and the event that ends the operation.  A host *)
(* scan is a call of Pool.Scan, seen here through ScanContract: it reports *)
(* while it is active and returns ok, failed or cancelled.                 *)
(***************************************************************************)
EXTENDS Integers, FiniteSets

CONSTANTS N,          \* the hosts are 1..N, in enumeration order
          HostLimit,  \* portScanHostConcurrency
          PingLimit,  \* portPingConcurrency
          Modes       \* the kinds of request: "targets" or "block"

Hosts == 1..N

VARIABLES
  mode,       \* the request: a list of targets or a CIDR block
  ping,       \* a pinger was asked for and could be opened
  cancelled,  \* the operation's context has ended
  phase,      \* how far ScanPorts has come
  pos,        \* the host an iteration is at, 0 before the first
  blocked,    \* the iteration is blocked in its select on the semaphore
  checked,    \* pingNetwork's index
  pinged,     \* [Hosts]: the sweep's verdict
  todo,       \* the hosts to scan
  host,       \* [Hosts]: how far the host's goroutine has come
  mark,       \* [Hosts]: n, what the goroutine's AddUint64 returned
  scanErr,    \* the first error that is not a cancellation was recorded
  completed,  \* the atomic count of completed hosts (block)
  open,       \* the atomic count of open ports
  opened,     \* portscan:open events emitted so far
  progress,   \* the host counts announced by portscan:progress (block)
  end         \* the terminal event, NoEnd before it is emitted

request == <<mode, ping>>
iteration == <<pos, blocked, checked, pinged, todo>>
gather == <<host, mark, scanErr, completed, open>>
events == <<opened, progress, end>>
vars == <<request, cancelled, phase, iteration, gather, events>>

NoEnd == [kind |-> "none", open |-> 0, targets |-> 0, skipped |-> 0]
DoneEvent(o, t, s) == [kind |-> "done", open |-> o, targets |-> t, skipped |-> s]
ErrorEvent == [kind |-> "error", open |-> 0, targets |-> 0, skipped |-> 0]

InitWith(m, p, at) ==
  /\ mode = m /\ ping = p
  /\ cancelled = FALSE
  /\ phase = at
  /\ pos = 0 /\ blocked = FALSE /\ checked = 0
  /\ pinged = [h \in Hosts |-> "no"]
  /\ todo = Hosts
  /\ host = [h \in Hosts |-> "waiting"]
  /\ mark = [h \in Hosts |-> 0]
  /\ scanErr = FALSE /\ completed = 0 /\ open = 0
  /\ opened = 0 /\ progress = {} /\ end = NoEnd

Init == \E m \in Modes, p \in BOOLEAN : InitWith(m, p, "idle")

-----------------------------------------------------------------------------
(* The start, and the ping sweep: pingTargets and pingNetwork.             *)

\* resolveScanPorts, ParseCIDR or normalizePortScanTargets refuses the request.
StartFails ==
  /\ phase = "idle"
  /\ phase' = "ended"
  /\ end' = ErrorEvent
  /\ UNCHANGED <<request, cancelled, iteration, gather, opened, progress>>

Start ==
  /\ phase = "idle"
  /\ phase' = IF ping THEN "pinging" ELSE "decided"
  /\ UNCHANGED <<request, cancelled, iteration, gather, events>>

Pending == {h \in Hosts : pinged[h] = "pending"}

\* The next host: the block's iteration looks at the context and counts the host
\* before it waits for a slot, the list's only waits.
PingNext ==
  /\ phase = "pinging" /\ ~blocked /\ pos < N
  /\ mode = "block" => ~cancelled
  /\ pos' = pos + 1 /\ blocked' = TRUE
  /\ checked' = IF mode = "block" THEN checked + 1 ELSE checked
  /\ UNCHANGED <<request, cancelled, phase, pinged, todo, gather, events>>

PingAcquire ==
  /\ phase = "pinging" /\ blocked
  /\ Cardinality(Pending) < PingLimit
  /\ pinged' = [pinged EXCEPT ![pos] = "pending"]
  /\ blocked' = FALSE
  /\ UNCHANGED <<request, cancelled, phase, pos, checked, todo, gather, events>>

\* The case <-ctx.Done() of the select, and the look at the context before it.
PingStop ==
  /\ phase = "pinging" /\ cancelled
  /\ blocked \/ (mode = "block" /\ pos < N)
  /\ phase' = "sweeping" /\ blocked' = FALSE
  /\ UNCHANGED <<request, cancelled, pos, checked, pinged, todo, gather, events>>

PingExhausted ==
  /\ phase = "pinging" /\ ~blocked /\ pos = N
  /\ phase' = "sweeping"
  /\ UNCHANGED <<request, cancelled, iteration, gather, events>>

\* hostAlive: an answer, a timeout, a socket that cannot tell, a cancelled ping.
PingReply(h) ==
  /\ pinged[h] = "pending"
  /\ pinged' = [pinged EXCEPT ![h] = "alive"]
  /\ UNCHANGED <<request, cancelled, phase, pos, blocked, checked, todo, gather, events>>

PingSilent(h) ==
  /\ pinged[h] = "pending"
  /\ pinged' = [pinged EXCEPT ![h] = IF cancelled THEN "unknown" ELSE "dead"]
  /\ UNCHANGED <<request, cancelled, phase, pos, blocked, checked, todo, gather, events>>

Alive == {h \in Hosts : pinged[h] = "alive"}
Skipped(kept) == IF ~ping THEN 0
                 ELSE (IF mode = "block" THEN checked ELSE N) - Cardinality(kept)

\* wg.Wait, and the hosts that answered; when none did, the operation is done.
SweepEnds ==
  /\ phase = "sweeping" /\ Pending = {}
  /\ todo' = Alive
  /\ IF Alive = {} THEN /\ phase' = "ended"
                        /\ end' = DoneEvent(0, 0, Skipped({}))
                   ELSE phase' = "decided" /\ UNCHANGED end
  /\ UNCHANGED <<request, cancelled, pos, blocked, checked, pinged, gather, opened, progress>>

\* The list's look at the context before the pool is made: no event.
ReturnCancelled ==
  /\ phase = "decided" /\ mode = "targets" /\ cancelled
  /\ phase' = "ended"
  /\ UNCHANGED <<request, cancelled, iteration, gather, events>>

BeginScan ==
  /\ phase = "decided"
  /\ mode = "targets" => ~cancelled
  /\ phase' = "scanning" /\ pos' = 0
  /\ UNCHANGED <<request, cancelled, blocked, checked, pinged, todo, gather, events>>

-----------------------------------------------------------------------------
(* The hosts: the loop of ScanPorts and scanHosts.                         *)

Running == {h \in Hosts : host[h] \in {"scanning", "found", "returned", "counted"}}
Left == {h \in todo : h > pos}

\* sem <- struct{}{}, wg.Add and the host's goroutine.
Launch(h) ==
  /\ phase = "scanning"
  /\ h \in Left /\ \A g \in Left : h <= g
  /\ Cardinality(Running) < HostLimit
  /\ pos' = h
  /\ host' = [host EXCEPT ![h] = "scanning"]
  /\ UNCHANGED <<request, cancelled, phase, blocked, checked, pinged, todo,
                 mark, scanErr, completed, open, events>>

\* The list waits for its slots whatever happens, the block watches the context.
LaunchesEnd ==
  /\ phase = "scanning"
  /\ Left = {} \/ (mode = "block" /\ cancelled)
  /\ phase' = "waiting"
  /\ UNCHANGED <<request, cancelled, iteration, gather, events>>

\* Observer.OnOpen: the counter, then the event.  One open port per host.
OnOpen(h) ==
  /\ host[h] = "scanning"
  /\ open' = open + 1 /\ opened' = opened + 1
  /\ host' = [host EXCEPT ![h] = "found"]
  /\ UNCHANGED <<request, cancelled, phase, iteration, mark, scanErr, completed,
                 progress, end>>

\* pool.Scan returns: without an error, or with one; errors.Is(Canceled) is not
\* recorded.
ScanReturns(h, outcome) ==
  /\ host[h] \in {"scanning", "found"}
  /\ outcome = "ok" => ~cancelled
  /\ outcome = "cancelled" => cancelled
  /\ outcome = "failed" => host[h] = "scanning"
  /\ scanErr' = (scanErr \/ outcome = "failed")
  /\ host' = [host EXCEPT ![h] = "returned"]
  /\ UNCHANGED <<request, cancelled, phase, iteration, mark, completed, open, events>>

\* n := atomic.AddUint64(&completed, 1), for a block.
CountHost(h) ==
  /\ host[h] = "returned" /\ mode = "block"
  /\ completed' = completed + 1
  /\ mark' = [mark EXCEPT ![h] = completed + 1]
  /\ host' = [host EXCEPT ![h] = "counted"]
  /\ UNCHANGED <<request, cancelled, phase, iteration, scanErr, open, events>>

\* Faulty variant: the slot is not released when the host's scan was cut short.
HostDoneLeaks(h) ==
  /\ host[h] = "counted" \/ (host[h] = "returned" /\ mode = "targets")
  /\ ~scanErr
  /\ host' = [host EXCEPT ![h] = "done"]
  /\ progress' = IF mode = "block" THEN progress \cup {mark[h]} ELSE progress
  /\ UNCHANGED <<request, cancelled, phase, iteration, mark, scanErr, completed, open,
                 opened, end>>

\* The progress event of a block's host, then the deferred release and Done.
HostDone(h) ==
  /\ host[h] = "counted" \/ (host[h] = "returned" /\ mode = "targets")
  /\ host' = [host EXCEPT ![h] = "done"]
  /\ progress' = IF mode = "block" THEN progress \cup {mark[h]} ELSE progress
  /\ UNCHANGED <<request, cancelled, phase, iteration, mark, scanErr, completed, open,
                 opened, end>>

\* Faulty variant: no wg.Wait before the completion event.
FinishUnwaited ==
  /\ phase = "waiting"
  /\ phase' = "ended"
  /\ end' = IF scanErr THEN ErrorEvent ELSE DoneEvent(open, Cardinality(todo), Skipped(todo))
  /\ UNCHANGED <<request, cancelled, iteration, gather, opened, progress>>

\* Faulty variant: a failed host is forgotten.
FinishForgetsError ==
  /\ phase = "waiting" /\ Running = {}
  /\ phase' = "ended"
  /\ end' = DoneEvent(open, Cardinality(todo), Skipped(todo))
  /\ UNCHANGED <<request, cancelled, iteration, gather, opened, progress>>

\* wg.Wait, then portscan:error or portscan:done.
Finish ==
  /\ phase = "waiting" /\ Running = {}
  /\ phase' = "ended"
  /\ end' = IF scanErr THEN ErrorEvent ELSE DoneEvent(open, Cardinality(todo), Skipped(todo))
  /\ UNCHANGED <<request, cancelled, iteration, gather, opened, progress>>

\* App.Cancel, or a newer port scan's begin.
Cancel ==
  /\ phase # "ended" /\ ~cancelled
  /\ cancelled' = TRUE
  /\ UNCHANGED <<request, phase, iteration, gather, events>>

Control == \/ Start \/ StartFails
           \/ PingNext \/ PingAcquire \/ PingStop \/ PingExhausted \/ SweepEnds
           \/ ReturnCancelled \/ BeginScan
           \/ LaunchesEnd \/ Finish
           \/ \E h \in Hosts : Launch(h)

HostStep(h) == \/ PingReply(h) \/ PingSilent(h)
               \/ CountHost(h) \/ HostDone(h)
               \/ \E outcome \in {"ok", "failed", "cancelled"} : ScanReturns(h, outcome)

Next == \/ Control \/ Cancel
        \/ \E h \in Hosts : HostStep(h) \/ OnOpen(h)

Spec == Init /\ [][Next]_vars

\* Goroutines run, a ping and a probe end by their timeouts.
Fairness == WF_vars(Control \/ \E h \in Hosts : HostStep(h))
FairSpec == Spec /\ Fairness

-----------------------------------------------------------------------------
TypeOK ==
  /\ mode \in Modes /\ ping \in BOOLEAN /\ cancelled \in BOOLEAN
  /\ phase \in {"idle", "pinging", "sweeping", "decided", "scanning", "waiting", "ended"}
  /\ pos \in 0..N /\ blocked \in BOOLEAN /\ checked \in 0..N
  /\ pinged \in [Hosts -> {"no", "pending", "alive", "dead", "unknown"}]
  /\ todo \subseteq Hosts
  /\ host \in [Hosts -> {"waiting", "scanning", "found", "returned", "counted", "done"}]
  /\ mark \in [Hosts -> 0..N]
  /\ scanErr \in BOOLEAN /\ completed \in 0..N /\ open \in 0..N
  /\ opened \in 0..N /\ progress \subseteq 0..N
  /\ end \in {NoEnd, ErrorEvent} \cup {DoneEvent(o, t, s) : o, t, s \in 0..N}

\* Nothing is emitted after the terminal event, not even a second one: the
\* dialog has closed its report by then (App.ScanPorts waits for every host).
QuietAfterEnd == [][end # NoEnd => UNCHANGED events]_vars

\* What portscan:done says is true of a scan that nobody cancelled: the open
\* ports it counts were all streamed, each host is either scanned or skipped,
\* no host scan failed.
DoneIsTrue ==
  end.kind = "done" =>
    /\ end.open = opened
    /\ ~cancelled => /\ end.targets + end.skipped = N
                     /\ ~scanErr
                     /\ \A h \in todo : host[h] = "done"

\* A block that was scanned to its end has announced every host count once.
ProgressReachesTotal ==
  end.kind = "done" /\ mode = "block" /\ ~cancelled => progress = 1..Cardinality(todo)

-----------------------------------------------------------------------------
(* The inductive invariant behind these.                                   *)

ScanAssumption == N \in Nat /\ Modes \subseteq {"targets", "block"}

\* A host has a goroutine once the loop has reached it, and the operation ends
\* after all of them.
HostsFollowPhase ==
  /\ phase \notin {"scanning", "waiting", "ended"} =>
       ~scanErr /\ \A h \in Hosts : host[h] = "waiting"
  /\ \A h \in Hosts \ todo : host[h] = "waiting"
  /\ phase = "scanning" => \A h \in todo : host[h] = "waiting" <=> h > pos
  /\ phase = "waiting" =>
       (mode = "block" /\ cancelled) \/ \A h \in todo : host[h] # "waiting"
  /\ phase = "ended" => Running = {}
  /\ end # NoEnd => phase = "ended"

\* The sweep has checked the hosts it has pinged, and all of them at its end.
SweepIsCounted ==
  /\ ~ping \/ phase \in {"idle", "pinging", "sweeping"} => todo = Hosts
  /\ phase \in {"pinging", "sweeping"} => ping
  /\ mode = "block" =>
       /\ phase \in {"idle", "pinging"} => checked = pos
       /\ \A h \in Hosts : pinged[h] # "no" => h <= checked
       /\ ping /\ phase \in {"decided", "scanning", "waiting"} => \A h \in todo : h <= checked
       /\ ping /\ ~cancelled /\ phase \in {"sweeping", "decided", "scanning", "waiting"} => checked = N

\* The hosts that may still report their open port.
MayOpen == {h \in Hosts : host[h] \in {"waiting", "scanning"}}
OpenIsCounted == open = opened /\ open + Cardinality(MayOpen) <= N

\* The counts that AddUint64 has returned are 1, 2 and so on without a gap, each
\* to one host, which announces it later.
Counted == {h \in Hosts : host[h] \in {"counted", "done"}}
MarksAreOneToN ==
  IF mode = "block"
  THEN /\ completed = Cardinality(Counted) /\ {mark[h] : h \in Counted} = 1..completed
       /\ progress = {mark[h] : h \in {g \in Hosts : host[g] = "done"}}
  ELSE completed = 0 /\ progress = {}

IInv == /\ TypeOK /\ HostsFollowPhase /\ SweepIsCounted /\ OpenIsCounted /\ MarksAreOneToN
        /\ DoneIsTrue /\ ProgressReachesTotal

-----------------------------------------------------------------------------
\* Whatever fails or is cancelled, the operation ends, and the dialog is told so
\* by portscan:done or portscan:error unless the user has cancelled it.
ScanEnds == <>[](phase = "ended" /\ (end # NoEnd \/ cancelled))
=============================================================================
