---------------------------- MODULE ScanContract ----------------------------
(***************************************************************************)
(* What a caller of Pool.Scan (src/internal/portscan) may rely on: ports   *)
(* are reported only while the call is active, each at most once; a call   *)
(* that returns without an error has reported every port, and one that     *)
(* returns an error was cancelled or has reported nothing.  Close must not *)
(* be called during a Scan: such a scan may come back incomplete.          *)
(***************************************************************************)
CONSTANTS Scans, Ports

VARIABLES outcome,      \* [Scans -> {"idle", "active", "ok", "error"}]
          reported,     \* [Scans -> SUBSET Ports]
          cancelled,    \* the calls whose context has ended
          closed        \* Close was called

vars == <<outcome, reported, cancelled, closed>>

Init == /\ outcome = [s \in Scans |-> "idle"]
        /\ reported = [s \in Scans |-> {}]
        /\ cancelled = {} /\ closed = FALSE

Call(s) == /\ outcome[s] = "idle"
           /\ outcome' = [outcome EXCEPT ![s] = "active"]
           /\ UNCHANGED <<reported, cancelled, closed>>

Report(s, p) == /\ outcome[s] = "active"
                /\ p \notin reported[s]
                /\ reported' = [reported EXCEPT ![s] = @ \cup {p}]
                /\ UNCHANGED <<outcome, cancelled, closed>>

CancelScan(s) == /\ cancelled' = cancelled \cup {s}
                 /\ UNCHANGED <<outcome, reported, closed>>

Complete(s) == /\ outcome[s] = "active"
               /\ reported[s] = Ports \/ closed
               /\ outcome' = [outcome EXCEPT ![s] = "ok"]
               /\ UNCHANGED <<reported, cancelled, closed>>

Fail(s) == /\ outcome[s] \in {"idle", "active"}
           /\ s \in cancelled \/ reported[s] = {}
           /\ outcome' = [outcome EXCEPT ![s] = "error"]
           /\ UNCHANGED <<reported, cancelled, closed>>

Close == closed' = TRUE /\ UNCHANGED <<outcome, reported, cancelled>>

Next == \/ Close
        \/ \E s \in Scans : \/ Call(s) \/ CancelScan(s) \/ Complete(s) \/ Fail(s)
                         \/ \E p \in Ports : Report(s, p)

Spec == Init /\ [][Next]_vars
=============================================================================
