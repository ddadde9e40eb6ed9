----------------------------- MODULE MCScanners -----------------------------
(***************************************************************************)
(* The components of Scanners, checked in one run: a behaviour is a        *)
(* behaviour of the module that focus names, and the variables of the      *)
(* others keep their initial values.                                       *)
(***************************************************************************)
EXTENDS Scanners

VARIABLE focus

all == <<focus, vars, operationVars, namesVars, targetVars>>

-----------------------------------------------------------------------------
(* A wildcard zone with three names: one only behind the wildcard.         *)

MCForward == [n \in {"a", "b", "c"} |->
  CASE n = "a" -> {"1"} [] n = "b" -> {"2", "w"} [] OTHER -> {"w"}]
MCBackward == [ip \in {"1", "2", "3", "w"} |->
  CASE ip = "1" -> {"b"} [] ip = "3" -> {"c", "a"} [] OTHER -> {}]
MCBlock == [ip \in {"1", "2", "3", "w"} |->
  CASE ip \in {"1", "3"} -> "n1" [] ip = "2" -> "none" [] OTHER -> "n2"]
MCServices == <<[source |-> "spf", name |-> "b"], [source |-> "srv", name |-> "a"]>>

ScanRequest(brute, sweep) ==
  [brute |-> brute, services |-> brute, ptr |-> FALSE, sweep |-> sweep, crawl |-> TRUE]
MCNameRequests == {ScanRequest(TRUE, TRUE), ScanRequest(FALSE, FALSE)}

-----------------------------------------------------------------------------
(* Nameservers that delegate to each other, and more addresses than the    *)
(* limit.                                                                  *)

Rec(type, value) == [type |-> type, value |-> value]
MCZone == [h \in {"d", "n1", "n2", "m"} |->
  CASE h = "d" -> <<Rec("AAAA", "6"), Rec("A", "1"), Rec("MX", "m"), Rec("NS", "n1"), Rec("SOA", "n1")>>
    [] h = "n1" -> <<Rec("A", "2"), Rec("NS", "n2"), Rec("NS", "d"), Rec("A", "1")>>
    [] h = "n2" -> <<Rec("A", "3"), Rec("NS", "n1"), Rec("NS", "m")>>
    [] OTHER -> <<Rec("AAAA", "6")>>]
MCHostAddress == [h \in {"d", "n1", "n2", "m"} |->
  CASE h = "m" -> <<"6", "2">> [] h = "n1" -> <<"2">> [] h = "n2" -> <<"3">> [] OTHER -> <<"1", "6">>]
MCMailbox == [h \in {"d", "n1", "n2", "m"} |-> IF h = "n1" THEN "n2" ELSE h]
MCDiscovered == <<<<"6", "4", "1">>, <<"4", "5">>>>

-----------------------------------------------------------------------------
MCInit ==
  /\ focus \in {"pool", "operation", "names", "targets"}
  /\ Init /\ Discovery!Init
  /\ IF focus = "operation" THEN Operation!Init ELSE Operation!InitWith("block", FALSE, "ended")
  /\ IF focus = "targets" THEN Selection!Init ELSE Selection!InitWith(FALSE, FALSE)

MCNext ==
  \/ focus = "pool" /\ Next /\ UNCHANGED <<focus, operationVars, namesVars, targetVars>>
  \/ focus = "operation" /\ Operation!Next /\ UNCHANGED <<focus, vars, namesVars, targetVars>>
  \/ focus = "names" /\ Discovery!Next /\ UNCHANGED <<focus, vars, operationVars, targetVars>>
  \/ focus = "targets" /\ Selection!Next /\ UNCHANGED <<focus, vars, operationVars, namesVars>>

\* A pool without a call, an operation at its end and a scan that nobody starts
\* have nothing to be fair to.
MCSpec ==
  /\ MCInit /\ [][MCNext]_all
  /\ Fairness /\ Operation!Fairness /\ Discovery!Fairness

-----------------------------------------------------------------------------
\* Calls of Scan, a Close, and operations come back, and every scan comes to its
\* list of names, see PortPool, PortScan and Subdomains.
ScansEnd ==
  /\ ScansReturn /\ CloseReturns
  /\ focus = "operation" => Operation!ScanEnds
  /\ <>[]Discovery!ScanHasListed
=============================================================================
