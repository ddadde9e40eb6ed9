------------------------------ MODULE TraceRun ------------------------------
(***************************************************************************)
(* One traceroute: Runner.ExecuteStream and the hop parser of              *)
(* src/internal/tracerouter, the child process it reads from (external),   *)
(* and the rows that src/ui_model.go shows for the hops.                   *)
(*                                                                         *)
(* A line of output is a record: [kind, n, ip, rtts].  "header" names the  *)
(* target, "hop" is one of the three hop formats, "noise" is none of them. *)
(***************************************************************************)
EXTENDS Integers, SequencesExt

CONSTANTS Installed,  \* the tools on this machine, in order of preference
          Outputs     \* [tool -> the outputs it may print, sequences of lines]

VARIABLES
  main, ctx, tool,
  script,            \* what the child would print
  written, read,     \* how many lines it has printed, and ExecuteStream read
  exit,              \* the child: "running", "ok", "failed" or "killed"
  pending,           \* the parser's hop, NoHop if it has none
  target,            \* the address of the header, "" before
  hops,              \* the hops given to OnHop
  outcome

vars == <<main, ctx, tool, script, written, read, exit, pending, target, hops, outcome>>

NoHop == [n |-> 0, ip |-> "", rtts |-> <<>>]

Init ==
  /\ main = "new" /\ ctx = "live" /\ tool = "none" /\ script = <<>>
  /\ written = 0 /\ read = 0 /\ exit = "none"
  /\ pending = NoHop /\ target = "" /\ hops = <<>> /\ outcome = "none"

\* build fails: an invalid target, or no tool.
BuildFails ==
  /\ main = "new"
  /\ main' = "over" /\ outcome' = "error"
  /\ UNCHANGED <<ctx, tool, script, written, read, exit, pending, target, hops>>

\* The first tool that is installed, with its own flags; the child starts.
Start ==
  /\ main = "new" /\ Installed # <<>>
  /\ tool' = Head(Installed)
  /\ script' \in Outputs[tool']
  /\ main' = "scan" /\ exit' = "running"
  /\ UNCHANGED <<ctx, written, read, pending, target, hops, outcome>>

\* Faulty variant: the child is left alone.
CtxEndsGently(why) ==
  /\ main \in {"scan", "wait"} /\ ctx = "live"
  /\ ctx' = why
  /\ UNCHANGED <<main, tool, script, written, read, exit, pending, target, hops, outcome>>

\* Cancelled, or the budget of the trace is used up: exec kills the child.
CtxEnds(why) ==
  /\ main \in {"scan", "wait"} /\ ctx = "live"
  /\ ctx' = why
  /\ exit' = IF exit = "running" THEN "killed" ELSE exit
  /\ UNCHANGED <<main, tool, script, written, read, pending, target, hops, outcome>>

WriteLine ==
  /\ exit = "running" /\ written < Len(script)
  /\ written' = written + 1
  /\ UNCHANGED <<main, ctx, tool, script, read, exit, pending, target, hops, outcome>>

\* It may also fail half way; a child that hangs does neither.
Exit(how) ==
  /\ exit = "running" /\ how \in {"ok", "failed"}
  /\ how = "ok" => written = Len(script)
  /\ exit' = how
  /\ UNCHANGED <<main, ctx, tool, script, written, read, pending, target, hops, outcome>>

-----------------------------------------------------------------------------
(* The scanner loop.                                                       *)

Emit == hops' = IF pending = NoHop THEN hops ELSE Append(hops, pending)
Hop(line) == [n |-> line.n, ip |-> line.ip, rtts |-> line.rtts]

\* Faulty variant: the address of the first line stays, also when it is empty.
MergeTimes(h, line) == [h EXCEPT !.rtts = @ \o line.rtts]

\* One hop may come in several lines, the first one perhaps without address.
Merge(h, line) ==
  [h EXCEPT !.rtts = @ \o line.rtts, !.ip = IF @ = "" THEN line.ip ELSE @]

Feed(line) ==
  IF line.kind # "hop" THEN UNCHANGED <<pending, hops>>
  ELSE IF pending # NoHop /\ line.n = pending.n
    THEN pending' = Merge(pending, line) /\ UNCHANGED hops
    ELSE Emit /\ pending' = Hop(line)

\* The first header line is the target; every other line goes to the parser.
ReadLine ==
  /\ main = "scan" /\ read < written
  /\ read' = read + 1
  /\ LET line == script[read']
     IN IF line.kind = "header" /\ target = ""
          THEN target' = line.ip /\ UNCHANGED <<pending, hops>>
          ELSE Feed(line) /\ UNCHANGED target
  /\ UNCHANGED <<main, ctx, tool, script, written, exit, outcome>>

\* The pipe is closed; flush.
Eof ==
  /\ main = "scan" /\ read = written /\ exit # "running"
  /\ Emit /\ pending' = NoHop
  /\ main' = "wait"
  /\ UNCHANGED <<ctx, tool, script, written, read, exit, target, outcome>>

\* cmd.Wait: a failure under an ended context is the context's.
Wait ==
  /\ main = "wait"
  /\ main' = "over"
  /\ outcome' = IF exit = "ok" THEN "done" ELSE IF ctx # "live" THEN ctx ELSE "error"
  /\ UNCHANGED <<ctx, tool, script, written, read, exit, pending, target, hops>>

Scan == ReadLine \/ Eof \/ Wait
Deadline == CtxEnds("timeout")

Next ==
  \/ BuildFails \/ Start \/ CtxEnds("cancelled") \/ Deadline
  \/ WriteLine \/ (\E how \in {"ok", "failed"} : Exit(how)) \/ Scan

\* The timer fires; nothing is assumed of the child.
Fairness == WF_vars(Scan) /\ WF_vars(Deadline)

Spec == Init /\ [][Next]_vars /\ Fairness

-----------------------------------------------------------------------------
(* ui_model.go.                                                            *)

\* buildDisplayHops: the target is the last row, unless a hop has its address.
DisplayHops(list, ip) ==
  IF ip = "" \/ \E k \in DOMAIN list : list[k].ip = ip THEN list
  ELSE Append(list, [n |-> 1 + Max({0} \cup {list[k].n : k \in DOMAIN list}), ip |-> ip, rtts |-> <<>>])

\* correlate: one point for each address of a located row, with the located rows
\* it stands for.
Correlate(list, located) ==
  [ip \in {list[k].ip : k \in located} |-> {k \in located : list[k].ip = ip}]

-----------------------------------------------------------------------------
TypeOK ==
  /\ main \in {"new", "scan", "wait", "over"} /\ ctx \in {"live", "cancelled", "timeout"}
  /\ exit \in {"none", "running", "ok", "failed", "killed"}
  /\ read \in 0..written /\ written \in 0..Len(script)
  /\ outcome \in {"none", "error", "done", "cancelled", "timeout"}

\* What a stretch of output says: the hops are its maximal runs of hop lines
\* with one number, each with all its times and the first address it names.
Lines(n) == SelectSeq(SubSeq(script, 1, n), LAMBDA l : l.kind = "hop")
RunStarts(l) == {k \in DOMAIN l : k = 1 \/ l[k].n # l[k - 1].n}
RunOf(l, k) == SelectSeq([j \in DOMAIN l |-> [line |-> l[j], in |->
                 Max({s \in RunStarts(l) : s <= j}) = k]], LAMBDA x : x.in)
HopOf(run) ==
  LET named == SelectSeq(run, LAMBDA x : x.line.ip # "")
  IN [n |-> run[1].line.n, ip |-> IF named = <<>> THEN "" ELSE named[1].line.ip,
      rtts |-> FlattenSeq([k \in DOMAIN run |-> run[k].line.rtts])]
Reference(n) ==
  LET l == Lines(n)
      starts == SetToSortSeq(RunStarts(l), <)
  IN [k \in DOMAIN starts |-> HopOf(RunOf(l, starts[k]))]

\* At every moment the hops emitted and the one that is pending are exactly what
\* the output so far says, wherever it is cut off; at the end all are emitted.
HopsAreWhole ==
  /\ Reference(read) = IF pending = NoHop THEN hops ELSE Append(hops, pending)
  /\ main = "over" => pending = NoHop

\* A known target has one row of its own among those that are shown, and every
\* hop that was emitted is still there; a row added for the target is a point of
\* its own on the map once it is located, whichever hops are.
TargetShownOnce ==
  LET rows == DisplayHops(hops, target)
  IN /\ IsPrefix(hops, rows)
     /\ target # "" => \E k \in DOMAIN rows : rows[k].ip = target
     /\ Len(rows) > Len(hops) =>
          /\ \A k \in DOMAIN hops : hops[k].n < rows[Len(rows)].n /\ hops[k].ip # target
          /\ \A located \in SUBSET {k \in DOMAIN rows : rows[k].ip # ""} :
               LET points == Correlate(rows, located)
               IN IF Len(rows) \in located THEN points[target] = {Len(rows)}
                                           ELSE target \notin DOMAIN points

\* Every trace returns: a child that hangs is killed at the deadline.
TraceReturns == <>[](main \in {"new", "over"})
=============================================================================
