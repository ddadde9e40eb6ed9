---------------------------- MODULE MCOperations ----------------------------
(***************************************************************************)
(* The operations that end by themselves or by a cancel: the canceler, the *)
(* throttle and the windows of the scraper, traceroute, and the netcat     *)
(* sessions.  They share no state, and are checked in one run: a behaviour *)
(* is a behaviour of the module that focus names, while the variables of   *)
(* the others keep their initial values.                                   *)
(***************************************************************************)
EXTENDS Canceler, Netcat

VARIABLES
  focus,
  now, cancelled, count, until, at, due, index, starts, openings,
  run, posts, dlg, win, busy,
  traceMain, traceCtx, tool, script, written, read, exit, pending, target, hops, result

throttleVars == <<now, cancelled, count, until, at, due, index, starts, openings>>
deskVars == <<run, posts, dlg, win, busy>>
traceVars == <<traceMain, traceCtx, tool, script, written, read, exit, pending, target, hops, result>>
all == <<focus, cancelerVars, vars, throttleVars, deskVars, traceVars>>

-----------------------------------------------------------------------------
Throttle == INSTANCE ScrapeThrottle
  WITH Workers <- {"w1", "w2"}, Every <- 2, Delay <- 1, Horizon <- 2

Desk == INSTANCE ScrapeDesk
  WITH Windows <- {"w1", "w2"}, NoWindow <- "none", Runs <- {1, 2},
       MaxFinds <- 1, QueueCap <- 2, queue <- posts

HopLine(n, ip, rtts) == [kind |-> "hop", n |-> n, ip |-> ip, rtts |-> rtts]
OtherLine(kind, ip) == [kind |-> kind, n |-> 0, ip |-> ip, rtts |-> <<>>]

\* A hop over several lines, a target that does not answer, a number that falls.
Output == {
  <<HopLine(1, "", <<>>), HopLine(1, "a", <<1>>), OtherLine("noise", ""), HopLine(1, "b", <<2>>),
    HopLine(2, "", <<>>), HopLine(3, "c", <<3>>)>>,
  <<OtherLine("header", "c"), HopLine(1, "a", <<1, 2>>), HopLine(2, "", <<>>), HopLine(3, "c", <<3>>)>>,
  <<OtherLine("header", "d"), HopLine(1, "a", <<1>>), HopLine(3, "a", <<3>>), OtherLine("header", "e"),
    HopLine(2, "", <<>>)>>}

Trace == INSTANCE TraceRun
  WITH Installed <- <<"tracepath">>, Outputs <- [t \in {"tracepath"} |-> Output],
       main <- traceMain, ctx <- traceCtx, outcome <- result

-----------------------------------------------------------------------------
MCInit ==
  /\ focus \in {"canceler", "netcat", "throttle", "desk", "trace"}
  /\ CancelerInit /\ Init /\ Throttle!Init /\ Desk!Init /\ Trace!Init

MCNext ==
  \/ /\ focus = "canceler" /\ CancelerNext
     /\ UNCHANGED <<focus, vars, throttleVars, deskVars, traceVars>>
  \/ /\ focus = "netcat" /\ Next
     /\ UNCHANGED <<focus, cancelerVars, throttleVars, deskVars, traceVars>>
  \/ /\ focus = "throttle" /\ Throttle!Next
     /\ UNCHANGED <<focus, cancelerVars, vars, deskVars, traceVars>>
  \/ /\ focus = "desk" /\ Desk!Next
     /\ UNCHANGED <<focus, cancelerVars, vars, throttleVars, traceVars>>
  \/ /\ focus = "trace" /\ Trace!Next
     /\ UNCHANGED <<focus, cancelerVars, vars, throttleVars, deskVars>>

\* What is fair in a module is disabled in its initial states and after its end,
\* so the modules that are out of focus ask for nothing.
MCSpec ==
  /\ MCInit /\ [][MCNext]_all
  /\ Fairness /\ Throttle!Fairness /\ Desk!Fairness /\ Trace!Fairness

-----------------------------------------------------------------------------
\* Each of these checks the type invariant of the module it is about as well.

\* The hops parsed from a cut-off output and the rows shown, see TraceRun.
HopsAreWhole == Trace!TypeOK /\ Trace!HopsAreWhole /\ Trace!TargetShownOnce

\* Every operation ends, also a cancelled one, whatever the network does.
OperationsReturn ==
  Throttle!CancelCutsPause /\ Trace!TraceReturns

\* The run window can be used again once its run is over, and a page in a
\* filtered window matched, see ScrapeDesk.
StartComesBack == [](Desk!TypeOK /\ Desk!FilteredPagesMatched) /\ Desk!StartComesBack
=============================================================================
