------------------------------ MODULE MCArchive ------------------------------
(***************************************************************************)
(* The archive that a crawl writes, the browser of that archive and the    *)
(* history of traces, checked in one run: a behaviour is a behaviour of    *)
(* the module that focus names, and the variables of the others keep their *)
(* initial values.                                                         *)
(***************************************************************************)
EXTENDS ScrapeArchive

VARIABLES
  focus,
  listed, newest, browser,
  entries, lastEntry, view, reporting, window, load

browserVars == <<listed, newest, browser>>
historyVars == <<entries, lastEntry, view, reporting, window, load>>
all == <<focus, vars, browserVars, historyVars>>

\* A page and two assets with the same content.
MCItems == {"page", "logo", "icon"}
MCBody == [i \in MCItems |-> IF i = "page" THEN NoBody ELSE "bytes"]
MCFinds == {{"page", "logo"}, {"logo", "icon"}}

Index == INSTANCE ScrapeIndex WITH MaxJobs <- 3, jobs <- listed, index <- browser

\* Saving tells no window, so one is enough for a list that is out of date; the
\* clock may stand still or go back.
Past == INSTANCE History
  WITH Windows <- {"window"}, Times <- {1, 2}, Targets <- {0, 1}, MaxSaves <- 2, MaxHops <- 1,
       rows <- entries, lastId <- lastEntry

-----------------------------------------------------------------------------
MCInit ==
  /\ focus \in {"archive", "index", "history"}
  /\ Init /\ Index!Init /\ Past!Init

MCNext ==
  \/ focus = "archive" /\ Next /\ UNCHANGED <<focus, browserVars, historyVars>>
  \/ focus = "index" /\ Index!Next /\ UNCHANGED <<focus, vars, historyVars>>
  \/ focus = "history" /\ Past!Next /\ UNCHANGED <<focus, vars, browserVars>>

MCSpec == MCInit /\ [][MCNext]_all

-----------------------------------------------------------------------------
\* The rows that the browser shows belong to the job it has selected, and a row
\* of the history names its own entry, however old the list; see ScrapeIndex and
\* History.
RowsOfSelection ==
  /\ []Index!TypeOK /\ Index!RowsOfSelection
  /\ [](Past!TypeOK /\ Past!RowsNameTheirEntry /\ Past!PathsApart)
=============================================================================
