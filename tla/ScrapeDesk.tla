----------------------------- MODULE ScrapeDesk -----------------------------
(***************************************************************************)
(* The run windows of the scraper (src/ui_scrape.go), of which only the    *)
(* one opened last gets the crawl's events.  Crawls run in goroutines of   *)
(* their own (App.Scrape, src/scrape_app.go), at most one with a live      *)
(* context, and reach the GUI thread through a FIFO of closures.           *)
(***************************************************************************)
EXTENDS Integers, Sequences

CONSTANTS Windows, NoWindow,
          Runs,           \* 1..n, in the order of the starts
          MaxFinds,       \* bound: the pages and assets a crawl reports
          QueueCap        \* bound: closures waiting for the GUI thread

VARIABLES
  run,        \* [Runs -> [at, ctx, filter: BOOLEAN, finds]]
  queue,
  dlg,        \* u.scrapeDlg
  win,        \* [Windows -> [open, start, cancel, filter, pages, assets]]
  busy        \* u.opLabel # ""

vars == <<run, queue, dlg, win, busy>>

\* build and buildAssetsTab: a window as it is shown first.
NewWindow == [open |-> TRUE, start |-> TRUE, cancel |-> FALSE, filter |-> FALSE,
              pages |-> <<>>, assets |-> 0]

Init ==
  /\ run = [r \in Runs |-> [at |-> "none", ctx |-> "none", filter |-> FALSE, finds |-> 0]]
  /\ queue = <<>>
  /\ dlg = NoWindow
  /\ win = [w \in Windows |-> [NewWindow EXCEPT !.open = FALSE]]
  /\ busy = FALSE

Post(e) == Len(queue) < QueueCap /\ queue' = Append(queue, e)
Event(ev, r, x) == [ev |-> ev, run |-> r, what |-> x]

LiveRuns == {r \in Runs : run[r].ctx = "live"}
CancelRuns == [r \in Runs |-> IF r \in LiveRuns THEN [run[r] EXCEPT !.ctx = "cancelled"] ELSE run[r]]

-----------------------------------------------------------------------------
(* The run windows.                                                        *)

\* openScrapeFor, from the address box, a scan, a port scan or an origin: an
\* older window stays open, but is forgotten.
OpenWindow(w) ==
  /\ ~win[w].open
  /\ win' = [win EXCEPT ![w] = NewWindow]
  /\ dlg' = w
  /\ UNCHANGED <<run, queue, busy>>

\* start: a request that is refused changes nothing.
Start(w, r, filter) ==
  /\ win[w].open /\ win[w].start
  /\ run[r].at = "none" /\ \A s \in Runs : s < r => run[s].at # "none"
  /\ run' = [run EXCEPT ![r].at = "launched", ![r].filter = filter]
  /\ win' = [win EXCEPT ![w] = [@ EXCEPT !.start = FALSE, !.cancel = TRUE, !.filter = filter,
                                          !.pages = <<>>, !.assets = 0]]
  /\ busy' = TRUE
  /\ UNCHANGED <<queue, dlg>>

\* The window's Cancel button, or Clean in the toolbar: App.CancelScrape.
CancelScrape(w) ==
  /\ win[w].open /\ win[w].cancel
  /\ run' = CancelRuns
  /\ UNCHANGED <<queue, dlg, win, busy>>

-----------------------------------------------------------------------------
(* App.Scrape.                                                             *)

\* begin evicts the crawl before it.
BeginRun(r) ==
  /\ run[r].at = "launched"
  /\ run' = [CancelRuns EXCEPT ![r].at = "crawling", ![r].ctx = "live"]
  /\ UNCHANGED <<queue, dlg, win, busy>>

\* Faulty variant: a rejected request returns its error and emits nothing.
RejectRunSilently(r) ==
  /\ run[r].at = "launched"
  /\ run' = [CancelRuns EXCEPT ![r].at = "over", ![r].ctx = "cancelled"]
  /\ UNCHANGED <<queue, dlg, win, busy>>

\* No archive, no usable target, or no job row.
RejectRun(r) ==
  /\ run[r].at = "launched"
  /\ run' = [CancelRuns EXCEPT ![r].at = "over", ![r].ctx = "cancelled"]
  /\ Post(Event("error", r, 0))
  /\ UNCHANGED <<dlg, win, busy>>

\* A page is stored only with a live context, and with a filter only if it
\* matches; x is the run whose keywords it matched, 0 for none.
FindPage(r) ==
  /\ run[r].at = "crawling" /\ run[r].ctx = "live" /\ run[r].finds < MaxFinds
  /\ run' = [run EXCEPT ![r].finds = @ + 1]
  /\ Post(Event("page", r, IF run[r].filter THEN r ELSE 0))
  /\ UNCHANGED <<dlg, win, busy>>

FindAsset(r) ==
  /\ run[r].at = "crawling" /\ run[r].ctx = "live" /\ run[r].finds < MaxFinds
  /\ run' = [run EXCEPT ![r].finds = @ + 1]
  /\ Post(Event("asset", r, 0))
  /\ UNCHANGED <<dlg, win, busy>>

EndRun(r) ==
  /\ run[r].at = "crawling"
  /\ run' = [run EXCEPT ![r].at = "over", ![r].ctx = "cancelled"]
  /\ Post(Event("done", r, 0))
  /\ UNCHANGED <<dlg, win, busy>>

-----------------------------------------------------------------------------
(* uiApp.handle; every event of every run goes to the newest window.       *)

\* onPage drops a page without keywords while a filter is active.
OnPage(e) ==
  /\ e.ev = "page"
  /\ win' = IF dlg = NoWindow \/ (win[dlg].filter /\ e.what = 0) THEN win
            ELSE [win EXCEPT ![dlg].pages = Append(@, e)]
  /\ UNCHANGED busy

OnAsset(e) ==
  /\ e.ev = "asset"
  /\ win' = IF dlg = NoWindow THEN win ELSE [win EXCEPT ![dlg].assets = @ + 1]
  /\ UNCHANGED busy

\* finish, without asking which run has ended.
OnEnd(e) ==
  /\ e.ev \in {"done", "error"}
  /\ win' = IF dlg = NoWindow THEN win
            ELSE [win EXCEPT ![dlg].start = TRUE, ![dlg].cancel = FALSE]
  /\ busy' = FALSE

Handle ==
  /\ queue # <<>>
  /\ queue' = Tail(queue)
  /\ LET e == Head(queue) IN OnPage(e) \/ OnAsset(e) \/ OnEnd(e)
  /\ UNCHANGED <<run, dlg>>

-----------------------------------------------------------------------------
Window(w) ==
  \/ OpenWindow(w) \/ CancelScrape(w)
  \/ \E r \in Runs, filter \in BOOLEAN : Start(w, r, filter)

\* What App.Scrape does by itself.  A crawl ends, see CrawlHasEnded.
Scrape(r) == BeginRun(r) \/ RejectRun(r) \/ EndRun(r)

Next ==
  \/ \E w \in Windows : Window(w)
  \/ \E r \in Runs : Scrape(r) \/ FindPage(r) \/ FindAsset(r)
  \/ Handle

\* Goroutines and the Qt event loop run.
Fairness == WF_vars(Handle \/ \E r \in Runs : Scrape(r))

Spec == Init /\ [][Next]_vars /\ Fairness

-----------------------------------------------------------------------------
TypeOK ==
  /\ \A r \in Runs : run[r].at \in {"none", "launched", "crawling", "over"} /\ run[r].finds \in 0..MaxFinds
  /\ Len(queue) <= QueueCap /\ dlg \in Windows \cup {NoWindow}

\* The window the user sees is never left with a dead Start button: whatever
\* runs were rejected, evicted or cancelled, once all of them are over and
\* their events handled the newest window can start again.
StartComesBack ==
  <>[](dlg # NoWindow => win[dlg].start /\ ~win[dlg].cancel)

\* "while a keyword filter is active, never show a page that the filter did not
\* index": whatever run a page in a filtered window comes from, it matched a
\* filter; the table is emptied before the filter is set.
FilteredPagesMatched ==
  \A w \in Windows : win[w].filter => \A n \in DOMAIN win[w].pages : win[w].pages[n].what # 0
=============================================================================
