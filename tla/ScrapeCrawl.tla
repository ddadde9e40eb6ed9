---------------------------- MODULE ScrapeCrawl ----------------------------
(***************************************************************************)
(* One crawl: scrape.Run of src/internal/scrape/scrape.go between the      *)
(* begin and the end of App.Scrape (src/scrape_app.go).  The seeds are     *)
(* crawled one after the other, each level by level; a level is a loop     *)
(* that hands pages to workers and then waits for all of them.             *)
(*                                                                         *)
(* The web is a constant: what each URL serves.  MaxAssets also stands for *)
(* the cap on bytes, which is checked and counted at the same places, and  *)
(* acquire is in ScrapeThrottle.                                           *)
(***************************************************************************)
EXTENDS Integers, FiniteSets, Sequences

CONSTANTS Urls,     \* the URLs the crawl can meet
          Web,      \* [Urls -> what the URL serves, see Page below]
          Options   \* the requests the user may make, see Request below

(* Page: [kind: "html" or "file", host, domain, lands: the domain of the   *)
(* final URL, links: a set of URLs, assets, dirs: sequences, matches: has  *)
(* a keyword].  Request: [seeds: a sequence of URLs, depth, scope, media,  *)
(* keywords, index: BOOLEAN, pages, assets, workers: the limits].          *)

VARIABLES
  opts, ctx,
  main,                          \* where run and crawlSeed are
  seed, depth, frontier, cur,    \* the seed's index, its level, the loop
  next,                          \* links found on this level
  seenPage, seenAsset, seenDir,
  worker,                        \* [Urls]: the goroutine that fetches it
  pages, assets,                 \* the counters
  fetched, stored, failed,       \* history: documents read, kept, not read
  outcome                        \* the status given to FinishJob

level == <<seed, depth, frontier, cur, next>>
seen == <<seenPage, seenAsset, seenDir>>
counters == <<pages, assets>>
books == <<fetched, stored, failed>>
vars == <<opts, ctx, main, level, seen, worker, counters, books, outcome>>

Idle == [at |-> "none", left |-> <<>>]

\* The crawl of one request.
InitWith(o) ==
  /\ opts = o
  /\ ctx = "live" /\ main = "new"
  /\ seed = 0 /\ depth = 0 /\ frontier = {} /\ cur = opts.seeds[1]
  /\ next = {}
  /\ seenPage = {} /\ seenAsset = {} /\ seenDir = {}
  /\ worker = [u \in Urls |-> Idle]
  /\ pages = 0 /\ assets = 0
  /\ fetched = {} /\ stored = {} /\ failed = {}
  /\ outcome = "none"

Init == \E o \in Options : InitWith(o)

Cancelled == ctx = "cancelled"
Active == {u \in Urls : worker[u].at \notin {"none", "back"}}
LimitReached == pages >= opts.pages \/ assets >= opts.assets
Site == Web[opts.seeds[seed]]

InBaseDomain(u) == Web[u].lands = Site.domain
InScope(u) ==
  IF opts.scope = "host" THEN Web[u].host = Site.host
  ELSE Web[u].domain = Site.domain
ScopeLinks(u) == {v \in Web[u].links : InScope(v)}
AssetURLs(u) == IF opts.media THEN Web[u].assets ELSE <<>>

-----------------------------------------------------------------------------
(* App.Scrape.                                                             *)

\* A request without a usable target, without a data directory or whose job
\* row cannot be written ends with an error event.
Reject ==
  /\ main = "new"
  /\ main' = "over" /\ outcome' = "rejected"
  /\ UNCHANGED <<opts, ctx, level, seen, worker, counters, books>>

Begin ==
  /\ main = "new"
  /\ main' = "seeds"
  /\ UNCHANGED <<opts, ctx, level, seen, worker, counters, books, outcome>>

Cancel ==
  /\ main \notin {"new", "over"} /\ ~Cancelled
  /\ ctx' = "cancelled"
  /\ UNCHANGED <<opts, main, level, seen, worker, counters, books, outcome>>

\* run returns nil also when it was cancelled; the context tells.
Finish ==
  /\ main = "finish"
  /\ main' = "over"
  /\ outcome' = IF Cancelled THEN "cancelled" ELSE "done"
  /\ UNCHANGED <<opts, ctx, level, seen, worker, counters, books>>

-----------------------------------------------------------------------------
(* run and crawlSeed.                                                      *)

NextSeed ==
  /\ main = "seeds"
  /\ IF Cancelled \/ seed = Len(opts.seeds)
       THEN main' = "finish" /\ UNCHANGED <<seed, depth, frontier>>
       ELSE /\ main' = "level"
            /\ seed' = seed + 1
            /\ depth' = 0
            /\ frontier' = {opts.seeds[seed + 1]}
  /\ UNCHANGED <<opts, ctx, cur, next, seen, worker, counters, books, outcome>>

StartLevel ==
  /\ main = "level"
  /\ next' = {}
  /\ main' = IF depth > opts.depth \/ frontier = {} \/ Cancelled
             THEN "seeds" ELSE "loop"
  /\ UNCHANGED <<opts, ctx, seed, depth, frontier, cur, seen, worker, counters, books, outcome>>

LoopGoesOn == main = "loop" /\ frontier # {} /\ ~Cancelled /\ ~LimitReached

\* The limit is checked, the page marked as seen, and then the loop waits for
\* a place in the semaphore; it does not watch the context there.
Take(u) ==
  /\ LoopGoesOn /\ u \in frontier
  /\ frontier' = frontier \ {u}
  /\ IF u \in seenPage THEN UNCHANGED <<main, cur, seenPage>>
     ELSE /\ seenPage' = seenPage \cup {u}
          /\ cur' = u
          /\ main' = "place"
  /\ UNCHANGED <<opts, ctx, seed, depth, next, seenAsset, seenDir, worker, counters, books, outcome>>

Spawn ==
  /\ main = "place"
  /\ Cardinality(Active) < opts.workers
  /\ worker' = [worker EXCEPT ![cur].at = "fetch"]
  /\ main' = "loop"
  /\ UNCHANGED <<opts, ctx, level, seen, counters, books, outcome>>

LoopEnds ==
  /\ main = "loop" /\ ~LoopGoesOn
  /\ main' = "join"
  /\ UNCHANGED <<opts, ctx, level, seen, worker, counters, books, outcome>>

\* Faulty variant: the next level starts while workers still collect links.
JoinEarly ==
  /\ main = "join"
  /\ depth' = depth + 1 /\ frontier' = next
  /\ main' = "level"
  /\ UNCHANGED <<opts, ctx, seed, cur, next, seen, worker, counters, books, outcome>>

\* wg.Wait; the order of the new frontier is that of the workers' ends.
Join ==
  /\ main = "join" /\ Active = {}
  /\ depth' = depth + 1 /\ frontier' = next
  /\ main' = "level"
  /\ UNCHANGED <<opts, ctx, seed, cur, next, seen, worker, counters, books, outcome>>

-----------------------------------------------------------------------------
(* fetchPage, in the worker of URL u.                                      *)

Goto(u, place, left) == worker' = [worker EXCEPT ![u] = [at |-> place, left |-> left]]

\* The worker returns its links, which count on all levels but the last.
Return(u) ==
  /\ Goto(u, "back", <<>>)
  /\ next' = IF depth < opts.depth /\ u \in fetched THEN next \cup ScopeLinks(u) ELSE next

\* A network error, a timeout, the context, or a redirect off the domain.
FetchFails(u) ==
  /\ worker[u].at = "fetch"
  /\ failed' = failed \cup {u}
  /\ Return(u)
  /\ UNCHANGED <<opts, ctx, main, seed, depth, frontier, cur, seen, counters, fetched, stored, outcome>>

Responds(u) == worker[u].at = "fetch" /\ ~Cancelled /\ InBaseDomain(u)

\* A document that is not HTML is an asset, whatever the mode and the caps.
FetchFile(u) ==
  /\ Responds(u) /\ Web[u].kind = "file"
  /\ assets' = assets + 1
  /\ Return(u)
  /\ UNCHANGED <<opts, ctx, main, seed, depth, frontier, cur, seen, pages, books, outcome>>

FetchHtml(u) ==
  /\ Responds(u) /\ Web[u].kind = "html"
  /\ fetched' = fetched \cup {u}
  /\ Goto(u, "probe", IF opts.index THEN Web[u].dirs ELSE <<>>)
  /\ UNCHANGED <<opts, ctx, main, level, seen, counters, stored, failed, outcome>>

\* probeDirectories: each directory once in the whole crawl.  A cancelled
\* worker skips the rest.
ProbeDir(u) ==
  /\ worker[u].at = "probe" /\ worker[u].left # <<>>
  /\ IF Cancelled THEN Goto(u, "probe", <<>>) /\ UNCHANGED seenDir
     ELSE /\ Goto(u, "probe", Tail(worker[u].left))
          /\ seenDir' = seenDir \cup {Head(worker[u].left)}
  /\ UNCHANGED <<opts, ctx, main, level, seenPage, seenAsset, counters, books, outcome>>

Probed(u) == worker[u].at = "probe" /\ worker[u].left = <<>>
Wanted(u) == opts.keywords => Web[u].matches

\* A page without a keyword is fetched for its links only.
SkipPage(u) ==
  /\ Probed(u) /\ ~Wanted(u)
  /\ Return(u)
  /\ UNCHANGED <<opts, ctx, main, seed, depth, frontier, cur, seen, counters, books, outcome>>

\* reservePage fails: the page is not stored, but its links count.
RefusePage(u) ==
  /\ Probed(u) /\ Wanted(u) /\ pages >= opts.pages
  /\ Return(u)
  /\ UNCHANGED <<opts, ctx, main, seed, depth, frontier, cur, seen, counters, books, outcome>>

\* Faulty variant: the slot is taken without looking at the cap.
ReserveAlways(u) ==
  /\ Probed(u) /\ Wanted(u)
  /\ pages' = pages + 1
  /\ stored' = stored \cup {u}
  /\ Goto(u, "assets", AssetURLs(u))
  /\ UNCHANGED <<opts, ctx, main, level, seen, assets, fetched, failed, outcome>>

\* reservePage claims a slot (one compare-and-swap), then OnPage.
ReservePage(u) ==
  /\ Probed(u) /\ Wanted(u) /\ pages < opts.pages
  /\ pages' = pages + 1
  /\ stored' = stored \cup {u}
  /\ Goto(u, "assets", AssetURLs(u))
  /\ UNCHANGED <<opts, ctx, main, level, seen, assets, fetched, failed, outcome>>

AssetsGoOn(u) == worker[u].left # <<>> /\ ~Cancelled /\ ~LimitReached

\* The check and the test-and-set of seenAsset come before the download...
TakeAsset(u) ==
  /\ worker[u].at = "assets" /\ AssetsGoOn(u)
  /\ LET a == Head(worker[u].left)
     IN /\ Goto(u, IF a \in seenAsset THEN "assets" ELSE "download", Tail(worker[u].left))
        /\ seenAsset' = seenAsset \cup {a}
  /\ UNCHANGED <<opts, ctx, main, level, seenPage, seenDir, counters, books, outcome>>

\* ...and the counter after it: several workers may be in between.
Download(u, ok) ==
  /\ worker[u].at = "download"
  /\ ok => ~Cancelled
  /\ assets' = IF ok THEN assets + 1 ELSE assets
  /\ Goto(u, "assets", worker[u].left)
  /\ UNCHANGED <<opts, ctx, main, level, seen, pages, books, outcome>>

AssetsEnd(u) ==
  /\ worker[u].at = "assets" /\ ~AssetsGoOn(u)
  /\ Return(u)
  /\ UNCHANGED <<opts, ctx, main, seed, depth, frontier, cur, seen, counters, books, outcome>>

Fetch(u) ==
  \/ FetchFails(u) \/ FetchFile(u) \/ FetchHtml(u) \/ ProbeDir(u)
  \/ SkipPage(u) \/ RefusePage(u) \/ ReservePage(u)
  \/ TakeAsset(u) \/ (\E ok \in BOOLEAN : Download(u, ok)) \/ AssetsEnd(u)

Crawl ==
  \/ NextSeed \/ StartLevel \/ (\E u \in Urls : Take(u))
  \/ Spawn \/ LoopEnds \/ Join \/ Finish

Next == Reject \/ Begin \/ Cancel \/ Crawl \/ \E u \in Urls : Fetch(u)

\* Some goroutine runs as long as one can, and every request ends: the client
\* has a timeout.
Fairness == WF_vars(Crawl \/ \E u \in Urls : Fetch(u))

Spec == Init /\ [][Next]_vars /\ Fairness

-----------------------------------------------------------------------------
TypeOK ==
  /\ opts \in Options /\ ctx \in {"live", "cancelled"}
  /\ main \in {"new", "seeds", "level", "loop", "place", "join", "finish", "over"}
  /\ seed \in 0..Len(opts.seeds) /\ depth \in 0..(opts.depth + 1)
  /\ frontier \cup next \cup seenPage \cup {cur} \subseteq Urls
  /\ fetched \cup failed \subseteq seenPage /\ stored \subseteq fetched
  /\ \A u \in Urls : worker[u].at \in {"none", "fetch", "probe", "assets", "download", "back"}
  /\ outcome \in {"none", "rejected", "done", "cancelled"}

\* What the limits of a request are worth.  "MaxPages [...] is a hard limit";
\* the assets may exceed theirs by one per worker and by the document that was
\* waiting for a place, because they are counted after the download.
CapsHold ==
  /\ pages <= opts.pages /\ pages = Cardinality(stored)
  /\ assets <= opts.assets + opts.workers

\* The links of a document that a crawl of the seed s follows.
LinksFrom(s, u) ==
  {v \in Web[u].links : IF opts.scope = "host" THEN Web[v].host = Web[s].host
                        ELSE Web[v].domain = Web[s].domain}

\* The URLs within n links of a seed, through documents that were read.
Within(s, n) ==
  LET Grow(near) == near \cup UNION {LinksFrom(s, u) : u \in near \cap fetched}
      reach[k \in 0..n] == IF k = 0 THEN {s} ELSE Grow(reach[k - 1])
  IN reach[n]

Complete(s) ==
  LET reached == Within(s, opts.depth)
  IN /\ reached \subseteq seenPage
     /\ {u \in reached \cap fetched : Wanted(u)} \subseteq stored

RanFully(k) == (seed > k \/ main = "finish" \/ outcome = "done") /\ seed >= k
               /\ ~Cancelled /\ ~LimitReached

\* A crawl of the first seed that neither a cap nor the user cut short has
\* fetched every page within Depth links of it, and stored each of them that
\* the filter wants, in whatever order the workers returned.
FirstSeedComplete == RanFully(1) => Complete(opts.seeds[1])

\* "Lock the base domain for the shared redirect guard before any fetch": a
\* worker is always on the domain that the shared field names, because none
\* outlives its level, let alone its seed.
OneDomainAtATime == \A u \in Active : Web[u].domain = Site.domain

-----------------------------------------------------------------------------
(* The inductive invariant behind CapsHold and OneDomainAtATime.           *)

\* Requests are complete and the crawl stays among Urls; a host has one domain.
CrawlAssumption ==
  /\ IsFiniteSet(Urls)
  /\ \A u \in Urls : Web[u].links \subseteq Urls
  /\ \A u, v \in Urls : Web[u].host = Web[v].host => Web[u].domain = Web[v].domain
  /\ \A o \in Options : /\ o.seeds \in Seq(Urls) /\ o.seeds # <<>>
                        /\ {o.depth, o.pages, o.assets, o.workers} \subseteq Nat

\* Each URL's worker is a record of where it is and of what it has left.
WorkersAreRecords ==
  worker = [u \in Urls |-> [at |-> worker[u].at, left |-> worker[u].left]]

\* Outside the loop of a level nothing is under way.
LevelsAreJoined ==
  /\ main \in {"new", "seeds", "level", "finish", "over"} => Active = {}
  /\ main \in {"level", "loop", "place", "join"} => seed >= 1
  /\ main \in {"loop", "place", "join"} => depth <= opts.depth

\* A page has a worker once in the whole crawl, from when it was marked as seen.
WorkersAreOnce ==
  /\ \A u \in Urls : worker[u].at # "none" => u \in seenPage
  /\ main = "place" => cur \in seenPage /\ worker[cur].at = "none"
  /\ \A u \in Urls : worker[u].at \in {"probe", "assets", "download"} => u \in fetched
  /\ \A u \in stored : worker[u].at \in {"assets", "download", "back"}

\* The workers that may still count an asset, and the one that waits for a place.
MayCount == {u \in Urls : worker[u].at \in {"fetch", "download"}}
Waiting == IF main = "place" THEN 1 ELSE 0

\* Once the limit of the assets is reached nobody starts what may count another,
\* so that what is under way bounds the excess.
ExcessIsUnderWay ==
  /\ pages \in Nat /\ pages <= opts.pages /\ pages = Cardinality(stored)
  /\ assets \in Nat /\ Cardinality(Active) <= opts.workers
  /\ assets >= opts.assets =>
       assets + Cardinality(MayCount) + Waiting <= opts.assets + opts.workers

\* What the level has to do is on the domain of its seed.
LevelOnDomain ==
  /\ main \in {"level", "loop", "place", "join"} =>
       \A u \in frontier : Web[u].domain = Site.domain
  /\ main \in {"loop", "place", "join"} =>
       \A u \in next \cup Active : Web[u].domain = Site.domain
  /\ main = "place" => Web[cur].domain = Site.domain

IInv == /\ TypeOK /\ WorkersAreRecords /\ LevelsAreJoined /\ WorkersAreOnce
        /\ ExcessIsUnderWay /\ LevelOnDomain

-----------------------------------------------------------------------------
(* What FirstSeedComplete needs besides.                                   *)

First == opts.seeds[1]
Unhindered == ~Cancelled /\ ~LimitReached
OnFirst == seed = 1 /\ main \in {"level", "loop", "place", "join"}

\* A page that was seen has a worker, or waits for one; it is read by its worker,
\* which keeps it if it is wanted, unless there is no room left.
SeenAreTaken ==
  /\ \A u \in seenPage : worker[u].at # "none" \/ (main = "place" /\ u = cur)
  /\ \A u \in fetched : worker[u].at \notin {"none", "fetch"}
  /\ ~LimitReached => \A u \in fetched :
       Wanted(u) /\ worker[u].at \in {"assets", "download", "back"} => u \in stored
  /\ seed = 0 => seenPage = {}
  /\ outcome = "done" => main = "over"

\* While the first seed is crawled, at[u] is the level on which u was seen: what a
\* page that is done with links to was seen a level later at most, or will be.
Following(at) ==
  /\ \/ First \in seenPage /\ at[First] = 0
     \/ First \in frontier /\ depth = 0
  /\ \A u \in seenPage : at[u] <= depth
  /\ \A u \in seenPage : worker[u].at # "back" => at[u] = depth
  /\ main = "join" => frontier = {}
  /\ \A u \in fetched : worker[u].at = "back" /\ at[u] < opts.depth =>
       \A v \in LinksFrom(First, u) :
         \/ v \in seenPage /\ at[v] <= at[u] + 1
         \/ v \in frontier /\ depth <= at[u] + 1
         \/ v \in next /\ main # "level" /\ depth <= at[u]

\* Afterwards all of them were seen, and later seeds add pages of no level.
Followed(at) ==
  /\ First \in seenPage /\ at[First] = 0
  /\ \A u \in seenPage : at[u] <= opts.depth => worker[u].at = "back"
  /\ \A u \in fetched : at[u] < opts.depth =>
       \A v \in LinksFrom(First, u) : v \in seenPage /\ at[v] <= at[u] + 1

LevelsExist ==
  Unhindered /\ seed >= 1 =>
    \E at \in [Urls -> 0..(opts.depth + 1)] : IF OnFirst THEN Following(at) ELSE Followed(at)

SeedInv == SeenAreTaken /\ LevelsExist

-----------------------------------------------------------------------------
\* What every crawl comes to; a cancelled one is never recorded as done.
CrawlHasEnded ==
  main \in {"new", "over"} /\ Active = {} /\ (Cancelled => outcome = "cancelled")
=============================================================================
