------------------------------ MODULE WebCrawl ------------------------------
(***************************************************************************)
(* webcrawl.Crawl of src/internal/webcrawl/webcrawl.go: the frontpage,     *)
(* robots.txt, the sitemaps, and one level of same-site links.  The web is *)
(* a constant.  Hostnames are families: the pages of one site share one,   *)
(* and "home" is that of the domain the crawl was asked for.               *)
(***************************************************************************)
EXTENDS Integers, FiniteSets, SequencesExt

CONSTANTS Urls,       \* the pages
          Page,       \* [Urls -> [final: a URL, family, links: a sequence]]
          Start,      \* the frontpage candidates, a sequence
          Maps,       \* the sitemaps
          Map,        \* [Maps -> [urls, nested: sequences]]
          Robots,     \* [maps, paths: sequences], what robots.txt says
          Default,    \* the sitemap that is tried when robots.txt names none
          MaxPages, Workers, MaxSitemaps, MaxSitemapDepth

LinkAssumption ==
  /\ IsFiniteSet(Urls) /\ "none" \notin Urls
  /\ \A u \in Urls : Page[u].final \in Urls /\ Page[u].links \in Seq(Urls)
  /\ \A m \in Maps : Map[m].urls \in Seq(Urls) /\ Map[m].nested \in Seq(Maps)
  /\ Robots.maps \in Seq(Maps) /\ Robots.paths \in Seq(Urls) /\ Default \in Maps
  /\ Start \in Seq(Urls) /\ Start # <<>>
  /\ MaxPages \in Nat \ {0} /\ MaxSitemapDepth \in Nat

VARIABLES
  ctx,          \* "live" or "cancelled"
  main,         \* where Crawl is
  try,          \* the frontpage candidate it tries
  site,         \* the final URL of the frontpage, "none" before
  robots,       \* whether robots.txt has been read
  queue,        \* the sitemaps of this level: [map, depth]
  seen, maps,   \* the sitemaps requested; those that answered, in order
  candidates, pos,
  worker,       \* [Urls]: the goroutine that fetches it
  fetched,      \* final URLs
  pages,        \* the pages appended, as final URLs
  failed,       \* history: candidates whose fetch failed
  done, total, told

front == <<try, site, robots>>
sitemaps == <<queue, seen, maps>>
level == <<candidates, pos>>
counts == <<done, total, told>>
vars == <<ctx, main, front, sitemaps, level, worker, fetched, pages, failed, counts>>

InitAt(c, place) ==
  /\ ctx = c /\ main = place
  /\ try = 1 /\ site = "none" /\ robots = FALSE
  /\ queue = <<>> /\ seen = {} /\ maps = <<>>
  /\ candidates = <<>> /\ pos = 1
  /\ worker = [u \in Urls |-> "none"]
  /\ fetched = {} /\ pages = <<>> /\ failed = {}
  /\ done = 0 /\ total = 0 /\ told = <<0, 0>>

Init == InitAt("live", "front")

Cancelled == ctx = "cancelled"
Active == {u \in Urls : worker[u] \notin {"none", "back"}}
SameSite(u) == Page[u].family \in {"home", Page[site].family}

Cancel ==
  /\ main # "over" /\ ~Cancelled
  /\ ctx' = "cancelled"
  /\ UNCHANGED <<main, front, sitemaps, level, worker, fetched, pages, failed, counts>>

-----------------------------------------------------------------------------
(* frontpage: https before http, the domain before its www host.           *)

FrontFails ==
  /\ main = "front"
  /\ try' = try + 1
  /\ main' = IF try = Len(Start) THEN "over" ELSE "front"
  /\ UNCHANGED <<ctx, site, robots, sitemaps, level, worker, fetched, pages, failed, counts>>

\* The total is not known when the frontpage is reported.
FrontPage ==
  /\ main = "front" /\ ~Cancelled
  /\ site' = Page[Start[try]].final
  /\ fetched' = {site'} /\ pages' = <<site'>>
  /\ done' = 1 /\ told' = <<1, 0>>
  /\ main' = "robots"
  /\ UNCHANGED <<ctx, try, robots, sitemaps, level, worker, failed, total>>

\* crawlRobots, and the seeds of crawlSitemaps.
ReadRobots(ok) ==
  /\ main = "robots"
  /\ ok => ~Cancelled
  /\ robots' = ok
  /\ LET seeds == IF ok /\ Robots.maps # <<>> THEN Robots.maps ELSE <<Default>>
     IN queue' = [k \in 1..Len(seeds) |-> [map |-> seeds[k], depth |-> 0]]
  /\ main' = "sitemaps"
  /\ UNCHANGED <<ctx, try, site, seen, maps, level, worker, fetched, pages, failed, counts>>

Jobs == [map : Maps, depth : Nat]

Accept(list, x, ok) == IF ok THEN Append(list, x) ELSE list

\* A job after those already taken from the queue: each map once, none too deep.
Due(jobs, j) ==
  /\ j.map \notin seen /\ j.depth <= MaxSitemapDepth
  /\ \A k \in DOMAIN jobs : jobs[k].map # j.map

\* The jobs of the queue that are requested.
JobsToFetch ==
  LET jobs[n \in 0..Len(queue)] ==
        IF n = 0 THEN <<>> ELSE Accept(jobs[n - 1], queue[n], Due(jobs[n - 1], queue[n]))
  IN jobs[Len(queue)]

\* Those of a level that were answered, in its order.
Answered(jobs, ok) ==
  LET list[n \in 0..Len(jobs)] ==
        IF n = 0 THEN <<>> ELSE Accept(list[n - 1], jobs[n], jobs[n].map \in ok)
  IN list[Len(jobs)]

Nested(job, deeper) ==
  [k \in 1..Len(Map[job.map].nested) |->
     [map |-> Map[job.map].nested[k], depth |-> job.depth + deeper]]

\* The workers of a level only fill their own outcome, and the outcomes are
\* folded in the order of the level after all are back: one step.
SitemapLevel(ok, deeper) ==
  /\ main = "sitemaps" /\ Len(maps) < MaxSitemaps
  /\ LET jobs == JobsToFetch
         answered == Answered(jobs, ok)
     IN /\ jobs # <<>>
        /\ ok \subseteq {jobs[k].map : k \in DOMAIN jobs}
        /\ Cancelled => ok = {}
        /\ seen' = seen \cup {jobs[k].map : k \in DOMAIN jobs}
        /\ maps' = maps \o [k \in DOMAIN answered |-> answered[k].map]
        /\ queue' = FlattenSeq([k \in DOMAIN answered |-> Nested(answered[k], deeper)])
  /\ UNCHANGED <<ctx, main, front, level, worker, fetched, pages, failed, counts>>

Sitemaps == \E ok \in SUBSET Maps : SitemapLevel(ok, 1)

\* Paths with a wildcard are not in Robots.paths.
LinksFound ==
  Page[site].links
    \o FlattenSeq([k \in DOMAIN maps |-> Map[maps[k]].urls])
    \o (IF robots THEN Robots.paths ELSE <<>>)

\* Each link of the site once.
OfSite(links) ==
  LET list[n \in 0..Len(links)] ==
        IF n = 0 THEN <<>>
        ELSE Accept(list[n - 1], links[n], SameSite(links[n]) /\ links[n] \notin Range(list[n - 1]))
  IN list[Len(links)]

\* level1Candidates.
Candidates(room) ==
  LET all == OfSite(LinksFound) IN SubSeq(all, 1, IF Len(all) > room THEN room ELSE Len(all))

Choose ==
  /\ main = "sitemaps"
  /\ JobsToFetch = <<>> \/ Len(maps) >= MaxSitemaps
  /\ candidates' = Candidates(MaxPages - 1)
  /\ total' = 1 + Len(candidates')
  /\ told' = <<done, total'>>
  /\ main' = "loop"
  /\ UNCHANGED <<ctx, front, sitemaps, pos, worker, fetched, pages, failed, done>>

-----------------------------------------------------------------------------
(* fetchAll.                                                               *)

LoopGoesOn == main = "loop" /\ pos <= Len(candidates) /\ ~Cancelled
Current == candidates[pos]

\* What was fetched is looked up under the candidate's own URL.
Skip ==
  /\ LoopGoesOn /\ Current \in fetched
  /\ pos' = pos + 1
  /\ UNCHANGED <<ctx, main, front, sitemaps, candidates, worker, fetched, pages, failed, counts>>

Take ==
  /\ LoopGoesOn /\ Current \notin fetched
  /\ main' = "place"
  /\ UNCHANGED <<ctx, front, sitemaps, level, worker, fetched, pages, failed, counts>>

Spawn ==
  /\ main = "place" /\ Cardinality(Active) < Workers
  /\ worker' = [worker EXCEPT ![Current] = "fetch"]
  /\ pos' = pos + 1 /\ main' = "loop"
  /\ UNCHANGED <<ctx, front, sitemaps, candidates, fetched, pages, failed, counts>>

LoopEnds ==
  /\ main = "loop" /\ ~LoopGoesOn
  /\ main' = "wait"
  /\ UNCHANGED <<ctx, front, sitemaps, level, worker, fetched, pages, failed, counts>>

\* wg.Wait, then result: the pages so far, sorted, and the hosts resolved.
Return ==
  /\ main = "wait" /\ Active = {}
  /\ main' = "over"
  /\ UNCHANGED <<ctx, front, sitemaps, level, worker, fetched, pages, failed, counts>>

FetchFails(u) ==
  /\ worker[u] = "fetch"
  /\ worker' = [worker EXCEPT ![u] = "back"]
  /\ failed' = failed \cup {u}
  /\ UNCHANGED <<ctx, main, front, sitemaps, level, fetched, pages, counts>>

Fetch(u) ==
  /\ worker[u] = "fetch" /\ ~Cancelled
  /\ worker' = [worker EXCEPT ![u] = "add"]
  /\ UNCHANGED <<ctx, main, front, sitemaps, level, fetched, pages, failed, counts>>

Known(u) == Page[u].final \in fetched

\* Faulty variant: the page is entered under the URL that was asked for.
AddPageAsAsked(u) ==
  /\ worker[u] = "add"
  /\ worker' = [worker EXCEPT ![u] = "count"]
  /\ fetched' = fetched \cup {u}
  /\ pages' = Append(pages, Page[u].final)
  /\ UNCHANGED <<ctx, main, front, sitemaps, level, failed, counts>>

\* addPage, under the lock: one page for each final URL.
AddPage(u) ==
  /\ worker[u] = "add"
  /\ worker' = [worker EXCEPT ![u] = IF Known(u) THEN "back" ELSE "count"]
  /\ fetched' = fetched \cup {Page[u].final}
  /\ pages' = IF Known(u) THEN pages ELSE Append(pages, Page[u].final)
  /\ UNCHANGED <<ctx, main, front, sitemaps, level, failed, counts>>

\* The counter is raised and read again without the lock.
Count(u) ==
  /\ worker[u] = "count"
  /\ worker' = [worker EXCEPT ![u] = "tell"]
  /\ done' = done + 1
  /\ UNCHANGED <<ctx, main, front, sitemaps, level, fetched, pages, failed, total, told>>

Tell(u) ==
  /\ worker[u] = "tell"
  /\ worker' = [worker EXCEPT ![u] = "back"]
  /\ told' = <<done, total>>
  /\ UNCHANGED <<ctx, main, front, sitemaps, level, fetched, pages, failed, done, total>>

Work(u) == FetchFails(u) \/ Fetch(u) \/ AddPage(u) \/ Count(u) \/ Tell(u)

Crawl ==
  \/ FrontFails \/ FrontPage \/ (\E ok \in BOOLEAN : ReadRobots(ok))
  \/ Sitemaps \/ Choose \/ Skip \/ Take \/ Spawn \/ LoopEnds \/ Return

Next == Cancel \/ Crawl \/ \E u \in Urls : Work(u)

\* Requests have a timeout, so each ends one way or the other, and some goroutine
\* runs as long as one can.
Fairness == WF_vars(Crawl \/ \E u \in Urls : Work(u))

Spec == Init /\ [][Next]_vars /\ Fairness

-----------------------------------------------------------------------------
TypeOK ==
  /\ ctx \in {"live", "cancelled"}
  /\ main \in {"front", "robots", "sitemaps", "loop", "place", "wait", "over"}
  /\ site \in Urls \cup {"none"} /\ robots \in BOOLEAN
  /\ queue \in Seq(Jobs) /\ maps \in Seq(Maps) /\ seen \subseteq Maps
  /\ candidates \in Seq(Urls) /\ pos \in 1..(Len(candidates) + 1)
  /\ worker \in [Urls -> {"none", "fetch", "add", "count", "tell", "back"}]
  /\ fetched \subseteq Urls /\ pages \in Seq(Urls) /\ done \in Nat /\ total \in Nat

\* However many URLs lead to one page, and whichever workers meet there, the
\* crawl keeps and reports it once, and never more than MaxPages of them; the
\* progress never says more pages than it announced.
EachPageOnce ==
  /\ IsInjective(pages) /\ Len(pages) <= MaxPages
  /\ total > 0 => done <= total

\* The sitemaps within n steps of the first ones.
Near[n \in 0..MaxSitemapDepth] ==
  IF n = 0 THEN Range(Robots.maps) \cup {Default}
  ELSE Near[n - 1] \cup UNION {Range(Map[m].nested) : m \in Near[n - 1]}

\* Sitemap indexes may name each other: no map is requested that is further
\* than MaxSitemapDepth from the first ones.
SitemapsNearby == seen \subseteq Near[MaxSitemapDepth]

\* A crawl that was not cancelled returns a page, or has seen a failure, for
\* every candidate: also for those it skipped and those that led to a page
\* another worker had just added.
NothingOverlooked ==
  main = "over" /\ ~Cancelled =>
    \A k \in DOMAIN candidates :
      \/ candidates[k] \in failed
      \/ Page[candidates[k]].final \in Range(pages)
      \/ candidates[k] \in Range(pages)

\* Where the crawl is in its list of candidates, which it has from when the total
\* was announced.
StagesFollow ==
  /\ main \in {"front", "robots", "sitemaps"} =>
       candidates = <<>> /\ pos = 1 /\ Active = {} /\ total = 0
  /\ main = "front" => try \in 1..Len(Start) /\ pages = <<>> /\ done = 0
  /\ main \in {"robots", "sitemaps"} => site \in Urls
  /\ main = "place" => pos <= Len(candidates)
  /\ main \in {"wait", "over"} /\ ~Cancelled => pos = Len(candidates) + 1
  /\ main = "over" => Active = {}

\* The pages are the final URLs entered; one that has been appended, or is still
\* with a worker, belongs to a candidate already passed, or is the frontpage; and
\* what has been counted was appended before.
Coming == {u \in Urls : worker[u] \in {"fetch", "add"}}
Uncounted == {u \in Urls : worker[u] = "count"}
PagesFollow ==
  /\ fetched = Range(pages) /\ IsInjective(pages)
  /\ Len(pages) + Cardinality(Coming) <= pos
  /\ done + Cardinality(Uncounted) <= Len(pages)
  /\ Len(candidates) < MaxPages
  /\ total # 0 => total = Len(candidates) + 1

\* A candidate that was passed is with a worker, has failed, or its page is there.
PassedAreSettled ==
  \A k \in 1..(pos - 1) :
    LET u == candidates[k] IN u \in Coming \cup failed \cup fetched \/ Page[u].final \in fetched

\* The depth of a job is what it says, and none too deep was requested.
DepthsAreTrue ==
  /\ SitemapsNearby
  /\ \A k \in DOMAIN queue :
       queue[k].depth <= MaxSitemapDepth => queue[k].map \in Near[queue[k].depth]

IInv == TypeOK /\ StagesFollow /\ PagesFollow /\ PassedAreSettled /\ DepthsAreTrue

\* What every crawl comes to: it returns.
CrawlIsBack == main = "over" /\ Active = {}
=============================================================================
