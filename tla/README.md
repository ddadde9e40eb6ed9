# TLA+ models of TraceMap

TraceMap is a Qt desktop application written in Go: one process, a GUI thread
(`ui_*.go`), a toolkit-agnostic backend (`app.go`, `scrape_app.go`) and a set of
packages under `internal/` that talk to the network and to SQLite. This
directory holds TLA+ models of its control: who cancels what, which goroutine
waits for which, what is bounded by what, and in which order results reach the
screen.

## 1. Inventory

| component | state it keeps | operations | talks to |
|---|---|---|---|
| cancellation (`cancel.go`) | generation, stored cancel function; seven instances | `begin`, `end`, `stop` | every long operation of `App` |
| trace operations (`app.go`, `ui_app.go`) | per run context, semaphore, traces, GUI view | Trace, Scan, TraceTargets, TraceBlock, Cancel, Clean, the event handlers | canceler, tracerouter, geolocator, GUI queue |
| event delivery (`emit.go`, `ui_app.go`) | FIFO of closures for the GUI thread | `emit`, `handle` | everything |
| traceroute runner (`internal/tracerouter`) | one child process per trace, hop parser | `ExecuteStream` | the system's traceroute |
| geolocation (`internal/geolocator`) | memory cache, SQLite cache, circuit breaker, rate limiter | `ResolveOne`, `ResolveParallel`, cache viewer operations | `ratelimit`, remote service |
| rate limiter (`internal/ratelimit`) | next free slot | `Wait` | geolocator, subdomains |
| port scan (`internal/portscan`, `app.go`) | worker pool, per-scan counters | `Pool.Scan`, `Close`, `ScanPorts` | canceler, ping |
| ping (`internal/ping`) | waiters by address and sequence number | `Ping`, `Close` | raw socket |
| live-host discovery (`internal/hostscan`) | address iterator, live list | `Discover`, `Each`, `Count` | TraceBlock, ScanPorts |
| netcat (`internal/netcat`, `ui_netcat.go`) | sessions by id | `Connect`, `Send`, `Close`, `CloseAll`, reader | GUI windows |
| scraper (`internal/scrape`, `scrape_app.go`) | seen sets, budgets, global pause, SQLite job store | `Run`, `BeginJob`, `SavePage`, `SaveAsset`, `FinishJob`, `DeleteJob` | GUI, file system |
| subdomain discovery (`internal/subdomains`) | collector, wildcard set, cache | `Discover` | DNS, ratelimit |
| web crawl (`internal/webcrawl`) | frontier, seen set | `Crawl` | HTTP |
| country blocks (`internal/ipblocks`) | reader, two caches under a mutex | `Countries`, `Blocks`, `ClearCache`, `Close` | GUI dialog |
| history (`internal/history`) | SQLite entries | `Save`, `List`, `Load`, `Delete`, `Clear` | GUI |
| DNS records (`internal/dnscheck`) | none | `LookupAll`, `Expand`, `AllTargets` | DNS |
| domain, origin and endpoint analysis (`internal/domaincheck`, `origin`, `httpcheck`) | per-run report | one run each | canceler, HTTP, DNS |
| map and views (`internal/mapview`, `mapdata`, `ui_*`) | widgets | drawing | - |

Hard behaviour: operations are cancelled asynchronously and restarted over each
other; results travel through a queue and are not tagged with their run; worker
pools, semaphores, a rate limiter, a circuit breaker and global pauses are
shared by many goroutines; several "check, then act" sequences span an unlock
or a database call; the scrape archive is written in several steps.

What makes each component correct:

- *cancellation*: at most one run of an operation is live, the newest one is the
  one Cancel reaches, and an evicted run never takes the handle of its successor.
- *trace operations*: the number of live traces is bounded however often scans
  are restarted, completion is announced after the results it stands for, every
  operation ends and the view with it, a location belongs to the hop it is shown
  at.
- *port scan*: every port is probed at most once and all of them unless the scan
  was cancelled or the pool closed; nothing is reported after the end; the end
  comes, and what it says is true.
- *geolocation*: the breaker never refuses for ever, a failure of the service is
  covered by the local database, an answer once paid for is kept.
- *rate limiter, throttle*: distances between requests hold under cancellation,
  late wake-ups and overlapping pauses.
- *netcat*: each session is closed and announced once, whoever closes it; the
  GUI thread is not held by the goroutines it waits for.
- *scraper*: caps hold under concurrency, a page is fetched once, the archive is
  consistent after a failure, a deletion or a restart.
- *ping, discovery, crawls, country blocks*: a reply answers the request it
  belongs to, enumeration stays in the block and ends, totals are reached, a
  cached answer belongs to the question.
- *traceroute*: whatever stretch of output was read, its hops are whole.
- *subdomains, targets*: what is listed does not depend on the order of the
  sources, and a target's number is the one the view finds it by.
- *analyses and their dialogs*: what a dialog shows is a whole report of what it
  asked for, however many of them run over each other.
- *history, archive browser*: a list that is out of date never names another
  entry than the one its row was read from.

## 2. Plan and state

Built so far:

1. `CancelSlot` (abstract) and `Canceler`; `TraceOps`, which composes the
   canceler, the operation goroutines, the geolocation goroutines and the GUI
   queue; `ScanContract` (abstract) and `PortPool`; `PortScan`, which uses the
   contract; `RateLimiter`; `GeoResolver`; `Netcat`; `ScrapeThrottle`.
2. The scraper: `ScrapeCrawl`, `ScrapeArchive`, `ScrapeDesk`, `ScrapeIndex`.
   The way from a domain to its traces: `Subdomains`, `ScanTargets`, `HostScan`,
   `Ping`, `TraceRun`, `WebCrawl`. The dialogs: `Countries`, `DomainCheck`,
   `Origin`, `Endpoints`, `History`.

3. The proofs of section 6: the cancellation and the operations that use it, the
   port pool with the refinement of `ScanContract`, the limiter and the throttle
   with their bounds, the geolocation, netcat and the archive.
4. The proofs of the components that share a run with others: the crawl with its
   caps and what it covers, ping, live-host discovery, the crawl for subdomains,
   the analysis of endpoints, the port scan operation, the subdomains and targets
   of a scan, country blocks, domain analysis and origin discovery; and the modules
   `Requests`, `Dialogs` and `Scanners` that put a component's property before TLC
   and the prover as one definition.

Without theorems are `TraceRun`, `ScrapeIndex` and `History`, whose properties are
about sequences that are folded or sorted (see the end of section 6), and
`ScrapeDesk`, which promises that something happens.

## 3. The modules

Some are checked several at a time, see section 4.

### Requests, Dialogs, Scanners

Three modules that hold no state machine of their own. `Requests` extends
`RateLimiter` and instantiates `ScrapeCrawl` (`Crawl`), `Ping` (`Pinger`),
`HostScan` (`Sweep`), `WebCrawl` (`Links`) and `Endpoints` (`Http`); `Dialogs`
extends `ScrapeThrottle` and instantiates `Countries` (`Blocks`), `DomainCheck`
(`Domain`) and `Origin` (`Unmask`);
`Scanners` extends `PortPool` and instantiates `PortScan` (`Operation`),
`Subdomains` (`Discovery`) and `ScanTargets` (`Selection`). Each
gives the components' variables names of their own, assumes what the components
assume of their constants, and states their properties. The MC module of a run
extends one of them, and so does a module of proofs: what a theorem says is the
very definition TLC checks, and the assumptions of the theorem are evaluated with
the run's constants.

### Canceler, CancelSlot (`cancel.go`)

`gen` and `fn` are the struct's fields, `myGen`, `ctx` and `pc` belong to a run.
`Begin` is the locked section of `begin` (the eviction of the predecessor
included), `EndCancel` and `EndClear` are the two halves of the returned
function, between which the lock is not held, `Stop` is `stop`. `CancelSlot`
says what this is for: a slot with room for one live run. `CancelerProofs`
proves it. Its definitions carry its name, as `MCOperations` extends it together
with `Netcat`. The other modules use the canceler in its sequential form: begin
cancels the run in the slot, stop cancels it, end leaves it.

### TraceOps (`app.go`, `ui_app.go`, `ui_scan.go`)

An operation is a run of the canceler (`INSTANCE Canceler`). `stage` follows the
operation goroutine (`Trace`, `Scan`, `TraceTargets`, `TraceBlock`), `trace` the
traceroute of each target, `look` the goroutine that geolocates a hop, `queue`
the closures posted to the GUI thread. `Handle` is `uiApp.handle`, one disjunct
per group of events that changes the same parts of the view. The preparation of
a scan (DNS discovery, crawl, host discovery) is one step per outcome. Buttons
are modelled as they are enabled: only Cancel is ever disabled, so a second
operation may be started over the first. `latest`, `since` and `abandoned` are
history variables, read by properties only.

### Subdomains, ScanTargets (`internal/subdomains`, `internal/dnscheck`, `app.go`)

What `Scan` does before it traces. `Subdomains` is `Discover` with the names
already stored, the phases that run at once (the probes of the wordlist and the
names in TXT and SRV records), the reverse lookups after them, the store, and
the names a crawl adds in `App.Scan`. `rows` is the collector; `reports`, a
history variable, says who reported each name. `ScanTargets` follows the records
of the domain: `LookupAll` level by level in `Expand`, `AllTargets`, the
subdomains' addresses, the cut and the filter of IPv6 in `App.Scan`. The lookups
of a level fill slots of their own and are merged in order, so they are one step;
each of a host's queries may fail without the others (`Queries`). An SOA record
names a nameserver, which is expanded, and a mailbox, whose host is a target only
(`Named`).

### HostScan, Ping, TraceRun (`internal/hostscan`, `internal/ping`, `internal/tracerouter`)

`HostScan` has the addresses below `Space` and blocks of the `Sizes` that divide
it, which in the code are the powers of two up to 2^32; a network is its base and
its size. `Each` is the walk (`at` is its counter, which wraps as the code's
`uint32` does), each host a goroutine with its own slots for ports. `Ping` has
one reader and a set of waiters `[key, ping]`; the
reader takes the waiters of a key under the lock and wakes them after it.
`TraceRun` is the child (`script`, `written`, `exit`), the loop that reads it,
the parser's `pending` hop and `Wait`; `DisplayHops` is what `ui_model.go` makes
of the hops, and `Correlate` which traces share one that was located.

### WebCrawl, ScrapeCrawl, ScrapeThrottle (`internal/webcrawl`, `internal/scrape`)

Both crawls are a loop that hands URLs to workers and waits for all of them, on
a constant web. In `ScrapeCrawl` `main` is where `run` and `crawlSeed` are,
`worker[u]` the page a worker has in hand: fetched, its directories probed, its
assets downloaded. `ReservePage` is the compare-and-swap. `WebCrawl` has the
frontpage's candidates, `robots.txt` and the levels of sitemaps before its one
level of pages. In `ScrapeThrottle` `Follow` and `Open` are the locked section of
`wait`; a call keeps the `waitUntil` it computed there, and `Wake` does not read
`until` again. The rate limiter behind the throttle is an arbitrary wait;
`starts` and `openings` record what happened, for the properties: a request
started is the count of its call and the tick, and both are what the bound on
bursts is about.

### ScrapeArchive, ScrapeDesk, ScrapeIndex (`internal/scrape/store.go`, `scrape_app.go`, `ui_scrape*.go`)

`ScrapeArchive` splits a save where the code does: the look whether the file is
there (`SaveBegins`), its creation, which truncates one that came meanwhile
(`CreateFile`), its content, the row, the counter of the job row, the counter of
the crawl. A statement is one step, as the database has one connection.
`DeleteJob`'s statements are steps of their own (those on assets and leaks are
one, as the leaks are items like the others), and a write may fail (`faults`) or
be cut off (`Restart`). A new crawl evicts the one under way and waits for
nothing: `late` are the jobs whose crawls have not returned yet. Their context is
cancelled, so they add no rows, but they go on writing files (`LateWrite`).
`ScrapeDesk` is
the run windows, of which the newest gets every event; `ScrapeIndex` the browser,
whose queries run on the GUI thread.

### History (`internal/history`, `ui_history.go`)

`rows` is the table, `window[w]` a list as old as its last refresh. The traces
in view grow while an operation reports, and are saved and replaced meanwhile.

### PortPool, ScanContract (`internal/portscan/pool.go`)

`offer[s]` is the probe on which the submitter is blocked in its `select`,
`job[w]` the probe of a worker, `inflight[s]` the `WaitGroup`. The unbuffered
channel makes `Handoff` one step of both. A closed pool's `select` may still
choose the send, as Go picks any ready case. `Finish` is the deferred `finish`.
`mark[w]` is the value `AddInt64` returned, so `Count` and `Announce` are two
steps and workers overtake each other. What a probe finds is data: the open
ports and their lock are left out, as the append happens in the worker's step.
`ScanContract` is what a caller relies on; `Close` under a running `Scan` is
forbidden by the comment at pool.go:18 and nothing prevents it, so the contract
has it and lets such a scan come back incomplete.

### PortScan (`app.go`: `ScanPorts`, `scanPortBlock`, `pingTargets`, `pingNetwork`)

`phase` is where the operation is, `host[h]` the goroutine of a host. A host's
scan is `Pool.Scan` as `ScanContract` promises it. The modes differ as the code
does: the block's loops watch the context in their `select`, the list's loop
waits for its slot whatever happens. `opened`, `progress` and `end` are the
events emitted. One open port per host stands for any number.

### Endpoints (`app.go`: `AnalyzeEndpoints`, `internal/httpcheck`, `ui_tools.go`)

A response is the set of its traits, from which `BuildChecks` makes the
checklist and `Score` and `Grade` the grade. `run[r]` is one `AnalyzeEndpoints`
with its workers; `dialog[d]` is what a dialog lists, has selected and shows in
its panes. The events of every analysis go to the newest dialog, the batch to
the one that started it. `Normalized` and `Gathered` are loops over a list, written
as recursive functions of the step they have reached.

### Countries, DomainCheck, Origin (`internal/ipblocks`, `domaincheck`, `origin`, `ui_tools.go`)

`Countries` has a database that may be replaced, the two cached walks under one
lock, and the GUI thread, which waits for some of the walks itself; the closure of
an older query may show its blocks under a filter that was changed since, so
`ShownIsComplete` is about some family. `DomainCheck` has the three goroutines of
an analysis, of which the registration goes through the shared bootstrap index,
read and written under a lock that is not held while it is fetched, and the
checklist and its score. A DNS or a web part is a set of traits; what is said of
a record, such as that there are several, is a trait of its own. `Origin` has the
candidates and their ports, each a goroutine behind two levels of slots; `Decide`
picks the best answer when all ports are back. An endpoint that answers gives all
it serves, and one that does not gives nothing; the handshake with an unknown name
(`Variance`) may fail at any candidate, and then leaves no mark.

### RateLimiter (`internal/ratelimit`)

`Reserve` is the critical section of `Wait`; waking and cancellation come after
the unlock. Time is a discrete clock that may run ahead of a sleeper.

### GeoResolver (`internal/geolocator`)

`pc[l]` is the point `ResolveOne` has reached; each access to the memory cache,
the database or the breaker is a step, because the locks are released between
them. `until` is the breaker's `openUntil` (zero, in the future, past).
`RecordHealthy` and `RecordUnhealthy` are `record`; `Verdict` is `!retryable`.
`Forget` and `Delete` are the two halves of `DeleteCacheEntry`. Answers of the
service are numbered so that an old and a new one differ. The database of the
cache may be missing or refuse a write, whose error the code drops: `Put` then
leaves it as it is, and `refused` remembers it. The local database is a constant.
The wait for the limiter is one step.

### Netcat (`internal/netcat`, `ui_netcat.go`)

`gui` is what the GUI thread is doing, as it calls `Connect`, `Send` and `Close`
synchronously. `once[s]` is who is inside the session's `sync.Once`, `stage[s]`
how far that close has come: connection, registry, `OnClose`. `queue` holds the
events on their way to the GUI. `Quit` is the end of the event loop and
`CloseAll`. `Send` writes without a deadline: it ends when the peer reads
(`Written`) or the connection fails (`WriteFails`), and the peer may do neither.

## 4. Runs

The runs `archive`, `operations`, `requests`, `dialogs` and `scanners` check several
modules that share no state. The module named in the table is extended or
instantiated by the MC module or by the module of section 3 that this extends. A
variable `focus` says which of them a behaviour is about, and the variables of
the others stay what they are at first. Such a run is the sum of the runs of its
modules, not their product: no module sees another. A property of the run names
what it takes from the modules, their type and inductive invariants included;
its definition lists the parts.

| run | what it shows | modules and bounds |
|---|---|---|
| `archive` | `ArchiveHonest`: rows have files, counters agree with rows, announced is stored. `DeletionIsFinal`: a deleted job stays deleted and its number is not used again. `RowsOfSelection`: browser and history rows belong to what they name | `ScrapeArchive` (2 workers, 2 jobs of which the second may evict the first, a page and two assets of one body, 1 fault, 1 deletion), `ScrapeIndex` (3 jobs), `History` (1 window, 2 entries, 2 targets, a clock that may go back) |
| `operations` | `NewestCancellable`, `SlotSpec`: the canceler. `HopsAreWhole`. `OperationsReturn`: all of them return. `StartComesBack`: the run window can be used again. `WindowsHearOfEnds`: netcat windows, sessions and shutdown agree. `ClosedIsLast`. `CloseNeverHangs`: only a peer can hold the GUI thread, and every end is announced | `Canceler` (4 runs), `ScrapeThrottle` (2 workers), `ScrapeDesk` (2 windows, 2 runs), `TraceRun` (3 outputs cut anywhere), `Netcat` (2 windows, 2 sessions, 1 chunk each) |
| `requests` | `Spaced`. `CapsHold`, `CrawlCovers`: limits, and what a crawl that nothing cut short has covered. `PingsAreHonest`: waiters are found, only hosts that answered are alive. `DiscoveryIsExact`: every address of any block visited once, live hosts exact. `LinksAreFollowed`: one page once, sitemaps near, nothing overlooked. `ListsAreCoherent`: endpoint lists agree with panes, grades and requests. `RequestsEnd`: crawls, pings, discoveries and analyses return | `RateLimiter` (4 calls, interval 2, 4 ticks), `ScrapeCrawl` (6 pages, 2 seeds, 2 workers, three requests with and without tight limits), `Ping` (3 calls, numbers that wrap at 2, 1 stray reply), `HostScan` (every block of 8 addresses, 2 hosts at once, 2 ports), `WebCrawl` (6 pages, 4 sitemaps with a cycle, 2 workers), `Endpoints` (3 endpoints with a duplicate, limit 2, 2 at once, 2 dialogs, 2 analyses) |
| `dialogs` | `ShownIsComplete`: the blocks shown are all of the country. `AnalysesAreApart`: one bootstrap for all, and reports made of all three parts. `OriginVerdicts`: the verdict is what all answers deserve in any order, and what reaches the map has served something of the domain. `DialogsServed`: every wait ends. Apart from the dialogs, the throttle of the scraper: `PauseHolds`: no call passes before the end of a cooldown opened before its turn. `BurstBounded`: in a stretch as long as the pause fewer requests start than `DelayEvery` and one per worker | `Countries` (2 databases, 3 operations, all families or IPv4 only, which stands for IPv6 only as well), `DomainCheck` (2 dialogs), `Origin` (3 candidates, 2 ports), `ScrapeThrottle` (3 workers, every 2, pause 2, 3 ticks) |
| `scanners` | `NothingAfterReturn`, `ContractSpec`: the pool. `QuietAfterEnd`: the terminal event is last. `ReportsAreTrue`: totals are announced once, the terminal event is true. `TargetsAreHonest`: the source of a name is the best that reported it, wildcards add nothing, reverse lookups see all addresses; numbers are positions and delegations end. `ScansEnd`: calls of the pool, operations and discoveries come back | `PortPool` (2 workers, 2 scans, 2 ports), `PortScan` (3 hosts, 2 slots), `Subdomains` (3 names, 4 addresses, a wildcard, 2 scans one after the other, a collector of 2), `ScanTargets` (4 hosts that delegate in a cycle, 3 levels, limit 3) |
| `trace_overlap` | `LocationFindsRow`: a location goes into the row of its own hop and run and no other, unless a late row of another run has the same number | 2 traces or block scans over each other, one hop, queue of 2 |
| `trace_live` | `LiveTracesBounded`. `OperationsEnd`: operations and the busy state end. `TargetsReported`. `CompleteMeansSettled`: when the end of the scan in view is announced, each target is shown as done or failed | 2 scans over each other, 2 targets, 1 slot |
| `geo` | `BreakerTrapsNobody`: a refusing breaker has a probe under way, and with a local database only a cancelled lookup fails. `AnswerPersisted`: an answer returned is in the database, unless that is missing or refused it, or a deletion removed it. `LookupsEnd` | 2 goroutines without end, 1 address, trip at 2 failures, 2 attempts |
| `trace_geo_dropped` | violated: see section 7 | 1 trace, 1 hop |
| `netcat_handshake` | violated: see section 7 | 1 window |
| `country_unknown` | violated: see section 7 | as `dialogs` |
| `origin_sni` | violated: see section 7 | as `dialogs` |

Why these sizes are enough. The races are between two actors and, where a third
matters (a cooldown opened while two calls wait out another), three are there;
two items suffice for "one is done, one is not"; limits are below the number of
contenders so that everybody waits somewhere; with one slot and two targets a
leaked slot blocks. The webs, zones and outputs are constants chosen so that the
interesting shapes are in them: cycles, duplicates, a redirect off the site, a
page at the last level, a name only a wildcard answers for, a hop over several
lines. Eight addresses contain every kind of block, from a single address to the
whole space, the last address included. The limiter's horizon leaves room for
two full intervals, the throttle's for a pause and for one that is opened while
the first lasts. `QueueCap` bounds the closures waiting for the GUI thread: with
two a producer can be a step ahead of the handler and order is visible, and a
full queue only delays a goroutine, which a slow goroutine does anyway.
Constants named `Max...`, and `Horizon`, cap what grows without end; those that are limits of the code (`MaxPages`,
`MaxResults`, `MaxNSHosts`, ...) say so where they are declared.

Deadlock is not checked (`CHECK_DEADLOCK FALSE`): in each of these systems
everything may be finished, and a blocked state that should not be is what the
liveness properties exclude. Symmetry is used only in runs without liveness.

## 5. Fairness

- Goroutines that can step do so (Go's scheduler), one weak fairness condition
  per goroutine, or one for all where each of them ends. In `TraceOps` that
  includes the traceroutes, which end by themselves or at `tracerouter`'s timeout
  of 30 seconds; in `TraceRun` the timeout itself is fair, the child is not.
- The GUI thread handles posted closures (Qt's event loop).
- A probe, a ping, a dial, a request and a lookup attempt end by their timeouts;
  the breaker's cooldown elapses.
- Nothing is assumed of the user, of the peer of a connection (so a TLS
  handshake or a write may last for ever), of replies (so a ping may get none), of whoever
  cancels or closes, or of the clock of `ScrapeThrottle`, where a cancelled pause
  must end although time stands still.
- `ScrapeArchive`, `ScrapeIndex`, `ScanTargets` and `History` promise nothing
  that must happen in the end, and are checked without fairness.

## 6. Proofs

All proofs are checked by `tlapm` for every value of the constants that meets the
named assumptions: finite sets of workers, ports, calls and URLs; natural limits;
positive intervals, sizes and wrap-arounds; a "none" value outside the set it
completes; in `ScrapeCrawl` a web closed under its links where pages of one host
are of one domain, in `WebCrawl` pages and sitemaps closed under theirs; in
`HostScan` sizes that divide the space. TLC evaluates each
of these assumptions in a run.

- `CancelerProofs`. `Invariance`: the invariant says that generations are
  distinct and not above `gen`, that the handle is that of the newest
  generation, and that a run without the handle has a cancelled context.
  `NewestCancellable` alone is not inductive: that a late `EndClear` leaves its
  successor alone follows from the distinct generations. `Cancellable`,
  `OneLiveRun` and `HandleCorrect` follow from it, and `Refinement` maps every
  step of `Canceler` to one of `CancelSlot` or to a stutter.
- `ScannerProofs`, the pool. `Invariance`: the `WaitGroup`'s counter is the number of
  probes offered plus the number in workers' hands (`InflightExact`), which
  needs that a worker has a job exactly in the middle of its loop and that only
  a submitting scan has an offer. `QuietAfterReturn`: a scan that has returned
  had a counter of zero, so no worker holds a probe of it. `PortsAccounted`
  follows each port: offered once, with one worker, reported once, and lost only
  by a scan that was cut short. From both comes `Refinement`: a scan that returns
  uncut waited for a counter of zero with every port offered, so every port is
  reported, as `ScanContract` says. `CountsAreExact`: `done` is the number of
  ports reported, and the values of it that are on their way to the observer
  (`mark`) differ from each other and from those it was given; so the total, the
  last value, is announced once (`TotalOnce`). The cardinalities go through
  `FiniteSetTheorems`, one element added or removed at a time.
- `ScannerProofs`, the operation. `ScanInvariance`: goroutines run only in the phases
  that have them (`HostsFollowPhase`), the sweep has checked what it has pinged
  (`SweepIsCounted`), the open ports counted and those that may still come are not
  more than the hosts (`OpenIsCounted`), and the values `AddUint64` has returned
  are 1 to `completed` without a gap, each with one host (`MarksAreOneToN`), from
  which it follows that a block announces every count once. `ReportsStayTrue` and
  `ScanQuietAfterEnd` follow: `DoneIsTrue` alone is not inductive, as the end reads
  counters that the hosts' goroutines write.
- `ScannerProofs`, what a scan lists and traces. `ScanTargetsStayHonest`: of the
  discovery the source of a row is the best that reported it, row by row as the
  collector takes a report; the phases follow each other (`PhasesFollow`), so the
  reverse lookups start when all addresses are known. Of the targets, lists are
  built from the positions of what is new (`Firsts`, `At`): there is one position
  for every number up to their count, by a smallest counter-example, so nothing is
  there twice and the order stays; a list flattened from lists of targets is a
  list of targets (`FlattenTargets`). A target's number is its position when it is
  added, and again after the filter.
- `RequestProofs`, the limiter. `SlotInvariance`: slots are an interval apart and all
  before `next`. `AlwaysSpaced` follows: due times are, as a slot is never
  before its call's arrival.
- `RequestProofs`, the crawl. `CrawlInvariance`: a URL has a worker at most once,
  and only after it was marked as seen (`WorkersAreOnce`), no worker outlives its
  level (`LevelsAreJoined`), a level is on the domain of its seed (`LevelOnDomain`).
  Assets are counted after their download, so the limit itself is no invariant:
  from when it is reached, what exceeds it and what may still be counted together
  are at most one per worker (`ExcessIsUnderWay`). `CapsAlwaysHold` follows.
  `CrawlsCover` is a statement about reachability in the web. Its invariant says
  that every page seen is fetched, failed, with a worker or still to be placed
  (`SeenAreTaken`), and that there are levels (`LevelsExist`): a number per URL
  such that what is linked from a page fetched at one level is seen at that level
  or the next. At the end they put every URL within `Depth` links among those
  seen; the step from `n` links to `n + 1` uses that `<` is well-founded, applied
  to the set of counter-examples.
- `RequestProofs`, ping. `PingHonesty`: a waiter stands under its own key
  (`WaitersAreOwn`), so a call that leaves takes none but itself away though
  numbers come round; replies under way are those of calls that were answered
  (`RepliesAreOwn`), and whoever was woken has an answered call of its host
  (`WakingIsEarned`).
- `RequestProofs`, discovery. `DiscoveriesAreExact`: the walk is ahead of what was
  visited by exactly one address, or has wrapped after the last (`WalkIsAhead`); a
  host's dials are those of its ports so far (`DialsAreHonest`); the list and the
  counter follow the hosts that are through (`ListFollowsProbes`,
  `CountFollowsHosts`). That the block ends within the space, whatever the
  arithmetic of its last address, comes from base and space being multiples of the
  size (`BlockFits`).
- `RequestProofs`, the crawl for subdomains. `SubdomainCrawlKeepsItsWord`: pages
  entered and candidates still with a worker are at most the candidates passed,
  the frontpage included, and what was counted had been entered (`PagesFollow`),
  from which the limit follows whichever workers meet at one page. A candidate
  that was passed is with a worker, has failed, or its page is there
  (`PassedAreSettled`): that is what is left when all are back. The depth a job
  carries is a distance from the first sitemaps (`DepthsAreTrue`). The queue, the
  list of candidates and the sets of near maps are built by recursive functions
  along a sequence; that such a function exists is `RecursionExists`, and what its
  values are made of is `KeptIn`, both by a smallest counter-example instead of an
  induction.
- `RequestProofs`, the analysis of endpoints. `EndpointListsStayTrue`: an analysis
  has a report of its endpoint exactly where its worker is through
  (`ReportsFollow`), only the one in the slot has a usable context (`OneIsLive`),
  and what is on its way to a dialog is honest and names no URL twice
  (`PostedAreHonest`). A list stays coherent under a result, a batch, a selection
  and a restart one by one (`ResultIsListed`, `BatchIsListed`), whichever analysis
  they come from. What the loops return is proved for every list
  (`NormalizedOnce`, `GatheredReports`): if all reports are filled, they are what
  is gathered. That a failed check costs the best grade needs the checklist to be
  finite (`ChecksAreCounted`).
- `DialogProofs`, the throttle. `Invariance`: cooldowns end in the order in which they
  were opened, as the clock does not run backwards, and a call's deadline covers
  every cooldown opened by a call not after it. `PauseRespected` follows.
  `StartsApart` is about one cooldown: the calls up to the one that opened it and
  not started by then were in workers' hands, so at most one per worker starts
  later (`LateBounded`), while those after it start when it is over.
  `BurstsAreBounded`: take the request with the largest count in a stretch as
  long as the pause, and the last multiple of `DelayEvery` not above it. The call
  with that multiple opened a cooldown, which this request has waited out; so the
  stretch begins after the cooldown was opened. A request in it was either called
  later, and those counts are fewer than `DelayEvery`, or is late for that
  cooldown, and those are at most one per worker. The largest count and the last
  multiple come from well-foundedness of `<`, not from an induction.
- `DialogProofs`, country blocks. `CountriesAreComplete`: a walk has collected the
  country's blocks among the networks it has read (`OpsAreHonest`), what is kept
  under a known country is all of it (`CacheIsComplete`), the slot holds an
  operation that has not ended (`SlotIsLive`), and a result is posted once
  (`PostedOnce`). The unknown country is excepted, and section 7 says why.
- `DialogProofs`, domain analysis. `AnalysesStayApart`: an invariant, that what is
  on its way to a dialog is whole, which is the report of three parts that have
  ended (`EventsAreWhole`), and of a dialog that was opened (`AnalysesAreOpened`);
  and an action property, that the bootstrap once fetched stays: a fetch that comes
  second finds it there under the lock.
- `DialogProofs`, origin discovery. `OriginsAreDeserved`: of a run that nobody
  cancelled a probe has the evidence of exactly the ports that have answered
  (`HitsAreAnswers`), so the verdict, taken when all are back, is that of all
  answers together (`VerdictsFollowProbes`), with a mark for the unknown name only
  where its handshake succeeded; and what is located on the map has served
  something of the domain (`OriginsReachTheMap`).
- `GeoResolverProofs`. `Invariance`: whoever was admitted half-open is on its way
  to a record (`ProbesRecord`), an attempt is left while a lookup waits for one
  (`AttemptsLeft`), and an answer in hand was given by the service
  (`AnswersGiven`). `NobodyTrapped` needs the first two: a refusal has a probe to
  wait for, and a lookup that fails with a local database has been cancelled.
  `Persisted` needs the third, as a deletion is remembered by the newest answer
  it may have removed; it excepts the lookups whose write the database refused.
- `NetcatProofs`. `Invariance`: what the once, the registry and the connection
  say of a session agree at every stage of its close (`CloseInOrder`), what the
  GUI thread is in the middle of (`GuiBusy`), and the end of a session that a
  window shows, or is about to show, is queued (`EndsQueued`): that is what a
  window that missed the first event would violate. `EndsAreHeard`,
  `NothingAfterClosed` and `OneAnnouncement` follow, for any number of windows
  and sessions.
- `TraceOpsProofs`. `Invariance` speaks of the queue of closures: after its first
  `n` closures are handled the view has the row (`RowBy`) or the verdict
  (`SettledBy`) that the next one relies on. The operations change the canceler's
  variables by its own actions only (the lemma `UsesCanceler`), so its theorems
  hold of the application's contexts; with them and `SlotsBounded` comes
  `FewTracesLive`, as only one run is live. `CompleteIsSettled` and
  `LocationsHaveRows` are read off the head of the queue: the row of the
  location's own hop and run is in the view, so without rivals the first row with
  its number is that row.
- `ScrapeArchiveProofs`. `Invariance`: an item of the crawl waits, is with one
  callback or has its row, and never two of these (`ItemsOnce`), so an insert
  adds a row and not a copy; the rows of the crawl are the items counted and
  those about to be (`CountersFollow`), and the job row lags behind only after
  the context has ended or a write has failed; what a callback is about to name
  in a row is on disk (`FilesFollow`); a deletion of a job that is not the crawl's
  goes on with what is left (`DeletionsFollow`). All of it is said only of jobs
  nobody has asked to delete, where the code promises nothing. `Honest` and
  `DeletionFinal` follow, with failing writes, restarts, deletions and crawls that
  outlive their eviction at any step. That the file of a row is whole is not
  claimed, as it is false: see section 7. `ArchiveHonest` alone is not inductive: a save in three steps breaks it
  from a state in which the file of a row to come is missing.

Only model-checked, and why:

- liveness (the provers do not treat fairness and `ENABLED`), and of
  `StartComesBack` what it says besides;
- properties of sequences that are folded or sorted: `HopsAreWhole` (the parser
  over the lines of the output), `RowsOfSelection` (sorted rows).
  What the folds of the library compute for every input needs an induction over
  the data with the operator as a parameter. Where a module needs sets and numbers
  only, or a loop that is written as a recursive function, well-foundedness of `<`
  does instead, as for the burst of requests, the levels of a crawl, the lists
  of endpoints and the targets of a scan;
- the runs of section 7.

No module that theorems are about declares a RECURSIVE operator.

## 7. Where the code and its comments part

Shown by a run:

- `trace_geo_dropped`. `Trace` ends its context when the traceroute is over,
  while the lookups of its hops may still be in flight; such a lookup fails and
  is dropped, though nobody cancelled anything and the comment at app.go:2328
  promises an event so that the hop stops being pending.
- `netcat_handshake`. The comment at netcat.go:39 says that the timeout bounds
  the TLS handshake; the handshake gets the application's context, which has no
  deadline, and runs on the GUI thread.
- `country_unknown`. Networks without a country have the empty code, which
  `Countries` lists, and the empty code is also the key of the cache before the
  first walk and after it was cleared: `Blocks` then returns the empty cache,
  though the comment at ipblocks.go:262 says that it "returns every network owned
  by country".
- `origin_sni`. The comment at probe.go:138 calls the handshake with an unknown
  name "a supporting signal, never decisive on its own", and README.md:111 of the
  repository "supporting evidence". `classify` (origin.go:394) answers proxy
  because of it alone, also for an address that serves favicon and body; its test
  ("sni variance wins") expects that.

Also in the models, and read off the code rather than shown by a run of their own:

- README.md:108 of the repository says that an address is confirmed only when it
  is "not a current DNS answer for the domain". The code asks that only of a
  target whose baseline looks proxied, as the comment at origin.go:273 says it
  should (`IsFront` in `Origin`).
- The comment at origin.go:27 defines a confirmed origin as one that serves the
  certificate "plus its favicon or body"; `classify` confirms one by favicon and
  body and does not ask for the certificate (`Classify`).
- `clean` stops what is in flight "so late events cannot repopulate the view"
  (ui_app.go:805), but waits for nothing: an event that was queued adds its trace
  to the view again (`Clean`, then `Handle` in `TraceOps`).

Behaviours the models also have, kept out of the runs because a property about
them would repeat a line of the code:

- The Cancel button is disabled by the first target of a scan that is done, and
  by the end of an evicted run while its successor goes on; pressed before the
  goroutine has called `begin` it cancels nothing (`OnDone`, `OnFinished`,
  `StopOps` with `fn = NoRun`). README.md:153 of the repository says "at any time".
- Events carry the target and not the run, so a late location may be written to a
  hop of the next trace, and one of that trace to a late row (`Rivals`).
- A list scan cancelled during its ping sweep returns without a terminal event
  (`ReturnCancelled`, app.go:1047), and the sweep of a block that is cancelled
  has counted a host it did not ping (`PingNext`, `PingStop`).
- A lookup admitted before the breaker opened clears the mark of a probe under
  way, and a cancelled lookup counts as healthy (`RecordHealthy`). An entry
  deleted in the viewer may return to memory through a lookup that read the row
  between `Forget` and `Delete`; an expired one is still answered from memory.
- A call that sleeps through one cooldown of the throttle does not notice the
  next (`Wake`), and the pause comes before the N-th request, not after it.
- A row of the archive may name a file that is not whole: a callback that finds
  the file of another one names it while it is being written, two that both found
  none truncate and write it one after the other, and a crawl that was evicted
  goes on writing.
- A killed program leaves its scrape job `running`, and no later start repairs
  it (scrape_app.go:256). A job deleted while it is crawled gets rows and files
  without a job row.
- A later seed of a scrape skips pages that an earlier one has seen, also when
  the earlier one stopped at them; so only the first seed covers its depth.
- The context menu of the assets table looks an asset up by its row in the
  unfiltered list (ui_scrape.go:972 and 999, `fillScrapeAssetTable` and `scrapeAssetAt`).
- A crawl without DNS discovery, or one whose cached rows could not be loaded,
  stores every name it found with the crawl as its source, also when the row had
  a better one (app.go:921), and the next scan starts from that row.
- The list of targets is cut before it is filtered (app.go:723): a domain with
  reachable addresses only beyond the cut is announced as having none.
- A bootstrap fetch that was cancelled is kept as the error of every later
  analysis (rdap.go:147). A registration without a DNSSEC status counts as signed
  when WHOIS says "unsigned". A cancelled unmasking skips the certificate check
  of a candidate that had answered, and one whose ports were not dialled is said
  to be dead.
- The custom rules of an unmasking are those ticked when its dialog was opened.
  Opening another country database closes the reader under a walk of the old
  one, which then fails (app.go:2064).
- The results of an endpoint analysis go to the newest dialog, whichever started
  it, and the batch of an overtaken one replaces a newer list of its own dialog.
  The panes are not redrawn when the selected report is replaced. A site without
  HTTPS avoids the check for HSTS and scores 95 where the same site with HTTPS
  scores 88.
- Loading a history entry does not stop a running operation: its later hops join
  the loaded paths whose number they share, and are saved with them.

## 8. Not modelled

PROJECT.json lists every part with its state. Left out for good, because they
keep no state or are data:

- drawing and geometry on floating point (`mapview`, `mapdata`), widgets, fonts,
  settings and the text of reports;
- the parsing of replies, pages and banners and the normalisation of hosts and
  URLs: the modules start from what they yield (a record, a set of traits, a URL
  that equals another when normalised alike), and every outcome the parser may
  have is a choice;
- service probes, the wordlist and the fingerprints of technologies, which are
  tables;
- file paths, connection pragmas, full-text search.

Partly modelled parts lack what their note in PROJECT.json says: mostly queries
that change no state and progress messages that only change a line of text.
