----------------------------- MODULE Subdomains -----------------------------
(***************************************************************************)
(* Subdomain discovery: Discover of src/internal/subdomains, its store,    *)
(* and what App.Scan does with the names that Discover and the web crawl   *)
(* return (src/app.go).  The DNS is a constant; lookups may also fail.     *)
(* Scans run one after the other and share the store.                      *)
(***************************************************************************)
EXTENDS Integers, FiniteSets, SequencesExt

CONSTANTS Names,      \* the strict subdomains of the domain
          Ips,        \* every address met
          Forward,    \* [Names -> SUBSET Ips]
          Backward,   \* [Ips -> SUBSET Names]: the PTR records
          Apex,       \* the domain's own addresses
          WildIps,    \* what a wildcard zone answers with
          Public,     \* the addresses for which netutil.IsPublicIP holds
          Block,      \* [Ips -> its /24, or "none" for an IPv6 address]
          Words,      \* the names that the wordlist probes
          Services,   \* [source, name] of TXT and SRV records, a sequence
          Crawled,    \* the names a crawl can find
          Requests,   \* [brute, services, ptr, sweep, crawl: BOOLEAN]
          Concurrency, MaxResults, MaxBlocks, MaxScans

Sources == {"brute", "spf", "dmarc", "srv", "ptr", "crawl"}
SourceRank == [s \in Sources |->
  CASE s = "brute" -> 5 [] s = "spf" -> 4 [] s = "dmarc" -> 3
    [] s = "srv" -> 2 [] s = "ptr" -> 1 [] OTHER -> 0]

ServiceRecords == [source : {"spf", "dmarc", "srv"}, name : Names]

NamesAssumption ==
  /\ Forward \in [Names -> SUBSET Ips] /\ Backward \in [Ips -> SUBSET Names]
  /\ Apex \subseteq Ips /\ Words \subseteq Names /\ Crawled \subseteq Names
  /\ Services \in Seq(ServiceRecords) /\ MaxScans \in Nat

VARIABLES
  scan, opts, ctx,
  main,        \* where Scan and Discover are
  rows,        \* the collector: [Names -> [source, ips]]
  seedIps, wild,
  words,       \* the words still to probe
  probing,     \* the workers' words
  services,    \* what the services goroutine has still to add
  queue,       \* the addresses of the reverse lookups under way
  known,       \* the addresses they started from
  store,       \* the table subdomain, like rows
  reports      \* history: [Names -> sources merged into its row in this scan]

phases == <<seedIps, wild, words, probing, services, queue, known>>
vars == <<scan, opts, ctx, main, rows, phases, store, reports>>

Missing == [source |-> "none", ips |-> {}]
Empty == [n \in Names |-> Missing]
In(table) == {n \in Names : table[n].source # "none"}
IpsOf(table) == UNION {table[n].ips : n \in Names}

Init ==
  /\ scan = 0 /\ opts = [brute |-> FALSE, services |-> FALSE, ptr |-> FALSE, sweep |-> FALSE, crawl |-> FALSE]
  /\ ctx = "live" /\ main = "idle"
  /\ rows = Empty /\ store = Empty
  /\ seedIps = {} /\ wild = {} /\ words = {} /\ probing = {} /\ services = <<>>
  /\ queue = {} /\ known = {}
  /\ reports = [n \in Names |-> {}]

Cancelled == ctx = "cancelled"

-----------------------------------------------------------------------------
(* The collector, always under its lock.                                   *)

\* Faulty variant: the source of the first report stays.
AddFirst(table, n, source, ips) ==
  IF n \in In(table) THEN [table EXCEPT ![n].ips = @ \cup ips]
  ELSE IF Cardinality(In(table)) >= MaxResults THEN table
  ELSE [table EXCEPT ![n] = [source |-> source, ips |-> ips]]

Best(s, t) == IF SourceRank[s] > SourceRank[t] THEN s ELSE t

Merged(row, source, ips) == [source |-> Best(source, row.source), ips |-> row.ips \cup ips]

Add(table, n, source, ips) ==
  IF n \in In(table) THEN [table EXCEPT ![n] = Merged(@, source, ips)]
  ELSE IF Cardinality(In(table)) >= MaxResults THEN table
  ELSE [table EXCEPT ![n] = [source |-> source, ips |-> ips]]

Report(n, source, ips) ==
  /\ rows' = Add(rows, n, source, ips)
  /\ reports' = [reports EXCEPT ![n] = IF n \in In(rows') THEN @ \cup {source} ELSE @]

\* The names of an address, in the order of its PTR records: of those that are
\* new, as many as there is room for.
ReportPtr(ip, taken) ==
  /\ LET fresh == Backward[ip] \ In(rows)
     IN /\ taken \subseteq fresh
        /\ Cardinality(taken) = Min({Cardinality(fresh), MaxResults - Cardinality(In(rows))})
  /\ rows' = [n \in Names |->
       IF n \in taken THEN [source |-> "ptr", ips |-> {ip}]
       ELSE IF n \in Backward[ip] \cap In(rows) THEN Merged(rows[n], "ptr", {ip})
       ELSE rows[n]]
  /\ reports' = [n \in Names |-> IF n \in Backward[ip] \cap In(rows') THEN reports[n] \cup {"ptr"} ELSE reports[n]]

-----------------------------------------------------------------------------
(* Scan and Discover, up to the discovery phases.                          *)

NeedsDNS(r) == r.brute \/ r.ptr \/ r.sweep \/ r.services

Start(r) ==
  /\ main = "idle" /\ scan < MaxScans /\ (NeedsDNS(r) \/ r.crawl)
  /\ scan' = scan + 1 /\ opts' = r
  /\ main' = IF NeedsDNS(r) THEN "load" ELSE "crawl"
  /\ UNCHANGED <<ctx, rows, phases, store, reports>>

Cancel ==
  /\ main # "idle" /\ ~Cancelled
  /\ ctx' = "cancelled"
  /\ UNCHANGED <<scan, opts, main, rows, phases, store, reports>>

\* The cached names enter the collector first, as many as it takes.
Load(ok, kept) ==
  /\ main = "load"
  /\ ok => ~Cancelled
  /\ kept \subseteq In(store)
  /\ IF ok THEN Cardinality(kept) = Min({Cardinality(In(store)), MaxResults}) ELSE kept = {}
  /\ rows' = [n \in Names |-> IF n \in kept THEN store[n] ELSE Missing]
  /\ reports' = [n \in Names |-> IF n \in kept THEN {store[n].source} ELSE {}]
  /\ main' = "seed"
  /\ UNCHANGED <<scan, opts, ctx, phases, store>>

\* The apex is resolved and random labels are probed; each may fail.
Seed(apex, wildcard) ==
  /\ main = "seed"
  /\ apex \in {Apex, {}} /\ wildcard \in {WildIps, {}}
  /\ Cancelled => apex = {} /\ wildcard = {}
  /\ seedIps' = IpsOf(rows) \cup apex
  /\ wild' = wildcard
  /\ words' = IF opts.brute THEN Words ELSE {}
  /\ services' = IF opts.services THEN Services ELSE <<>>
  /\ main' = "discover"
  /\ UNCHANGED <<scan, opts, ctx, rows, probing, queue, known, store, reports>>

\* The loop hands every word to a worker, whatever the context says.
Spawn(n) ==
  /\ main = "discover" /\ n \in words
  /\ Cardinality(probing) < Concurrency
  /\ words' = words \ {n}
  /\ probing' = probing \cup {n}
  /\ UNCHANGED <<scan, opts, ctx, main, rows, seedIps, wild, services, queue, known, store, reports>>

\* The limiter gives up under a cancelled context; a lookup may fail.
ProbeFails(n) ==
  /\ n \in probing
  /\ probing' = probing \ {n}
  /\ UNCHANGED <<scan, opts, ctx, main, rows, seedIps, wild, words, services, queue, known, store, reports>>

Probe(n) ==
  /\ n \in probing /\ ~Cancelled
  /\ LET ips == Forward[n] \ wild
     IN IF ips = {} THEN UNCHANGED <<rows, reports>> ELSE Report(n, "brute", ips)
  /\ probing' = probing \ {n}
  /\ UNCHANGED <<scan, opts, ctx, main, seedIps, wild, words, services, queue, known, store>>

\* One host of an SPF, DMARC or SRV record: kept when it resolves.
AddService(ok) ==
  /\ services # <<>>
  /\ LET s == Head(services)
         ips == IF ok /\ ~Cancelled THEN Forward[s.name] ELSE {}
     IN IF ips = {} THEN UNCHANGED <<rows, reports>> ELSE Report(s.name, s.source, ips)
  /\ services' = Tail(services)
  /\ UNCHANGED <<scan, opts, ctx, main, seedIps, wild, words, probing, queue, known, store>>

\* Both phases are over.  The reverse lookups start from the addresses known
\* now; asking for the sweep asks for them.
Join ==
  /\ main = "discover" /\ words = {} /\ probing = {} /\ services = <<>>
  /\ known' = IpsOf(rows) \cup seedIps
  /\ queue' = known' \cap Public
  /\ main' = IF opts.ptr \/ opts.sweep THEN "ptr" ELSE "save"
  /\ UNCHANGED <<scan, opts, ctx, rows, seedIps, wild, words, probing, services, store, reports>>

\* One reverse lookup, of the known addresses or of the sweep; a cancelled
\* context ends both at once.
LookupAddr(ip, ok) ==
  /\ main \in {"ptr", "sweep"} /\ ip \in queue /\ ~Cancelled
  /\ IF ok THEN \E taken \in SUBSET Backward[ip] : ReportPtr(ip, taken) ELSE UNCHANGED <<rows, reports>>
  /\ queue' = queue \ {ip}
  /\ UNCHANGED <<scan, opts, ctx, main, seedIps, wild, words, probing, services, known, store>>

ReverseStops ==
  /\ main \in {"ptr", "sweep"} /\ queue # {} /\ Cancelled
  /\ queue' = {} /\ main' = "save"
  /\ UNCHANGED <<scan, opts, ctx, rows, seedIps, wild, words, probing, services, known, store, reports>>

\* The netblocks of the addresses the phase started from, MaxBlocks at most.
Sweep(blocks) ==
  /\ main = "ptr" /\ queue = {}
  /\ LET near == {Block[ip] : ip \in known} \ {"none"}
     IN blocks \subseteq near /\ Cardinality(blocks) = Min({Cardinality(near), MaxBlocks})
  /\ queue' = IF opts.sweep THEN {ip \in Ips : Block[ip] \in blocks} ELSE {}
  /\ main' = "sweep"
  /\ UNCHANGED <<scan, opts, ctx, rows, seedIps, wild, words, probing, services, known, store, reports>>

ReverseEnds ==
  /\ main = "sweep" /\ queue = {}
  /\ main' = "save"
  /\ UNCHANGED <<scan, opts, ctx, rows, phases, store, reports>>

-----------------------------------------------------------------------------
(* The store, and the names of the crawl.                                  *)

\* One transaction; under a cancelled context, or without the disk, nothing.
Upsert(fresh, ok) ==
  store' = [n \in Names |-> IF ok /\ ~Cancelled /\ n \in In(fresh) THEN fresh[n] ELSE store[n]]

Save(ok) ==
  /\ main = "save"
  /\ Upsert(rows, ok)
  /\ main' = IF opts.crawl THEN "crawl" ELSE "list"
  /\ UNCHANGED <<scan, opts, ctx, rows, phases, reports>>

CrawlRow(n) == [source |-> "crawl", ips |-> Forward[n]]

\* mergeSubdomainResults: the source already recorded stays.
Merge(found) ==
  [n \in Names |-> IF n \notin found THEN rows[n]
                   ELSE IF n \in In(rows) THEN [rows[n] EXCEPT !.ips = @ \cup Forward[n]]
                   ELSE CrawlRow(n)]

\* persistCrawlSubdomains saves the names that the discovery of this scan did
\* not return, then the lists are merged.
CrawlReturns(found, ok) ==
  /\ main = "crawl" /\ found \subseteq Crawled
  /\ Upsert([n \in Names |-> IF n \in found \ In(rows) THEN CrawlRow(n) ELSE Missing], ok)
  /\ rows' = Merge(found)
  /\ reports' = [n \in Names |-> IF n \in found THEN reports[n] \cup {"crawl"} ELSE reports[n]]
  /\ main' = "list"
  /\ UNCHANGED <<scan, opts, ctx, phases>>

\* The scan:subdomains event; what was local to the scan is gone.
List ==
  /\ main = "list"
  /\ main' = "idle" /\ ctx' = "live"
  /\ rows' = Empty /\ reports' = [n \in Names |-> {}]
  /\ seedIps' = {} /\ wild' = {} /\ known' = {} /\ queue' = {}
  /\ UNCHANGED <<scan, opts, words, probing, services, store>>

Phase ==
  \/ (\E ok \in BOOLEAN, kept \in SUBSET Names : Load(ok, kept))
  \/ (\E apex \in {Apex, {}}, wildcard \in {WildIps, {}} : Seed(apex, wildcard))
  \/ (\E n \in Names : Spawn(n)) \/ Join
  \/ (\E ip \in Ips, ok \in BOOLEAN : LookupAddr(ip, ok)) \/ ReverseStops
  \/ (\E blocks \in SUBSET Range(Block) : Sweep(blocks)) \/ ReverseEnds
  \/ (\E ok \in BOOLEAN : Save(ok))
  \/ (\E found \in SUBSET Crawled, ok \in BOOLEAN : CrawlReturns(found, ok)) \/ List

Worker(n) == ProbeFails(n) \/ Probe(n)
ServicesStep == \E ok \in BOOLEAN : AddService(ok)

Next ==
  \/ (\E r \in Requests : Start(r)) \/ Cancel \/ Phase \/ ServicesStep
  \/ (\E n \in Names : Worker(n))

\* Lookups time out, so every goroutine goes on.
Fairness == WF_vars(Phase \/ ServicesStep \/ \E n \in Names : Worker(n))

Spec == Init /\ [][Next]_vars /\ Fairness

-----------------------------------------------------------------------------
Rows == [source : Sources \cup {"none"}, ips : SUBSET Ips]

TypeOK ==
  /\ scan \in 0..MaxScans /\ ctx \in {"live", "cancelled"}
  /\ main \in {"idle", "load", "seed", "discover", "ptr", "sweep", "save", "crawl", "list"}
  /\ rows \in [Names -> Rows] /\ store \in [Names -> Rows] /\ reports \in [Names -> SUBSET Sources]
  /\ words \cup probing \subseteq Names /\ services \in Seq(ServiceRecords)
  /\ seedIps \cup queue \cup known \subseteq Ips

\* "Keep the most specific source, so running the discovery phases
\* concurrently does not change which source a name is attributed to":
\* whatever the order of the reports, from the cache of earlier scans to the
\* crawl, and also when the collector is full.
SourceIsStable ==
  \A n \in In(rows) :
    /\ rows[n].source \in reports[n]
    /\ \A s \in reports[n] : SourceRank[s] <= SourceRank[rows[n].source]

\* A zone with a wildcard adds nothing for words that do not exist: a name that
\* brute force alone reported has an address of its own, unless it is an old one
\* of the store, found when the wildcard was not.
WildcardAddsNothing ==
  \A n \in In(rows) \ In(store) : reports[n] = {"brute"} => ~(rows[n].ips \subseteq wild)

\* "Reverse DNS runs afterwards because it consumes the IPs those phases found":
\* no phase adds an address that the reverse lookups were not started with.
PtrSeesAll == main = "ptr" => IpsOf(rows) \subseteq known

\* What the phases leave to each other: the probes and the services are over
\* after the discovery, a reverse lookup is of an address known before, and
\* before the discovery the collector holds names of the store only.
PhasesFollow ==
  /\ main # "discover" => words = {} /\ probing = {} /\ services = <<>>
  /\ main = "ptr" => queue \subseteq known
  /\ main = "seed" => In(rows) \subseteq In(store)

\* The inductive invariant behind the three: a name that is not in the collector
\* has no reports.
IInv ==
  /\ TypeOK /\ PhasesFollow /\ SourceIsStable /\ WildcardAddsNothing /\ PtrSeesAll
  /\ \A n \in Names \ In(rows) : reports[n] = {}

\* What every scan comes to, also a cancelled one: its list of names.
ScanHasListed == main = "idle"
=============================================================================
