---------------------------- MODULE RequestProofs ---------------------------
(***************************************************************************)
(* The spacing of the rate limiter for any set of calls, any interval and  *)
(* any arrival and cancellation times.  The crawl, for every web and every *)
(* request.  The verdicts of the pings, for any pings and hosts.  The      *)
(* discovery of live hosts, for any block of any address space.  The crawl *)
(* for subdomains, for any pages and any sitemaps.  The analysis of        *)
(* endpoints, for any endpoints, answers, analyses and dialogs.            *)
(***************************************************************************)
EXTENDS Requests, FiniteSetTheorems, SequenceTheorems, WellFoundedInduction, TLAPS

LEMMA ReservedCount == Cardinality(Reserved) \in Nat
BY LimiterAssumption, FS_Subset, FS_CardinalityType DEF Reserved

LEMMA InitIInv == Init => IInv
BY DEF Init, IInv, TypeOK, NextIsFree, SlotsApart, Reserved

\* The interesting step: the new slot is free and becomes the last one.
LEMMA ReserveIInv == ASSUME IInv, NEW c \in Calls, Reserve(c) PROVE IInv'
<1> DEFINE granted == Later(next, now)
<1>1. /\ granted \in Nat /\ granted >= next /\ granted >= now
      /\ slot' = [slot EXCEPT ![c] = granted] /\ next' = granted + Interval
      /\ arrival' = [arrival EXCEPT ![c] = now]
  BY DEF Reserve, Later, IInv, TypeOK
<1>2. Reserved' = Reserved \cup {c} /\ c \notin Reserved
  BY DEF Reserve, Reserved, IInv, TypeOK
<1>3. TypeOK'
  BY <1>1, ReservedCount, LimiterAssumption DEF Reserve, IInv, TypeOK
<1>4. \A d \in Reserved : /\ slot[d] \in Nat /\ slot'[d] = slot[d] /\ arrival'[d] = arrival[d]
                          /\ slot[d] + Interval <= next
  BY <1>1, <1>2 DEF IInv, TypeOK, NextIsFree, Reserved
<1>5. slot'[c] = granted /\ arrival'[c] = now
  BY <1>1 DEF IInv, TypeOK
<1>6. NextIsFree'
  <2>1. ASSUME NEW d \in Reserved PROVE slot'[d] + Interval <= next' /\ arrival'[d] <= slot'[d]
    BY <1>1, <1>4, LimiterAssumption DEF IInv, TypeOK, NextIsFree
  <2>2. QED
    BY <1>1, <1>2, <1>5, <2>1, LimiterAssumption DEF NextIsFree, IInv, TypeOK
<1>7. SlotsApart'
  <2>1. \A d \in Reserved : slot'[d] + Interval <= slot'[c]
    BY <1>1, <1>4, <1>5, LimiterAssumption DEF IInv, TypeOK
  <2>2. \A d, e \in Reserved :
          d # e => slot'[d] + Interval <= slot'[e] \/ slot'[e] + Interval <= slot'[d]
    BY <1>4 DEF IInv, SlotsApart
  <2>3. QED
    BY <1>2, <2>1, <2>2 DEF SlotsApart
<1>8. QED
  BY <1>3, <1>6, <1>7 DEF IInv

LEMMA NextIInv == IInv /\ [Next]_vars => IInv'
<1> SUFFICES ASSUME IInv, [Next]_vars PROVE IInv'
  OBVIOUS
<1>1. ASSUME NEW c \in Calls, Reserve(c) PROVE IInv'
  BY <1>1, ReserveIInv
<1>2. ASSUME NEW c \in Calls, Wake(c) \/ Cancel(c) PROVE IInv'
  <2>1. /\ UNCHANGED <<now, next, arrival, slot>> /\ Reserved' = Reserved
        /\ pc' \in [Calls -> {"idle", "waiting", "started", "cancelled"}]
    BY <1>2 DEF Wake, Cancel, Reserved, IInv, TypeOK
  <2>2. QED
    BY <2>1 DEF IInv, TypeOK, NextIsFree, SlotsApart
<1>3. CASE Tick
  BY <1>3 DEF Tick, IInv, TypeOK, NextIsFree, SlotsApart, Reserved
<1>4. CASE UNCHANGED vars
  BY <1>4 DEF vars, IInv, TypeOK, NextIsFree, SlotsApart, Reserved
<1>5. QED
  BY <1>1, <1>2, <1>3, <1>4 DEF Next

\* Limiter.Wait gives out every slot once and an interval after the one before.
THEOREM SlotInvariance == Spec => []IInv
BY InitIInv, NextIInv, PTL DEF Spec

\* "No more than one starts per interval" (ratelimit.go), whoever is cancelled.
THEOREM AlwaysSpaced == Spec => []Spaced
<1>1. IInv => Spaced
  <2> SUFFICES ASSUME IInv, NEW c \in Reserved, NEW d \in Reserved, c # d
               PROVE  Due(c) + Interval <= Due(d) \/ Due(d) + Interval <= Due(c)
    BY DEF Spaced
  <2>1. \A e \in Reserved : Due(e) = slot[e]
    BY DEF Due, Later, IInv, TypeOK, NextIsFree, Reserved
  <2>2. QED
    BY <2>1 DEF IInv, SlotsApart
<1>2. QED
  BY <1>1, SlotInvariance, PTL

-----------------------------------------------------------------------------
(* The crawl.                                                              *)

\* The instance counts as this module does.
LEMMA CrawlSets ==
  /\ \A S : Crawl!Cardinality(S) = Cardinality(S)
  /\ \A S : Crawl!IsFiniteSet(S) <=> IsFiniteSet(S)
BY DEF Crawl!Cardinality, Crawl!IsFiniteSet, Cardinality, IsFiniteSet

\* The sets of pages are finite, and their sizes move by one.
LEMMA CrawlCounts ==
  ASSUME Crawl!CrawlAssumption, NEW S \in SUBSET Urls
  PROVE /\ Crawl!IsFiniteSet(S) /\ Crawl!Cardinality(S) \in Nat
        /\ \A u \in Urls : u \notin S => Crawl!Cardinality(S \cup {u}) = Crawl!Cardinality(S) + 1
        /\ \A u \in S : Crawl!Cardinality(S \ {u}) = Crawl!Cardinality(S) - 1
<1>1. Crawl!IsFiniteSet(S)
  BY FS_Subset, CrawlSets DEF Crawl!CrawlAssumption
<1> QED BY <1>1, FS_CardinalityType, FS_AddElement, FS_RemoveElement, CrawlSets

\* A part of a set of pages is not larger.
LEMMA CrawlSubset ==
  ASSUME Crawl!CrawlAssumption, NEW S \in SUBSET Urls, NEW T \in SUBSET S
  PROVE Crawl!Cardinality(T) <= Crawl!Cardinality(S)
BY CrawlCounts, FS_Subset, CrawlSets

\* A request's limits are numbers, its seeds pages of the web.
LEMMA CrawlOptions ==
  ASSUME Crawl!CrawlAssumption, Crawl!TypeOK
  PROVE /\ opts.depth \in Nat /\ opts.pages \in Nat /\ opts.assets \in Nat /\ opts.workers \in Nat
        /\ opts.seeds \in Seq(Urls) /\ Len(opts.seeds) \in Nat
        /\ \A k \in 1..Len(opts.seeds) : opts.seeds[k] \in Urls
        /\ seed \in Nat /\ depth \in Nat
BY DEF Crawl!CrawlAssumption, Crawl!TypeOK

\* A crawl starts with no worker and nothing counted.
LEMMA CrawlInit == Crawl!CrawlAssumption /\ Crawl!Init => Crawl!IInv
<1> SUFFICES ASSUME Crawl!CrawlAssumption, NEW o \in Options, Crawl!InitWith(o) PROVE Crawl!IInv
  BY DEF Crawl!Init
<1>1. /\ opts = o /\ o.seeds \in Seq(Urls) /\ o.seeds # <<>>
      /\ o.depth \in Nat /\ o.pages \in Nat /\ o.assets \in Nat /\ o.workers \in Nat
  BY DEF Crawl!InitWith, Crawl!CrawlAssumption
<1>2. cur \in Urls /\ Len(o.seeds) \in Nat
  BY <1>1 DEF Crawl!InitWith
<1>3. \A u \in Urls : worker[u] = Crawl!Idle /\ worker[u].at = "none"
  BY DEF Crawl!InitWith, Crawl!Idle
<1>4. Crawl!Active = {} /\ Crawl!MayCount = {} /\ Crawl!Waiting = 0
  BY <1>3 DEF Crawl!Active, Crawl!MayCount, Crawl!Waiting, Crawl!InitWith
<1>5. Crawl!TypeOK
  BY <1>1, <1>2, <1>3 DEF Crawl!InitWith, Crawl!TypeOK
<1>6. Crawl!WorkersAreRecords
  BY DEF Crawl!InitWith, Crawl!WorkersAreRecords, Crawl!Idle
<1>7. Crawl!Cardinality(Crawl!Active) = 0 /\ Crawl!Cardinality(Crawl!MayCount) = 0 /\ Crawl!Cardinality(stored) = 0
  BY <1>4, FS_EmptySet, CrawlSets DEF Crawl!InitWith
<1>8. Crawl!ExcessIsUnderWay
  BY <1>1, <1>4, <1>7 DEF Crawl!InitWith, Crawl!ExcessIsUnderWay
<1>9. Crawl!LevelsAreJoined /\ Crawl!WorkersAreOnce /\ Crawl!LevelOnDomain
  BY <1>3, <1>4 DEF Crawl!InitWith, Crawl!LevelsAreJoined, Crawl!WorkersAreOnce, Crawl!LevelOnDomain
<1> QED BY <1>5, <1>6, <1>8, <1>9 DEF Crawl!IInv

\* Goto changes one worker, which is a record again.
LEMMA WorkerMoves ==
  ASSUME Crawl!WorkersAreRecords, NEW u \in Urls, NEW place, NEW left, Crawl!Goto(u, place, left)
  PROVE /\ Crawl!WorkersAreRecords' /\ worker'[u].at = place
        /\ \A v \in Urls : v # u => worker'[v] = worker[v]
<1>1. worker' = [v \in Urls |-> IF v = u THEN [at |-> place, left |-> left] ELSE worker[v]]
  BY DEF Crawl!Goto, Crawl!WorkersAreRecords
<1>2. \A v \in Urls : worker[v] = [at |-> worker[v].at, left |-> worker[v].left]
  BY DEF Crawl!WorkersAreRecords
<1> QED BY <1>1, <1>2 DEF Crawl!WorkersAreRecords

\* What a worker's step does to the rest, whichever step it is.
LEMMA FetchFacts ==
  ASSUME Crawl!CrawlAssumption, Crawl!IInv, NEW u \in Urls, Crawl!Fetch(u)
  PROVE /\ UNCHANGED <<opts, crawlCtx, main, seed, depth, frontier, cur, seenPage, outcome>>
        /\ Crawl!WorkersAreRecords'
        /\ \A v \in Urls : v # u => worker'[v] = worker[v]
        /\ worker[u].at \in {"fetch", "probe", "assets", "download"}
        /\ worker'[u].at \in {"probe", "assets", "download", "back"}
        /\ found' \in {found, found \cup Crawl!ScopeLinks(u)}
        /\ fetched' \in {fetched, fetched \cup {u}} /\ failed' \in {failed, failed \cup {u}}
        /\ worker'[u].at \in {"probe", "assets", "download"} => u \in fetched'
        /\ worker'[u].at = "download" => assets < opts.assets /\ worker[u].at = "assets"
        /\ assets' # assets => /\ assets' = assets + 1 /\ worker[u].at \in {"fetch", "download"}
                               /\ worker'[u].at # "download"
        /\ \/ UNCHANGED <<pages, stored>>
           \/ /\ pages < opts.pages /\ pages' = pages + 1 /\ stored' = stored \cup {u}
              /\ worker[u].at = "probe" /\ worker'[u].at = "assets" /\ u \in fetched
        /\ worker[u].at \in {"assets", "download"} =>
             worker'[u].at \in {"assets", "download", "back"}
<1> USE DEF Crawl!IInv
<1>r. Crawl!WorkersAreRecords
  OBVIOUS
<1>f. worker[u].at \in {"probe", "assets", "download"} => u \in fetched
  BY DEF Crawl!WorkersAreOnce
<1>c. assets \in Nat /\ opts.assets \in Nat
  BY CrawlOptions DEF Crawl!ExcessIsUnderWay
<1> HIDE DEF Crawl!IInv
<1>1. ASSUME NEW left, Crawl!Goto(u, "back", left)
      PROVE Crawl!WorkersAreRecords' /\ worker'[u].at = "back" /\ \A v \in Urls : v # u => worker'[v] = worker[v]
  BY <1>1, <1>r, WorkerMoves
<1>2. CASE Crawl!FetchFails(u)
  BY <1>2, <1>1 DEF Crawl!FetchFails, Crawl!Return, Crawl!seen, Crawl!counters
<1>3. CASE Crawl!FetchFile(u)
  BY <1>3, <1>1, <1>c DEF Crawl!FetchFile, Crawl!Responds, Crawl!Return, Crawl!seen, Crawl!books
<1>4. CASE Crawl!FetchHtml(u)
  <2>1. Crawl!Goto(u, "probe", IF opts.index THEN Web[u].dirs ELSE <<>>)
    BY <1>4 DEF Crawl!FetchHtml
  <2>2. Crawl!WorkersAreRecords' /\ worker'[u].at = "probe" /\ \A v \in Urls : v # u => worker'[v] = worker[v]
    BY <2>1, <1>r, WorkerMoves
  <2> QED BY <1>4, <2>2 DEF Crawl!FetchHtml, Crawl!Responds, Crawl!level, Crawl!seen, Crawl!counters
<1>5. CASE Crawl!ProbeDir(u)
  <2>1. PICK left : Crawl!Goto(u, "probe", left)
    BY <1>5 DEF Crawl!ProbeDir
  <2>2. Crawl!WorkersAreRecords' /\ worker'[u].at = "probe" /\ \A v \in Urls : v # u => worker'[v] = worker[v]
    BY <2>1, <1>r, WorkerMoves
  <2> QED BY <1>5, <1>f, <2>2 DEF Crawl!ProbeDir, Crawl!level, Crawl!counters, Crawl!books
<1>6. CASE Crawl!SkipPage(u) \/ Crawl!RefusePage(u)
  BY <1>6, <1>1 DEF Crawl!SkipPage, Crawl!RefusePage, Crawl!Probed, Crawl!Return, Crawl!seen,
     Crawl!counters, Crawl!books
<1>7. CASE Crawl!ReservePage(u)
  <2>1. Crawl!Goto(u, "assets", Crawl!AssetURLs(u))
    BY <1>7 DEF Crawl!ReservePage
  <2>2. Crawl!WorkersAreRecords' /\ worker'[u].at = "assets" /\ \A v \in Urls : v # u => worker'[v] = worker[v]
    BY <2>1, <1>r, WorkerMoves
  <2> QED BY <1>7, <1>f, <2>2 DEF Crawl!ReservePage, Crawl!Probed, Crawl!level, Crawl!seen
<1>8. CASE Crawl!TakeAsset(u)
  <2>1. PICK place, left : place \in {"assets", "download"} /\ Crawl!Goto(u, place, left)
    BY <1>8 DEF Crawl!TakeAsset
  <2>2. Crawl!WorkersAreRecords' /\ worker'[u].at = place /\ \A v \in Urls : v # u => worker'[v] = worker[v]
    BY <2>1, <1>r, WorkerMoves
  <2>3. assets < opts.assets /\ worker[u].at = "assets"
    BY <1>8, <1>c DEF Crawl!TakeAsset, Crawl!AssetsGoOn, Crawl!LimitReached
  <2> QED BY <1>8, <1>f, <2>1, <2>2, <2>3 DEF Crawl!TakeAsset, Crawl!level, Crawl!counters,
             Crawl!books
<1>9. ASSUME NEW ok \in BOOLEAN, Crawl!Download(u, ok)
      PROVE /\ worker[u].at = "download" /\ worker'[u].at = "assets"
            /\ Crawl!WorkersAreRecords' /\ \A v \in Urls : v # u => worker'[v] = worker[v]
            /\ assets' \in {assets, assets + 1}
            /\ UNCHANGED <<opts, crawlCtx, main, Crawl!level, Crawl!seen, pages, Crawl!books, outcome>>
  <2>1. Crawl!Goto(u, "assets", worker[u].left)
    BY <1>9 DEF Crawl!Download
  <2>2. Crawl!WorkersAreRecords' /\ worker'[u].at = "assets" /\ \A v \in Urls : v # u => worker'[v] = worker[v]
    BY <2>1, <1>r, WorkerMoves
  <2> QED BY <1>9, <2>2 DEF Crawl!Download
<1>10. CASE \E ok \in BOOLEAN : Crawl!Download(u, ok)
  BY <1>10, <1>9, <1>f, <1>c DEF Crawl!level, Crawl!seen, Crawl!books
<1>11. CASE Crawl!AssetsEnd(u)
  BY <1>11, <1>1 DEF Crawl!AssetsEnd, Crawl!Return, Crawl!seen, Crawl!counters, Crawl!books
<1> QED BY <1>2, <1>3, <1>4, <1>5, <1>6, <1>7, <1>8, <1>10, <1>11 DEF Crawl!Fetch

\* A worker's step: the excess of the assets is what is still under way.
LEMMA CrawlFetch == ASSUME Crawl!CrawlAssumption, Crawl!IInv, NEW u \in Urls, Crawl!Fetch(u) PROVE Crawl!IInv'
<1>0. /\ Crawl!TypeOK /\ Crawl!WorkersAreRecords /\ Crawl!LevelsAreJoined /\ Crawl!WorkersAreOnce
      /\ Crawl!ExcessIsUnderWay /\ Crawl!LevelOnDomain
  BY DEF Crawl!IInv
<1>1. /\ UNCHANGED <<opts, crawlCtx, main, seed, depth, frontier, cur, seenPage, outcome>>
      /\ Crawl!WorkersAreRecords'
      /\ \A v \in Urls : v # u => worker'[v] = worker[v]
      /\ worker[u].at \in {"fetch", "probe", "assets", "download"}
      /\ worker'[u].at \in {"probe", "assets", "download", "back"}
      /\ found' \in {found, found \cup Crawl!ScopeLinks(u)}
      /\ fetched' \in {fetched, fetched \cup {u}} /\ failed' \in {failed, failed \cup {u}}
      /\ worker'[u].at \in {"probe", "assets", "download"} => u \in fetched'
      /\ worker'[u].at = "download" => assets < opts.assets /\ worker[u].at = "assets"
      /\ assets' # assets => /\ assets' = assets + 1 /\ worker[u].at \in {"fetch", "download"}
                             /\ worker'[u].at # "download"
      /\ \/ UNCHANGED <<pages, stored>>
         \/ /\ pages < opts.pages /\ pages' = pages + 1 /\ stored' = stored \cup {u}
            /\ worker[u].at = "probe" /\ worker'[u].at = "assets" /\ u \in fetched
      /\ worker[u].at \in {"assets", "download"} =>
           worker'[u].at \in {"assets", "download", "back"}
  BY FetchFacts
<1>2. /\ opts.depth \in Nat /\ opts.pages \in Nat /\ opts.assets \in Nat /\ opts.workers \in Nat
      /\ opts.seeds \in Seq(Urls) /\ \A k \in 1..Len(opts.seeds) : opts.seeds[k] \in Urls
      /\ seed \in Nat
  BY <1>0, CrawlOptions
<1>3. u \in seenPage
  BY <1>0, <1>1 DEF Crawl!WorkersAreOnce
<1>4. Crawl!ScopeLinks(u) \subseteq Urls
  BY DEF Crawl!ScopeLinks, Crawl!CrawlAssumption
<1>5. Crawl!TypeOK'
  BY <1>0, <1>1, <1>3, <1>4 DEF Crawl!TypeOK
<1>6. u \in Crawl!Active /\ Crawl!Active \subseteq Urls /\ Crawl!Active' \in {Crawl!Active, Crawl!Active \ {u}}
  BY <1>1 DEF Crawl!Active
<1>7. main \in {"loop", "place", "join"}
  BY <1>0, <1>6 DEF Crawl!LevelsAreJoined, Crawl!TypeOK
<1>8. Crawl!LevelsAreJoined'
  BY <1>0, <1>1, <1>7 DEF Crawl!LevelsAreJoined
<1>9. Crawl!WorkersAreOnce'
  <2>1. \A v \in Urls : worker'[v].at # "none" => v \in seenPage'
    BY <1>0, <1>1, <1>3 DEF Crawl!WorkersAreOnce
  <2>2. main' = "place" => cur' \in seenPage' /\ worker'[cur'].at = "none"
    BY <1>0, <1>1 DEF Crawl!WorkersAreOnce, Crawl!TypeOK
  <2>3. \A v \in Urls : worker'[v].at \in {"probe", "assets", "download"} => v \in fetched'
    BY <1>0, <1>1 DEF Crawl!WorkersAreOnce
  <2>4. \A v \in stored' : worker'[v].at \in {"assets", "download", "back"}
    BY <1>0, <1>1 DEF Crawl!WorkersAreOnce, Crawl!TypeOK
  <2> QED BY <2>1, <2>2, <2>3, <2>4 DEF Crawl!WorkersAreOnce
<1>10. Crawl!ExcessIsUnderWay'
  <2>0. /\ pages \in Nat /\ pages <= opts.pages /\ pages = Crawl!Cardinality(stored)
        /\ assets \in Nat /\ Crawl!Cardinality(Crawl!Active) <= opts.workers
        /\ assets >= opts.assets =>
             assets + Crawl!Cardinality(Crawl!MayCount) + Crawl!Waiting <= opts.assets + opts.workers
    BY <1>0 DEF Crawl!ExcessIsUnderWay
  <2>1. pages' \in Nat /\ pages' <= opts.pages /\ pages' = Crawl!Cardinality(stored')
    <3>1. CASE UNCHANGED <<pages, stored>>
      BY <2>0, <3>1
    <3>2. CASE pages < opts.pages /\ pages' = pages + 1 /\ stored' = stored \cup {u}
               /\ worker[u].at = "probe"
      <4>1. u \notin stored /\ stored \in SUBSET Urls
        BY <1>0, <3>2 DEF Crawl!WorkersAreOnce, Crawl!TypeOK
      <4>2. Crawl!Cardinality(stored \cup {u}) = Crawl!Cardinality(stored) + 1
        BY <4>1, CrawlCounts
      <4> QED BY <1>2, <2>0, <3>2, <4>2
    <3> QED BY <1>1, <3>1, <3>2
  <2>2. Crawl!Cardinality(Crawl!Active') <= opts.workers /\ Crawl!Cardinality(Crawl!Active) \in Nat
        /\ Crawl!Cardinality(Crawl!Active \ {u}) = Crawl!Cardinality(Crawl!Active) - 1
    <3>1. Crawl!Cardinality(Crawl!Active) \in Nat /\ Crawl!Cardinality(Crawl!Active \ {u}) = Crawl!Cardinality(Crawl!Active) - 1
      BY <1>6, CrawlCounts
    <3>2. CASE Crawl!Active' = Crawl!Active
      BY <2>0, <3>1, <3>2
    <3>3. CASE Crawl!Active' = Crawl!Active \ {u}
      BY <1>2, <2>0, <3>1, <3>3
    <3> QED BY <1>6, <3>1, <3>2, <3>3
  <2>3. /\ Crawl!MayCount \in SUBSET Urls /\ Crawl!MayCount' \in SUBSET Urls
        /\ worker[u].at \notin {"fetch", "download"} => u \notin Crawl!MayCount
        /\ worker[u].at \in {"fetch", "download"} => u \in Crawl!MayCount
        /\ Crawl!MayCount' = IF worker'[u].at = "download" THEN Crawl!MayCount \cup {u} ELSE Crawl!MayCount \ {u}
        /\ Crawl!MayCount \subseteq Crawl!Active /\ Crawl!Waiting' = Crawl!Waiting /\ Crawl!Waiting \in 0..1
    BY <1>1 DEF Crawl!MayCount, Crawl!Active, Crawl!Waiting
  <2>4. ASSUME assets' >= opts.assets
        PROVE assets' + Crawl!Cardinality(Crawl!MayCount') + Crawl!Waiting' <= opts.assets + opts.workers
    <3>1. CASE assets' = assets
      <4>1. assets >= opts.assets /\ worker'[u].at # "download"
        BY <1>1, <1>2, <2>0, <2>4, <3>1
      <4>2. Crawl!MayCount' \subseteq Crawl!MayCount
        BY <2>3, <4>1
      <4>3. Crawl!Cardinality(Crawl!MayCount') <= Crawl!Cardinality(Crawl!MayCount)
        BY <2>3, <4>2, CrawlSubset
      <4>4. Crawl!Cardinality(Crawl!MayCount) \in Nat /\ Crawl!Cardinality(Crawl!MayCount') \in Nat
        BY <2>3, CrawlCounts
      <4> QED BY <1>2, <2>0, <2>3, <3>1, <4>1, <4>3, <4>4, SMTT(30)
    <3>2. CASE assets' # assets
      <4>1. assets' = assets + 1 /\ u \in Crawl!MayCount /\ Crawl!MayCount' = Crawl!MayCount \ {u}
        BY <1>1, <2>3, <3>2
      <4>2. Crawl!Cardinality(Crawl!MayCount') = Crawl!Cardinality(Crawl!MayCount) - 1
        BY <2>3, <4>1, CrawlCounts
      <4>3. Crawl!Cardinality(Crawl!MayCount') <= Crawl!Cardinality(Crawl!Active \ {u})
        BY <1>6, <2>3, <4>1, CrawlSubset
      <4>4. Crawl!Cardinality(Crawl!MayCount) \in Nat /\ Crawl!Cardinality(Crawl!MayCount') \in Nat
        BY <2>3, CrawlCounts
      <4>5. CASE assets >= opts.assets
        BY <1>2, <2>0, <2>3, <4>1, <4>2, <4>4, <4>5
      <4>6. CASE assets < opts.assets
        <5>1. assets' = opts.assets
          BY <1>2, <2>0, <2>4, <4>1, <4>6
        <5>2. Crawl!Cardinality(Crawl!MayCount') + Crawl!Waiting <= opts.workers
          BY <1>2, <2>0, <2>2, <2>3, <4>3, <4>4
        <5> QED BY <1>2, <2>3, <4>4, <5>1, <5>2
      <4> QED BY <1>2, <2>0, <4>5, <4>6
    <3> QED BY <3>1, <3>2
  <2>5. assets' \in Nat
    BY <1>1, <2>0
  <2> QED BY <1>1, <2>1, <2>2, <2>4, <2>5 DEF Crawl!ExcessIsUnderWay
<1>11. Crawl!LevelOnDomain'
  <2>1. Crawl!Site' = Crawl!Site
    BY <1>1 DEF Crawl!Site
  <2>2. seed >= 1 /\ seed <= Len(opts.seeds) /\ opts.seeds[seed] \in Urls
    BY <1>0, <1>2, <1>7 DEF Crawl!LevelsAreJoined, Crawl!TypeOK
  <2>3. \A v \in Crawl!ScopeLinks(u) : Web[v].domain = Crawl!Site.domain
    BY <1>4, <2>2 DEF Crawl!ScopeLinks, Crawl!InScope, Crawl!Site, Crawl!CrawlAssumption
  <2>4. /\ \A v \in frontier : Web[v].domain = Crawl!Site.domain
        /\ \A v \in found \cup Crawl!Active : Web[v].domain = Crawl!Site.domain
        /\ main = "place" => Web[cur].domain = Crawl!Site.domain
    BY <1>0, <1>7 DEF Crawl!LevelOnDomain
  <2> QED BY <1>1, <1>6, <2>1, <2>3, <2>4 DEF Crawl!LevelOnDomain
<1> QED BY <1>1, <1>5, <1>8, <1>9, <1>10, <1>11 DEF Crawl!IInv

\* The steps of the main goroutine leave the workers and their books alone, but
\* for Take and Spawn.
LEMMA CrawlQuiet ==
  ASSUME Crawl!CrawlAssumption, Crawl!IInv, Crawl!TypeOK', Crawl!LevelsAreJoined', Crawl!LevelOnDomain',
         UNCHANGED <<opts, worker, seenPage, Crawl!counters, Crawl!books>>,
         main # "place", main' # "place"
  PROVE Crawl!IInv'
<1>1. Crawl!Active' = Crawl!Active /\ Crawl!MayCount' = Crawl!MayCount /\ Crawl!Waiting = 0 /\ Crawl!Waiting' = 0
  BY DEF Crawl!Active, Crawl!MayCount, Crawl!Waiting
<1>2. Crawl!ExcessIsUnderWay'
  BY <1>1 DEF Crawl!IInv, Crawl!ExcessIsUnderWay, Crawl!counters, Crawl!books
<1> QED BY <1>2 DEF Crawl!IInv, Crawl!WorkersAreRecords, Crawl!WorkersAreOnce, Crawl!books

\* The steps of run and crawlSeed between the levels and the seeds.
LEMMA CrawlMain ==
  ASSUME Crawl!CrawlAssumption, Crawl!IInv,
         Crawl!Reject \/ Crawl!Begin \/ Crawl!Cancel \/ Crawl!Finish \/ Crawl!NextSeed \/ Crawl!StartLevel \/ Crawl!LoopEnds \/ Crawl!Join
  PROVE Crawl!IInv'
<1>0. Crawl!TypeOK /\ Crawl!LevelsAreJoined /\ Crawl!LevelOnDomain
  BY DEF Crawl!IInv
<1>1. /\ opts.depth \in Nat /\ Len(opts.seeds) \in Nat /\ seed \in Nat /\ depth \in Nat
      /\ \A k \in 1..Len(opts.seeds) : opts.seeds[k] \in Urls
  BY <1>0, CrawlOptions
<1>2. CASE Crawl!Reject \/ Crawl!Begin \/ Crawl!Finish
  <2>1. /\ UNCHANGED <<opts, crawlCtx, Crawl!level, Crawl!seen, worker, Crawl!counters, Crawl!books>>
        /\ main \in {"new", "finish"} /\ main' \in {"over", "seeds"}
        /\ outcome' \in {"none", "rejected", "done", "cancelled"}
    BY <1>0, <1>2 DEF Crawl!Reject, Crawl!Begin, Crawl!Finish, Crawl!TypeOK
  <2>2. Crawl!TypeOK' /\ Crawl!LevelsAreJoined' /\ Crawl!LevelOnDomain'
    BY <1>0, <2>1 DEF Crawl!TypeOK, Crawl!LevelsAreJoined, Crawl!LevelOnDomain, Crawl!Active,
       Crawl!level, Crawl!seen, Crawl!books
  <2> QED BY <2>1, <2>2, CrawlQuiet DEF Crawl!seen
<1>3. CASE Crawl!Cancel
  <2>1. /\ UNCHANGED <<opts, main, Crawl!level, Crawl!seen, worker, Crawl!counters, Crawl!books, outcome>>
        /\ crawlCtx' = "cancelled"
    BY <1>3 DEF Crawl!Cancel
  <2>2. Crawl!TypeOK' /\ Crawl!LevelsAreJoined' /\ Crawl!LevelOnDomain'
    BY <1>0, <2>1 DEF Crawl!TypeOK, Crawl!LevelsAreJoined, Crawl!LevelOnDomain, Crawl!Active,
       Crawl!Site, Crawl!level, Crawl!seen, Crawl!books
  <2>3. Crawl!ExcessIsUnderWay'
    BY <2>1 DEF Crawl!IInv, Crawl!ExcessIsUnderWay, Crawl!Active, Crawl!MayCount, Crawl!Waiting,
       Crawl!counters, Crawl!books
  <2> QED BY <2>1, <2>2, <2>3 DEF Crawl!IInv, Crawl!WorkersAreRecords, Crawl!WorkersAreOnce,
             Crawl!level, Crawl!seen, Crawl!books
<1>4. CASE Crawl!NextSeed
  <2>1. /\ UNCHANGED <<opts, crawlCtx, cur, found, Crawl!seen, worker, Crawl!counters, Crawl!books, outcome>>
        /\ main = "seeds" /\ Crawl!Active = {} /\ Crawl!Active' = {}
        /\ \/ main' = "finish" /\ UNCHANGED <<seed, depth, frontier>>
           \/ /\ main' = "level" /\ seed' = seed + 1 /\ depth' = 0 /\ seed # Len(opts.seeds)
              /\ frontier' = {opts.seeds[seed + 1]}
    BY <1>0, <1>4 DEF Crawl!NextSeed, Crawl!LevelsAreJoined, Crawl!Active
  <2>2. seed # Len(opts.seeds) => seed + 1 \in 1..Len(opts.seeds)
    BY <1>0, <1>1 DEF Crawl!TypeOK
  <2>3. Crawl!TypeOK'
    BY <1>0, <1>1, <2>1, <2>2 DEF Crawl!TypeOK, Crawl!seen, Crawl!books
  <2>4. Crawl!LevelsAreJoined' /\ Crawl!LevelOnDomain'
    BY <1>0, <1>1, <2>1 DEF Crawl!LevelsAreJoined, Crawl!LevelOnDomain, Crawl!Site
  <2> QED BY <2>1, <2>3, <2>4, CrawlQuiet DEF Crawl!seen
<1>5. CASE Crawl!StartLevel
  <2>1. /\ UNCHANGED <<opts, crawlCtx, seed, depth, frontier, cur, Crawl!seen, worker, Crawl!counters, Crawl!books, outcome>>
        /\ main = "level" /\ Crawl!Active = {} /\ Crawl!Active' = {} /\ found' = {}
        /\ main' \in {"seeds", "loop"} /\ (main' = "loop" => depth <= opts.depth)
    BY <1>0, <1>1, <1>5 DEF Crawl!StartLevel, Crawl!LevelsAreJoined, Crawl!Active
  <2>2. Crawl!TypeOK' /\ Crawl!LevelsAreJoined' /\ Crawl!LevelOnDomain'
    BY <1>0, <2>1 DEF Crawl!TypeOK, Crawl!LevelsAreJoined, Crawl!LevelOnDomain, Crawl!Site,
       Crawl!seen, Crawl!books
  <2> QED BY <2>1, <2>2, CrawlQuiet DEF Crawl!seen
<1>6. CASE Crawl!LoopEnds
  <2>1. /\ UNCHANGED <<opts, crawlCtx, Crawl!level, Crawl!seen, worker, Crawl!counters, Crawl!books, outcome>>
        /\ main = "loop" /\ main' = "join"
    BY <1>6 DEF Crawl!LoopEnds
  <2>2. Crawl!TypeOK' /\ Crawl!LevelsAreJoined' /\ Crawl!LevelOnDomain'
    BY <1>0, <2>1 DEF Crawl!TypeOK, Crawl!LevelsAreJoined, Crawl!LevelOnDomain, Crawl!Active,
       Crawl!Site, Crawl!level, Crawl!seen, Crawl!books
  <2> QED BY <2>1, <2>2, CrawlQuiet DEF Crawl!seen
<1>7. CASE Crawl!Join
  <2>1. /\ UNCHANGED <<opts, crawlCtx, seed, cur, found, Crawl!seen, worker, Crawl!counters, Crawl!books, outcome>>
        /\ main = "join" /\ main' = "level" /\ Crawl!Active = {} /\ Crawl!Active' = {}
        /\ depth' = depth + 1 /\ frontier' = found
    BY <1>7 DEF Crawl!Join, Crawl!Active
  <2>2. Crawl!TypeOK'
    BY <1>0, <1>1, <2>1 DEF Crawl!TypeOK, Crawl!LevelsAreJoined, Crawl!seen, Crawl!books
  <2>3. Crawl!LevelsAreJoined' /\ Crawl!LevelOnDomain'
    BY <1>0, <2>1 DEF Crawl!LevelsAreJoined, Crawl!LevelOnDomain, Crawl!Site
  <2> QED BY <2>1, <2>2, <2>3, CrawlQuiet DEF Crawl!seen
<1> QED BY <1>2, <1>3, <1>4, <1>5, <1>6, <1>7

\* Take hands out a page nobody has seen, while no limit is reached.
LEMMA CrawlTake == ASSUME Crawl!CrawlAssumption, Crawl!IInv, NEW u \in Urls, Crawl!Take(u) PROVE Crawl!IInv'
<1>0. /\ Crawl!TypeOK /\ Crawl!WorkersAreRecords /\ Crawl!LevelsAreJoined /\ Crawl!WorkersAreOnce
      /\ Crawl!ExcessIsUnderWay /\ Crawl!LevelOnDomain
  BY DEF Crawl!IInv
<1>1. /\ UNCHANGED <<opts, crawlCtx, seed, depth, found, seenAsset, seenDir, worker, Crawl!counters, Crawl!books, outcome>>
      /\ main = "loop" /\ u \in frontier /\ frontier' = frontier \ {u} /\ ~Crawl!LimitReached
      /\ \/ u \in seenPage /\ UNCHANGED <<main, cur, seenPage>>
         \/ /\ u \notin seenPage /\ main' = "place" /\ cur' = u /\ seenPage' = seenPage \cup {u}
  BY DEF Crawl!Take, Crawl!LoopGoesOn
<1>2. Crawl!Active' = Crawl!Active /\ Crawl!MayCount' = Crawl!MayCount /\ Crawl!Site' = Crawl!Site
  BY <1>1 DEF Crawl!Active, Crawl!MayCount, Crawl!Site
<1>3. opts.assets \in Nat /\ assets \in Nat /\ assets < opts.assets
  BY <1>0, <1>1, CrawlOptions DEF Crawl!ExcessIsUnderWay, Crawl!LimitReached
<1>4. Crawl!ExcessIsUnderWay'
  BY <1>0, <1>1, <1>2, <1>3 DEF Crawl!ExcessIsUnderWay, Crawl!counters, Crawl!books
<1>5. Crawl!TypeOK' /\ Crawl!LevelsAreJoined'
  BY <1>0, <1>1, <1>2 DEF Crawl!TypeOK, Crawl!LevelsAreJoined, Crawl!books
<1>6. Crawl!LevelOnDomain'
  BY <1>0, <1>1, <1>2 DEF Crawl!LevelOnDomain
<1>7. u \notin seenPage => worker[u].at = "none"
  BY <1>0 DEF Crawl!WorkersAreOnce
<1>8. Crawl!WorkersAreOnce' /\ Crawl!WorkersAreRecords'
  BY <1>0, <1>1, <1>7 DEF Crawl!WorkersAreOnce, Crawl!WorkersAreRecords, Crawl!books
<1> QED BY <1>4, <1>5, <1>6, <1>8 DEF Crawl!IInv

\* Spawn turns the one that waits for a place into a worker.
LEMMA CrawlSpawn == ASSUME Crawl!CrawlAssumption, Crawl!IInv, Crawl!Spawn PROVE Crawl!IInv'
<1>0. /\ Crawl!TypeOK /\ Crawl!WorkersAreRecords /\ Crawl!LevelsAreJoined /\ Crawl!WorkersAreOnce
      /\ Crawl!ExcessIsUnderWay /\ Crawl!LevelOnDomain
  BY DEF Crawl!IInv
<1>1. /\ UNCHANGED <<opts, crawlCtx, Crawl!level, Crawl!seen, Crawl!counters, Crawl!books, outcome>>
      /\ main = "place" /\ main' = "loop" /\ Crawl!Cardinality(Crawl!Active) < opts.workers
      /\ worker' = [worker EXCEPT ![cur].at = "fetch"]
  BY DEF Crawl!Spawn
<1>2. cur \in Urls /\ cur \in seenPage /\ worker[cur].at = "none"
  BY <1>0, <1>1 DEF Crawl!TypeOK, Crawl!WorkersAreOnce
<1>3. worker' = [v \in Urls |-> IF v = cur THEN [at |-> "fetch", left |-> worker[cur].left] ELSE worker[v]]
  <2>1. DOMAIN worker = Urls /\ worker[cur] = [at |-> worker[cur].at, left |-> worker[cur].left]
    BY <1>0, <1>2 DEF Crawl!WorkersAreRecords
  <2>2. [worker[cur] EXCEPT !.at = "fetch"] = [at |-> "fetch", left |-> worker[cur].left]
    BY <2>1
  <2> QED BY <1>1, <1>2, <2>1, <2>2
<1>4. /\ worker'[cur].at = "fetch" /\ \A v \in Urls : v # cur => worker'[v] = worker[v]
  BY <1>2, <1>3
<1>5. Crawl!WorkersAreRecords'
  <2>1. \A v \in Urls : worker[v] = [at |-> worker[v].at, left |-> worker[v].left]
    BY <1>0 DEF Crawl!WorkersAreRecords
  <2> QED BY <1>3, <2>1 DEF Crawl!WorkersAreRecords
<1>6. /\ Crawl!Active' = Crawl!Active \cup {cur} /\ cur \notin Crawl!Active /\ Crawl!MayCount' = Crawl!MayCount \cup {cur}
      /\ cur \notin Crawl!MayCount /\ Crawl!Waiting = 1 /\ Crawl!Waiting' = 0 /\ Crawl!Site' = Crawl!Site
  BY <1>1, <1>2, <1>4 DEF Crawl!Active, Crawl!MayCount, Crawl!Waiting, Crawl!Site, Crawl!level
<1>7. Crawl!TypeOK' /\ Crawl!LevelsAreJoined'
  BY <1>0, <1>1, <1>4 DEF Crawl!TypeOK, Crawl!LevelsAreJoined, Crawl!level, Crawl!seen, Crawl!books
<1>8. Crawl!WorkersAreOnce'
  BY <1>0, <1>1, <1>2, <1>4 DEF Crawl!WorkersAreOnce, Crawl!TypeOK, Crawl!level, Crawl!seen,
     Crawl!books
<1>9. Crawl!LevelOnDomain'
  BY <1>0, <1>1, <1>6 DEF Crawl!LevelOnDomain, Crawl!level
<1>10. Crawl!ExcessIsUnderWay'
  <2>1. Crawl!Cardinality(Crawl!Active') = Crawl!Cardinality(Crawl!Active) + 1 /\ Crawl!Cardinality(Crawl!Active) \in Nat
    BY <1>2, <1>6, CrawlCounts DEF Crawl!Active
  <2>2. Crawl!Cardinality(Crawl!MayCount') = Crawl!Cardinality(Crawl!MayCount) + 1 /\ Crawl!Cardinality(Crawl!MayCount) \in Nat
    BY <1>2, <1>6, CrawlCounts DEF Crawl!MayCount
  <2>3. opts.assets \in Nat /\ opts.workers \in Nat
    BY <1>0, CrawlOptions
  <2> QED BY <1>0, <1>1, <1>6, <2>1, <2>2, <2>3 DEF Crawl!ExcessIsUnderWay, Crawl!counters,
             Crawl!books
<1> QED BY <1>5, <1>7, <1>8, <1>9, <1>10 DEF Crawl!IInv

\* Every step preserves the invariant.
LEMMA CrawlNext == ASSUME Crawl!CrawlAssumption, Crawl!IInv, [Crawl!Next]_Crawl!vars PROVE Crawl!IInv'
<1>1. ASSUME NEW u \in Urls, Crawl!Fetch(u) PROVE Crawl!IInv'
  BY <1>1, CrawlFetch
<1>2. ASSUME NEW u \in Urls, Crawl!Take(u) PROVE Crawl!IInv'
  BY <1>2, CrawlTake
<1>3. CASE Crawl!Spawn
  BY <1>3, CrawlSpawn
<1>4. CASE Crawl!Reject \/ Crawl!Begin \/ Crawl!Cancel \/ Crawl!Finish \/ Crawl!NextSeed \/ Crawl!StartLevel \/ Crawl!LoopEnds \/ Crawl!Join
  BY <1>4, CrawlMain
<1>5. CASE UNCHANGED Crawl!vars
  <2>1. UNCHANGED <<opts, crawlCtx, main, seed, depth, frontier, cur, found, seenPage, worker, pages,
                    assets, fetched, stored, failed, outcome>>
    BY <1>5 DEF Crawl!vars, Crawl!level, Crawl!seen, Crawl!counters, Crawl!books
  <2>2. Crawl!Active' = Crawl!Active /\ Crawl!MayCount' = Crawl!MayCount /\ Crawl!Waiting' = Crawl!Waiting /\ Crawl!Site' = Crawl!Site
    BY <2>1 DEF Crawl!Active, Crawl!MayCount, Crawl!Waiting, Crawl!Site
  <2> QED BY <2>1, <2>2 DEF Crawl!IInv, Crawl!TypeOK, Crawl!WorkersAreRecords,
             Crawl!LevelsAreJoined, Crawl!WorkersAreOnce,
             Crawl!ExcessIsUnderWay, Crawl!LevelOnDomain
<1> QED BY <1>1, <1>2, <1>3, <1>4, <1>5 DEF Crawl!Next, Crawl!Crawl

\* A page has one worker, levels are joined, and what exceeds the limit of the
\* assets is under way (scrape.go, crawlSeed and fetchPage).
THEOREM CrawlInvariance == Crawl!Spec => []Crawl!IInv
<1>1. Crawl!Init => Crawl!IInv
  BY RequestsAssumption, CrawlInit
<1>2. Crawl!IInv /\ [Crawl!Next]_Crawl!vars => Crawl!IInv'
  BY RequestsAssumption, CrawlNext
<1> QED BY <1>1, <1>2, PTL DEF Crawl!Spec

\* "MaxPages [...] is a hard limit", and the assets exceed theirs by one per
\* worker at most, for any web and any request (scrape.go, reservePage and
\* downloadAsset).
THEOREM CapsAlwaysHold == Crawl!Spec => []CapsHold
<1>1. Crawl!IInv => Crawl!CapsHold
  <2> SUFFICES ASSUME Crawl!IInv PROVE Crawl!CapsHold
    OBVIOUS
  <2>1. Crawl!TypeOK /\ Crawl!ExcessIsUnderWay
    BY DEF Crawl!IInv
  <2>2. opts.assets \in Nat /\ opts.workers \in Nat
    BY <2>1, RequestsAssumption, CrawlOptions
  <2>3. Crawl!Cardinality(Crawl!MayCount) \in Nat /\ Crawl!Waiting \in 0..1
    BY RequestsAssumption, CrawlCounts DEF Crawl!MayCount, Crawl!Waiting
  <2> QED BY <2>1, <2>2, <2>3 DEF Crawl!ExcessIsUnderWay, Crawl!CapsHold
<1>2. Crawl!IInv => CapsHold
  BY <1>1 DEF CapsHold
<1> QED BY <1>2, CrawlInvariance, PTL

\* What else a worker's step does to the page it has and to the next level.
LEMMA FetchGains ==
  ASSUME Crawl!CrawlAssumption, Crawl!IInv, NEW u \in Urls, Crawl!Fetch(u)
  PROVE /\ found \subseteq found' /\ stored \subseteq stored'
        /\ worker'[u].at = "back" /\ depth < opts.depth /\ u \in fetched => Crawl!ScopeLinks(u) \subseteq found'
        /\ ~Crawl!LimitReached' => ~Crawl!LimitReached
        /\ fetched' # fetched => worker'[u].at = "probe"
        /\ worker[u].at = "fetch" => worker'[u].at \in {"probe", "back"}
        /\ worker[u].at = "probe" /\ worker'[u].at # "probe" /\ Crawl!Wanted(u) /\ ~Crawl!LimitReached => u \in stored'
<1>1. Crawl!WorkersAreRecords /\ pages \in Nat /\ assets \in Nat /\ opts.pages \in Nat /\ opts.assets \in Nat
  BY CrawlOptions DEF Crawl!IInv, Crawl!ExcessIsUnderWay
<1>2. ASSUME NEW place, NEW left, Crawl!Goto(u, place, left) PROVE worker'[u].at = place
  BY <1>1, <1>2, WorkerMoves
<1>3. CASE Crawl!FetchFails(u)
  BY <1>1, <1>2, <1>3 DEF Crawl!FetchFails, Crawl!Return, Crawl!counters, Crawl!LimitReached
<1>4. CASE Crawl!FetchFile(u)
  BY <1>1, <1>2, <1>4 DEF Crawl!FetchFile, Crawl!Responds, Crawl!Return, Crawl!books,
     Crawl!LimitReached
<1>5. CASE Crawl!FetchHtml(u)
  BY <1>1, <1>2, <1>5 DEF Crawl!FetchHtml, Crawl!Responds, Crawl!level, Crawl!counters,
     Crawl!LimitReached
<1>6. CASE Crawl!ProbeDir(u)
  BY <1>1, <1>2, <1>6 DEF Crawl!ProbeDir, Crawl!level, Crawl!counters, Crawl!books,
     Crawl!LimitReached
<1>7. CASE Crawl!SkipPage(u) \/ Crawl!RefusePage(u)
  BY <1>1, <1>2, <1>7 DEF Crawl!SkipPage, Crawl!RefusePage, Crawl!Probed, Crawl!Return,
     Crawl!counters, Crawl!books, Crawl!LimitReached
<1>8. CASE Crawl!ReservePage(u)
  BY <1>1, <1>2, <1>8 DEF Crawl!ReservePage, Crawl!Probed, Crawl!level, Crawl!LimitReached
<1>9. CASE Crawl!TakeAsset(u)
  <2>1. \E place, left : place \in {"assets", "download"} /\ Crawl!Goto(u, place, left)
    BY <1>9 DEF Crawl!TakeAsset
  <2> QED BY <1>1, <1>2, <1>9, <2>1 DEF Crawl!TakeAsset, Crawl!level, Crawl!counters,
             Crawl!books, Crawl!LimitReached
<1>10. CASE \E ok \in BOOLEAN : Crawl!Download(u, ok)
  BY <1>1, <1>2, <1>10 DEF Crawl!Download, Crawl!level, Crawl!books, Crawl!LimitReached
<1>11. CASE Crawl!AssetsEnd(u)
  BY <1>1, <1>2, <1>11 DEF Crawl!AssetsEnd, Crawl!Return, Crawl!counters, Crawl!books,
     Crawl!LimitReached
<1> QED BY <1>3, <1>4, <1>5, <1>6, <1>7, <1>8, <1>9, <1>10, <1>11 DEF Crawl!Fetch

\* A worker's step gives the links of its page to the next level before it is over.
LEMMA SeedFetch ==
  ASSUME Crawl!CrawlAssumption, Crawl!IInv, Crawl!SeedInv, NEW u \in Urls, Crawl!Fetch(u) PROVE Crawl!SeedInv'
<1>1. /\ UNCHANGED <<opts, crawlCtx, main, seed, depth, frontier, cur, seenPage, outcome>>
      /\ \A v \in Urls : v # u => worker'[v] = worker[v]
      /\ worker[u].at \in {"fetch", "probe", "assets", "download"}
      /\ worker'[u].at \in {"probe", "assets", "download", "back"}
      /\ fetched' \in {fetched, fetched \cup {u}}
  BY FetchFacts
<1>2. /\ found \subseteq found' /\ stored \subseteq stored'
      /\ worker'[u].at = "back" /\ depth < opts.depth /\ u \in fetched => Crawl!ScopeLinks(u) \subseteq found'
      /\ ~Crawl!LimitReached' => ~Crawl!LimitReached
      /\ fetched' # fetched => worker'[u].at = "probe"
      /\ worker[u].at = "fetch" => worker'[u].at \in {"probe", "back"}
      /\ worker[u].at = "probe" /\ worker'[u].at # "probe" /\ Crawl!Wanted(u) /\ ~Crawl!LimitReached => u \in stored'
  BY FetchGains
<1>3. /\ Crawl!TypeOK /\ Crawl!LevelsAreJoined /\ Crawl!WorkersAreOnce /\ Crawl!SeenAreTaken /\ Crawl!LevelsExist
      /\ opts.depth \in Nat /\ depth \in Nat
  BY CrawlOptions DEF Crawl!IInv, Crawl!SeedInv
<1>4. u \in seenPage /\ seenPage \subseteq Urls /\ fetched \subseteq seenPage
  BY <1>1, <1>3 DEF Crawl!WorkersAreOnce, Crawl!TypeOK
<1>5. main \in {"loop", "place", "join"}
  BY <1>1, <1>3 DEF Crawl!LevelsAreJoined, Crawl!TypeOK, Crawl!Active
<1>6. Crawl!SeenAreTaken'
  <2>1. (\A v \in seenPage : worker[v].at # "none" \/ (main = "place" /\ v = cur))'
    BY <1>1, <1>3, <1>4 DEF Crawl!SeenAreTaken
  <2>2. (\A v \in fetched : worker[v].at \notin {"none", "fetch"})'
    BY <1>1, <1>3, <1>4 DEF Crawl!SeenAreTaken
  <2>3. ASSUME ~Crawl!LimitReached', NEW v \in fetched', Crawl!Wanted(v)',
               worker'[v].at \in {"assets", "download", "back"}
        PROVE  v \in stored'
    <3>1. Crawl!Wanted(v) /\ ~Crawl!LimitReached
      BY <1>1, <1>2, <2>3 DEF Crawl!Wanted
    <3>2. v \in fetched
      BY <1>1, <1>2, <2>3
    <3>3. CASE v # u
      BY <1>1, <1>2, <1>3, <1>4, <2>3, <3>1, <3>2, <3>3 DEF Crawl!SeenAreTaken
    <3>4. CASE v = u
      <4>1. worker[u].at # "fetch"
        BY <1>3, <3>2, <3>4 DEF Crawl!SeenAreTaken
      <4>2. worker[u].at # "probe" => u \in stored
        BY <1>1, <1>3, <3>1, <3>2, <3>4, <4>1 DEF Crawl!SeenAreTaken
      <4> QED BY <1>2, <2>3, <3>1, <3>4, <4>2
    <3> QED BY <3>3, <3>4
  <2> QED BY <1>1, <1>3, <2>1, <2>2, <2>3 DEF Crawl!SeenAreTaken
<1>7. Crawl!LevelsExist'
  <2> SUFFICES ASSUME Crawl!Unhindered', seed >= 1
               PROVE  \E at \in [Urls -> 0..(opts.depth + 1)] : (IF Crawl!OnFirst THEN Crawl!Following(at) ELSE Crawl!Followed(at))'
    BY <1>1 DEF Crawl!LevelsExist
  <2>1. Crawl!Unhindered
    BY <1>1, <1>2 DEF Crawl!Unhindered, Crawl!Cancelled
  <2>2. PICK at \in [Urls -> 0..(opts.depth + 1)] : IF Crawl!OnFirst THEN Crawl!Following(at) ELSE Crawl!Followed(at)
    BY <1>3, <2>1 DEF Crawl!LevelsExist
  <2>3. Crawl!OnFirst' = Crawl!OnFirst /\ Crawl!First' = Crawl!First /\ \A v : Crawl!LinksFrom(Crawl!First, v)' = Crawl!LinksFrom(Crawl!First, v)
    BY <1>1 DEF Crawl!OnFirst, Crawl!First, Crawl!LinksFrom
  <2>4. CASE Crawl!OnFirst
    <3>1. seed = 1 /\ Crawl!Following(at)
      BY <2>2, <2>4 DEF Crawl!OnFirst
    <3>2. Crawl!ScopeLinks(u) = Crawl!LinksFrom(Crawl!First, u)
      BY <3>1 DEF Crawl!ScopeLinks, Crawl!InScope, Crawl!Site, Crawl!LinksFrom, Crawl!First
    <3>3. at[u] = depth
      BY <1>1, <1>4, <3>1 DEF Crawl!Following
    <3>4. ASSUME NEW w \in fetched', worker'[w].at = "back", at[w] < opts.depth,
                 NEW v \in Crawl!LinksFrom(Crawl!First, w)
          PROVE  \/ v \in seenPage /\ at[v] <= at[w] + 1
                 \/ v \in frontier /\ depth <= at[w] + 1
                 \/ v \in found' /\ main # "level" /\ depth <= at[w]
      <4>1. w \in fetched
        BY <1>1, <1>2, <3>4
      <4>2. CASE w = u
        BY <1>2, <1>3, <1>5, <3>2, <3>3, <3>4, <4>1, <4>2
      <4>3. CASE w # u
        BY <1>1, <1>2, <1>4, <3>1, <3>4, <4>1, <4>3 DEF Crawl!Following
      <4> QED BY <4>2, <4>3
    <3>5. \A v \in seenPage : worker'[v].at # "back" => at[v] = depth
      BY <1>1, <1>4, <3>1, <3>3 DEF Crawl!Following
    <3>6. Crawl!Following(at)'
      BY <1>1, <2>3, <3>1, <3>4, <3>5 DEF Crawl!Following
    <3> QED BY <2>3, <2>4, <3>6
  <2>5. CASE ~Crawl!OnFirst
    <3>1. Crawl!Followed(at)
      BY <2>2, <2>5
    <3>2. at[u] \in Nat /\ ~(at[u] <= opts.depth) /\ ~(at[u] < opts.depth)
      BY <1>1, <1>3, <1>4, <3>1 DEF Crawl!Followed
    <3>3. Crawl!Followed(at)'
      BY <1>1, <1>4, <2>3, <3>1, <3>2 DEF Crawl!Followed
    <3> QED BY <2>3, <2>5, <3>3
  <2> QED BY <2>4, <2>5
<1> QED BY <1>6, <1>7 DEF Crawl!SeedInv

\* Between the levels and the seeds, what is seen and taken stays; the levels of
\* the pages are handed on, or begin with the first seed.
LEMMA SeedMain ==
  ASSUME Crawl!CrawlAssumption, Crawl!IInv, Crawl!SeedInv,
         Crawl!Reject \/ Crawl!Begin \/ Crawl!Cancel \/ Crawl!Finish \/ Crawl!NextSeed \/ Crawl!StartLevel \/ Crawl!LoopEnds \/ Crawl!Join
  PROVE Crawl!SeedInv'
<1>1. /\ Crawl!TypeOK /\ Crawl!LevelsAreJoined /\ Crawl!SeenAreTaken /\ Crawl!LevelsExist
      /\ opts.depth \in Nat /\ depth \in Nat /\ seed \in Nat
  BY CrawlOptions DEF Crawl!IInv, Crawl!SeedInv
<1>2. /\ UNCHANGED <<opts, cur, seenPage, worker, pages, assets, fetched, stored, failed>>
      /\ Crawl!Unhindered' => Crawl!Unhindered
      /\ seed' \in {seed, seed + 1}
      /\ main = "place" <=> main' = "place"
      /\ outcome' = "done" => main' = "over"
  <2>1. outcome = "done" => main = "over"
    BY <1>1 DEF Crawl!SeenAreTaken
  <2>2. CASE Crawl!Reject \/ Crawl!Begin \/ Crawl!Cancel \/ Crawl!Finish
    BY <2>1, <2>2 DEF Crawl!Reject, Crawl!Begin, Crawl!Cancel, Crawl!Finish, Crawl!level,
       Crawl!seen, Crawl!counters, Crawl!books, Crawl!Unhindered, Crawl!Cancelled,
       Crawl!LimitReached
  <2>3. CASE Crawl!NextSeed \/ Crawl!StartLevel \/ Crawl!LoopEnds \/ Crawl!Join
    BY <2>1, <2>3 DEF Crawl!NextSeed, Crawl!StartLevel, Crawl!LoopEnds, Crawl!Join, Crawl!seen,
       Crawl!counters, Crawl!books, Crawl!Unhindered, Crawl!Cancelled,
       Crawl!LimitReached, Crawl!level
  <2> QED BY <2>2, <2>3
<1>3. Crawl!SeenAreTaken'
  BY <1>1, <1>2 DEF Crawl!SeenAreTaken, Crawl!LimitReached, Crawl!Wanted
<1>4. Crawl!First' = Crawl!First /\ \A v : Crawl!LinksFrom(Crawl!First, v)' = Crawl!LinksFrom(Crawl!First, v)
  BY <1>2 DEF Crawl!First, Crawl!LinksFrom
<1>5. seenPage \subseteq Urls /\ fetched \subseteq seenPage
  BY <1>1 DEF Crawl!TypeOK
<1>6. Crawl!LevelsExist'
  <2> SUFFICES ASSUME Crawl!Unhindered', seed' >= 1
               PROVE  \E at \in [Urls -> 0..(opts.depth + 1)] : (IF Crawl!OnFirst THEN Crawl!Following(at) ELSE Crawl!Followed(at))'
    BY <1>2 DEF Crawl!LevelsExist
  <2>1. Crawl!Unhindered /\ ~Crawl!Cancelled' /\ ~Crawl!Cancelled
    BY <1>2 DEF Crawl!Unhindered
  <2>2. \A at \in [Urls -> 0..(opts.depth + 1)] : Crawl!Followed(at) => Crawl!Followed(at)'
    BY <1>2, <1>4 DEF Crawl!Followed
  <2>3. CASE seed = 0
    <3>1. Crawl!NextSeed /\ seed' = 1 /\ main' = "level"
      BY <1>1, <2>3 DEF Crawl!Reject, Crawl!Begin, Crawl!Cancel, Crawl!Finish, Crawl!NextSeed,
         Crawl!StartLevel, Crawl!LoopEnds, Crawl!Join, Crawl!level,
         Crawl!LevelsAreJoined
    <3>2. depth' = 0 /\ frontier' = {Crawl!First}
      BY <2>3, <3>1 DEF Crawl!NextSeed, Crawl!First
    <3>3. [v \in Urls |-> 0] \in [Urls -> 0..(opts.depth + 1)] /\ \A v \in Urls : [w \in Urls |-> 0][v] = 0
      BY <1>1
    <3>4. seenPage' = {} /\ fetched' = {}
      BY <1>1, <1>2, <1>5, <2>3 DEF Crawl!SeenAreTaken
    <3>5. Crawl!Following([v \in Urls |-> 0])'
      BY <1>4, <3>1, <3>2, <3>3, <3>4 DEF Crawl!Following
    <3>6. Crawl!OnFirst'
      BY <3>1 DEF Crawl!OnFirst
    <3> QED BY <3>3, <3>5, <3>6
  <2>4. CASE seed >= 1
    <3>1. PICK at \in [Urls -> 0..(opts.depth + 1)] : IF Crawl!OnFirst THEN Crawl!Following(at) ELSE Crawl!Followed(at)
      BY <1>1, <2>1, <2>4 DEF Crawl!LevelsExist
    <3>2. CASE Crawl!Reject \/ Crawl!Begin \/ Crawl!Finish \/ Crawl!NextSeed
      <4>1. ~Crawl!OnFirst /\ ~Crawl!OnFirst'
        BY <1>1, <2>4, <3>2 DEF Crawl!OnFirst, Crawl!Reject, Crawl!Begin, Crawl!Finish,
           Crawl!NextSeed, Crawl!level
      <4> QED BY <2>2, <3>1, <4>1
    <3>3. CASE Crawl!Cancel
      BY <2>1, <3>3 DEF Crawl!Cancel, Crawl!Cancelled
    <3>4. CASE Crawl!LoopEnds
      <4>1. frontier = {} /\ main = "loop" /\ main' = "join"
            /\ UNCHANGED <<seed, depth, frontier, found>>
        BY <2>1, <3>4 DEF Crawl!LoopEnds, Crawl!LoopGoesOn, Crawl!level, Crawl!Unhindered
      <4>2. Crawl!Following(at) => Crawl!Following(at)'
        BY <1>2, <1>4, <4>1 DEF Crawl!Following
      <4>3. Crawl!OnFirst' = Crawl!OnFirst
        BY <4>1 DEF Crawl!OnFirst
      <4> QED BY <2>2, <3>1, <4>2, <4>3
    <3>5. CASE Crawl!Join
      <4>1. /\ main = "join" /\ Crawl!Active = {} /\ depth' = depth + 1 /\ frontier' = found /\ main' = "level"
            /\ seed' = seed
        BY <3>5 DEF Crawl!Join
      <4>2. \A v \in seenPage : worker[v].at = "back"
        BY <1>1, <1>5, <4>1 DEF Crawl!SeenAreTaken, Crawl!Active
      <4>3. \A v \in Urls : at[v] \in Nat
        BY <3>1
      <4>4. ASSUME Crawl!Following(at) PROVE Crawl!Following(at)'
        <5>1. Crawl!First \in seenPage /\ at[Crawl!First] = 0 /\ \A v \in seenPage : at[v] <= depth
          BY <4>1, <4>4 DEF Crawl!Following
        <5>2. ASSUME NEW w \in fetched, worker[w].at = "back", at[w] < opts.depth,
                     NEW v \in Crawl!LinksFrom(Crawl!First, w)
              PROVE  \/ v \in seenPage /\ at[v] <= at[w] + 1
                     \/ v \in found /\ depth + 1 <= at[w] + 1
          BY <1>1, <1>5, <4>1, <4>3, <4>4, <5>2 DEF Crawl!Following
        <5>3. \A v \in seenPage : at[v] <= depth + 1
          BY <1>1, <1>5, <4>3, <5>1
        <5> QED BY <1>2, <1>4, <4>1, <4>2, <5>1, <5>2, <5>3 DEF Crawl!Following
      <4>5. Crawl!OnFirst' = Crawl!OnFirst
        BY <4>1 DEF Crawl!OnFirst
      <4> QED BY <2>2, <3>1, <4>4, <4>5
    <3>6. CASE Crawl!StartLevel
      <4>1. /\ main = "level" /\ found' = {} /\ UNCHANGED <<seed, depth, frontier>>
            /\ main' = IF depth > opts.depth \/ frontier = {} THEN "seeds" ELSE "loop"
        BY <2>1, <3>6 DEF Crawl!StartLevel
      <4>2. CASE main' = "loop"
        <5>1. Crawl!Following(at) => Crawl!Following(at)'
          BY <1>2, <1>4, <4>1, <4>2 DEF Crawl!Following
        <5>2. Crawl!OnFirst' = Crawl!OnFirst
          BY <4>1, <4>2 DEF Crawl!OnFirst
        <5> QED BY <2>2, <3>1, <5>1, <5>2
      <4>3. CASE main' = "seeds"
        <5>1. \A v \in seenPage : worker[v].at = "back"
          BY <1>1, <1>5, <4>1 DEF Crawl!SeenAreTaken, Crawl!Active, Crawl!LevelsAreJoined
        <5>2. \A v \in Urls : at[v] \in Nat
          BY <3>1
        <5>3. depth > opts.depth \/ frontier = {}
          BY <4>1, <4>3
        <5>4. ASSUME Crawl!Following(at) PROVE Crawl!Followed(at)
          <6>1. Crawl!First \in seenPage /\ at[Crawl!First] = 0
            BY <1>1, <5>3, <5>4 DEF Crawl!Following
          <6>2. ASSUME NEW w \in fetched, at[w] < opts.depth, NEW v \in Crawl!LinksFrom(Crawl!First, w)
                PROVE  v \in seenPage /\ at[v] <= at[w] + 1
            BY <1>1, <1>5, <4>1, <5>1, <5>2, <5>3, <5>4, <6>2 DEF Crawl!Following
          <6> QED BY <5>1, <6>1, <6>2 DEF Crawl!Followed
        <5>5. ~Crawl!OnFirst'
          BY <4>3 DEF Crawl!OnFirst
        <5> QED BY <2>2, <3>1, <5>4, <5>5
      <4> QED BY <4>1, <4>2, <4>3
    <3> QED BY <3>2, <3>3, <3>4, <3>5, <3>6
  <2> QED BY <1>1, <2>3, <2>4
<1> QED BY <1>3, <1>6 DEF Crawl!SeedInv

\* A page is marked on the level of the loop; one that a later seed adds is on no
\* level of the first.
LEMMA SeedTake ==
  ASSUME Crawl!CrawlAssumption, Crawl!IInv, Crawl!SeedInv, NEW u \in Urls, Crawl!Take(u) PROVE Crawl!SeedInv'
<1>1. /\ Crawl!TypeOK /\ Crawl!LevelsAreJoined /\ Crawl!WorkersAreOnce /\ Crawl!SeenAreTaken /\ Crawl!LevelsExist
      /\ opts.depth \in Nat /\ depth \in Nat /\ seed \in Nat
  BY CrawlOptions DEF Crawl!IInv, Crawl!SeedInv
<1>2. /\ UNCHANGED <<opts, crawlCtx, seed, depth, found, worker, pages, assets, fetched, stored, failed, outcome>>
      /\ main = "loop" /\ u \in frontier /\ frontier' = frontier \ {u}
      /\ \/ u \in seenPage /\ UNCHANGED <<main, cur, seenPage>>
         \/ u \notin seenPage /\ seenPage' = seenPage \cup {u} /\ cur' = u /\ main' = "place"
  BY DEF Crawl!Take, Crawl!LoopGoesOn, Crawl!counters, Crawl!books
<1>3. Crawl!SeenAreTaken'
  BY <1>1, <1>2 DEF Crawl!SeenAreTaken, Crawl!LimitReached, Crawl!Wanted, Crawl!LevelsAreJoined
<1>4. Crawl!First' = Crawl!First /\ Crawl!OnFirst' = Crawl!OnFirst /\ \A v : Crawl!LinksFrom(Crawl!First, v)' = Crawl!LinksFrom(Crawl!First, v)
  BY <1>2 DEF Crawl!First, Crawl!LinksFrom, Crawl!OnFirst
<1>5. seenPage \subseteq Urls /\ fetched \subseteq seenPage
  BY <1>1 DEF Crawl!TypeOK
<1>6. Crawl!LevelsExist'
  <2> SUFFICES ASSUME Crawl!Unhindered', seed >= 1
               PROVE  \E at \in [Urls -> 0..(opts.depth + 1)] : (IF Crawl!OnFirst THEN Crawl!Following(at) ELSE Crawl!Followed(at))'
    BY <1>2 DEF Crawl!LevelsExist
  <2>1. Crawl!Unhindered
    BY <1>2 DEF Crawl!Unhindered, Crawl!Cancelled, Crawl!LimitReached
  <2>2. PICK at \in [Urls -> 0..(opts.depth + 1)] : IF Crawl!OnFirst THEN Crawl!Following(at) ELSE Crawl!Followed(at)
    BY <1>1, <2>1 DEF Crawl!LevelsExist
  <2>3. \A v \in Urls : at[v] \in Nat
    BY <2>2
  <2>4. CASE u \in seenPage
    <3>1. UNCHANGED <<main, cur, seenPage>>
      BY <1>2, <2>4
    <3>2. Crawl!Followed(at) => Crawl!Followed(at)'
      BY <1>2, <1>4, <3>1 DEF Crawl!Followed
    <3>3. ASSUME Crawl!Following(at) PROVE Crawl!Following(at)'
      <4>1. at[u] <= depth
        BY <2>4, <3>3 DEF Crawl!Following
      <4>2. ASSUME NEW w \in fetched, worker[w].at = "back", at[w] < opts.depth,
                   NEW v \in Crawl!LinksFrom(Crawl!First, w)
            PROVE  \/ v \in seenPage /\ at[v] <= at[w] + 1
                   \/ v \in frontier' /\ depth <= at[w] + 1
                   \/ v \in found /\ depth <= at[w]
        <5>1. \/ v \in seenPage /\ at[v] <= at[w] + 1
              \/ v \in frontier /\ depth <= at[w] + 1
              \/ v \in found /\ depth <= at[w]
          BY <3>3, <4>2 DEF Crawl!Following
        <5>2. v = u /\ depth <= at[w] + 1 => v \in seenPage /\ at[v] <= at[w] + 1
          BY <1>1, <1>5, <2>3, <2>4, <4>1
        <5> QED BY <1>2, <5>1, <5>2
      <4>3. (Crawl!First \in seenPage /\ at[Crawl!First] = 0) \/ (Crawl!First \in frontier' /\ depth = 0)
        <5>0. (Crawl!First \in seenPage /\ at[Crawl!First] = 0) \/ (Crawl!First \in frontier /\ depth = 0)
          BY <3>3 DEF Crawl!Following
        <5>1. CASE Crawl!First = u
          BY <2>3, <2>4, <4>1, <5>0, <5>1
        <5>2. CASE Crawl!First # u
          BY <1>2, <5>0, <5>2
        <5> QED BY <5>1, <5>2
      <4> QED BY <1>2, <1>4, <3>1, <3>3, <4>2, <4>3 DEF Crawl!Following
    <3> QED BY <1>4, <2>2, <3>2, <3>3
  <2>5. CASE u \notin seenPage
    <3>1. seenPage' = seenPage \cup {u} /\ cur' = u /\ main' = "place"
      BY <1>2, <2>5
    <3>2. worker[u].at = "none"
      BY <1>1, <2>5 DEF Crawl!WorkersAreOnce
    <3>3. CASE Crawl!OnFirst
      <4>1. PICK new \in [Urls -> 0..(opts.depth + 1)] : new[u] = depth /\ \A v \in Urls : v # u => new[v] = at[v]
        <5>1. [at EXCEPT ![u] = depth] \in [Urls -> 0..(opts.depth + 1)]
          BY <1>1, <1>2 DEF Crawl!LevelsAreJoined
        <5> QED BY <5>1
      <4>2. Crawl!Following(at)
        BY <2>2, <3>3
      <4>3. ASSUME NEW w \in fetched, worker[w].at = "back", new[w] < opts.depth,
                   NEW v \in Crawl!LinksFrom(Crawl!First, w)
            PROVE  \/ v \in seenPage' /\ new[v] <= new[w] + 1
                   \/ v \in frontier' /\ depth <= new[w] + 1
                   \/ v \in found /\ depth <= new[w]
        <5>1. w \in seenPage /\ w # u /\ new[w] = at[w]
          BY <1>5, <2>5, <4>1
        <5>2. \/ v \in seenPage /\ at[v] <= at[w] + 1
              \/ v \in frontier /\ depth <= at[w] + 1
              \/ v \in found /\ depth <= at[w]
          BY <4>2, <4>3, <5>1 DEF Crawl!Following
        <5>3. CASE v = u
          BY <1>1, <1>5, <2>3, <2>5, <3>1, <4>1, <5>1, <5>2, <5>3
        <5>4. CASE v # u
          BY <1>2, <1>5, <3>1, <4>1, <5>1, <5>2, <5>4
        <5> QED BY <5>3, <5>4
      <4>4. (Crawl!First \in seenPage' /\ new[Crawl!First] = 0) \/ (Crawl!First \in frontier' /\ depth = 0)
        <5>0. (Crawl!First \in seenPage /\ at[Crawl!First] = 0) \/ (Crawl!First \in frontier /\ depth = 0)
          BY <4>2 DEF Crawl!Following
        <5>1. CASE Crawl!First = u
          BY <2>5, <3>1, <4>1, <5>0, <5>1
        <5>2. CASE Crawl!First # u
          BY <1>2, <1>5, <3>1, <4>1, <5>0, <5>2
        <5> QED BY <5>1, <5>2
      <4>5. \A v \in seenPage' : new[v] <= depth
        BY <1>1, <1>5, <3>1, <4>1, <4>2 DEF Crawl!Following
      <4>6. \A v \in seenPage' : worker[v].at # "back" => new[v] = depth
        BY <1>1, <1>5, <3>1, <4>1, <4>2 DEF Crawl!Following
      <4>7. Crawl!Following(new)'
        BY <1>2, <1>4, <3>1, <4>3, <4>4, <4>5, <4>6 DEF Crawl!Following
      <4> QED BY <1>4, <3>3, <4>1, <4>7
    <3>4. CASE ~Crawl!OnFirst
      <4>1. PICK new \in [Urls -> 0..(opts.depth + 1)] : new[u] = opts.depth + 1 /\ \A v \in Urls : v # u => new[v] = at[v]
        <5>1. [at EXCEPT ![u] = opts.depth + 1] \in [Urls -> 0..(opts.depth + 1)]
          BY <1>1
        <5> QED BY <5>1
      <4>2. Crawl!Followed(at)
        BY <2>2, <3>4
      <4>3. \A v \in seenPage : new[v] = at[v]
        BY <1>5, <2>5, <4>1
      <4>4. ASSUME NEW v \in seenPage', new[v] <= opts.depth PROVE worker[v].at = "back"
        BY <1>1, <3>1, <4>1, <4>2, <4>3, <4>4 DEF Crawl!Followed
      <4>5. ASSUME NEW w \in fetched, new[w] < opts.depth, NEW v \in Crawl!LinksFrom(Crawl!First, w)
            PROVE  v \in seenPage' /\ new[v] <= new[w] + 1
        BY <1>5, <3>1, <4>2, <4>3, <4>5 DEF Crawl!Followed
      <4>6. Crawl!Followed(new)'
        BY <1>2, <1>4, <3>1, <4>2, <4>3, <4>4, <4>5 DEF Crawl!Followed
      <4> QED BY <1>4, <3>4, <4>1, <4>6
    <3> QED BY <3>3, <3>4
  <2> QED BY <2>4, <2>5
<1> QED BY <1>3, <1>6 DEF Crawl!SeedInv

\* The page that waited for a place gets its worker.
LEMMA SeedSpawn == ASSUME Crawl!CrawlAssumption, Crawl!IInv, Crawl!SeedInv, Crawl!Spawn PROVE Crawl!SeedInv'
<1>1. /\ Crawl!TypeOK /\ Crawl!WorkersAreRecords /\ Crawl!LevelsAreJoined /\ Crawl!WorkersAreOnce /\ Crawl!SeenAreTaken
      /\ Crawl!LevelsExist /\ opts.depth \in Nat /\ seed \in Nat
  BY CrawlOptions DEF Crawl!IInv, Crawl!SeedInv
<1>2. /\ UNCHANGED <<opts, crawlCtx, seed, depth, frontier, cur, found, seenPage, pages, assets, fetched,
                     stored, failed, outcome>>
      /\ main = "place" /\ main' = "loop" /\ worker' = [worker EXCEPT ![cur].at = "fetch"]
  BY DEF Crawl!Spawn, Crawl!level, Crawl!seen, Crawl!counters, Crawl!books
<1>3. cur \in Urls /\ worker[cur].at = "none" /\ seenPage \subseteq Urls /\ fetched \subseteq seenPage
  BY <1>1, <1>2 DEF Crawl!TypeOK, Crawl!WorkersAreOnce
<1>4. worker'[cur].at = "fetch" /\ \A v \in Urls : v # cur => worker'[v] = worker[v]
  <2>1. DOMAIN worker = Urls /\ worker[cur] = [at |-> worker[cur].at, left |-> worker[cur].left]
    BY <1>1, <1>3 DEF Crawl!WorkersAreRecords
  <2> QED BY <1>2, <1>3, <2>1
<1>5. cur \notin fetched
  BY <1>1, <1>3 DEF Crawl!SeenAreTaken
<1>6. Crawl!SeenAreTaken'
  BY <1>1, <1>2, <1>3, <1>4, <1>5 DEF Crawl!SeenAreTaken, Crawl!LimitReached, Crawl!Wanted
<1>7. Crawl!First' = Crawl!First /\ Crawl!OnFirst' = Crawl!OnFirst /\ \A v : Crawl!LinksFrom(Crawl!First, v)' = Crawl!LinksFrom(Crawl!First, v)
  BY <1>2 DEF Crawl!First, Crawl!LinksFrom, Crawl!OnFirst
<1>8. Crawl!LevelsExist'
  <2> SUFFICES ASSUME Crawl!Unhindered', seed >= 1
               PROVE  \E at \in [Urls -> 0..(opts.depth + 1)] : (IF Crawl!OnFirst THEN Crawl!Following(at) ELSE Crawl!Followed(at))'
    BY <1>2 DEF Crawl!LevelsExist
  <2>1. Crawl!Unhindered
    BY <1>2 DEF Crawl!Unhindered, Crawl!Cancelled, Crawl!LimitReached
  <2>2. PICK at \in [Urls -> 0..(opts.depth + 1)] : IF Crawl!OnFirst THEN Crawl!Following(at) ELSE Crawl!Followed(at)
    BY <1>1, <2>1 DEF Crawl!LevelsExist
  <2>3. \A v \in Urls : worker'[v].at = "back" <=> worker[v].at = "back"
    BY <1>3, <1>4
  <2>4. Crawl!Following(at) => Crawl!Following(at)'
    BY <1>2, <1>3, <1>7, <2>3 DEF Crawl!Following
  <2>5. Crawl!Followed(at) => Crawl!Followed(at)'
    BY <1>2, <1>3, <1>7, <2>3 DEF Crawl!Followed
  <2> QED BY <1>7, <2>2, <2>4, <2>5
<1> QED BY <1>6, <1>8 DEF Crawl!SeedInv

\* A crawl starts with no page seen.
LEMMA SeedInit == Crawl!CrawlAssumption /\ Crawl!Init => Crawl!SeedInv
<1> SUFFICES ASSUME Crawl!CrawlAssumption, NEW o \in Options, Crawl!InitWith(o) PROVE Crawl!SeedInv
  BY DEF Crawl!Init
<1> QED BY DEF Crawl!InitWith, Crawl!SeedInv, Crawl!SeenAreTaken, Crawl!LevelsExist

\* Every step preserves what is known of the first seed.
LEMMA SeedNext == ASSUME Crawl!CrawlAssumption, Crawl!IInv, Crawl!SeedInv, [Crawl!Next]_Crawl!vars PROVE Crawl!SeedInv'
<1>1. ASSUME NEW u \in Urls, Crawl!Fetch(u) PROVE Crawl!SeedInv'
  BY <1>1, SeedFetch
<1>2. ASSUME NEW u \in Urls, Crawl!Take(u) PROVE Crawl!SeedInv'
  BY <1>2, SeedTake
<1>3. CASE Crawl!Spawn
  BY <1>3, SeedSpawn
<1>4. CASE Crawl!Reject \/ Crawl!Begin \/ Crawl!Cancel \/ Crawl!Finish \/ Crawl!NextSeed \/ Crawl!StartLevel \/ Crawl!LoopEnds \/ Crawl!Join
  BY <1>4, SeedMain
<1>5. CASE UNCHANGED Crawl!vars
  <2>1. UNCHANGED <<opts, crawlCtx, main, seed, depth, frontier, cur, found, seenPage, worker, pages,
                    assets, fetched, stored, failed, outcome>>
    BY <1>5 DEF Crawl!vars, Crawl!level, Crawl!seen, Crawl!counters, Crawl!books
  <2>2. Crawl!SeenAreTaken' = Crawl!SeenAreTaken
    BY <2>1 DEF Crawl!SeenAreTaken, Crawl!LimitReached, Crawl!Wanted
  <2>3. Crawl!First' = Crawl!First /\ Crawl!OnFirst' = Crawl!OnFirst /\ Crawl!Unhindered' = Crawl!Unhindered
        /\ \A v : Crawl!LinksFrom(Crawl!First, v)' = Crawl!LinksFrom(Crawl!First, v)
    BY <2>1 DEF Crawl!First, Crawl!LinksFrom, Crawl!OnFirst, Crawl!Unhindered, Crawl!Cancelled,
       Crawl!LimitReached
  <2>4. \A at \in [Urls -> 0..(opts.depth + 1)] : (IF Crawl!OnFirst THEN Crawl!Following(at) ELSE Crawl!Followed(at))
                                  => (IF Crawl!OnFirst THEN Crawl!Following(at) ELSE Crawl!Followed(at))'
    BY <2>1, <2>3 DEF Crawl!Following, Crawl!Followed
  <2>5. Crawl!LevelsExist => Crawl!LevelsExist'
    BY <2>1, <2>3, <2>4 DEF Crawl!LevelsExist
  <2> QED BY <2>2, <2>5 DEF Crawl!SeedInv
<1> QED BY <1>1, <1>2, <1>3, <1>4, <1>5 DEF Crawl!Next, Crawl!Crawl

\* Every set of numbers has a smallest one.
LEMMA Smallest ==
  ASSUME NEW D \in SUBSET Nat, D # {} PROVE \E d \in D : \A e \in D : d <= e
<1>1. PICK d \in D : \A e \in D : ~(<<e, d>> \in OpToRel(<, Nat))
  BY WFMin, NatLessThanWellFounded
<1>2. \A e \in D : ~(e < d)
  BY <1>1 DEF OpToRel
<1>3. QED
  BY <1>2

\* The links of a page, from the pages that are k links away to those further by one.
Spreads(s, reach, n) ==
  /\ reach[0] = {s}
  /\ \A k \in 1..n :
       reach[k] = reach[k - 1] \cup UNION {Crawl!LinksFrom(s, u) : u \in reach[k - 1] \cap fetched}

\* The pages within n links are those that n such steps reach.
LEMMA WithinIsReached ==
  ASSUME NEW s, NEW n \in Nat
  PROVE \E reach : Crawl!Within(s, n) = reach[n] /\ Spreads(s, reach, n)
<1> DEFINE More(R) == R \cup UNION {Crawl!LinksFrom(s, u) : u \in R \cap fetched}
           Steps(f, m) == f = [k \in 0..m |-> IF k = 0 THEN {s} ELSE More(f[k - 1])]
           D == {m \in Nat : ~(\E f : Steps(f, m))}
<1>1. Crawl!Within(s, n) = (CHOOSE f : Steps(f, n))[n]
  BY Zenon DEF Crawl!Within
<1> HIDE DEF More, Steps
<1>2. ASSUME NEW d \in D, \A e \in D : d <= e PROVE FALSE
  <2>1. CASE d = 0
    <3>1. Steps([k \in 0..0 |-> {s}], 0)
      BY DEF Steps
    <3> QED BY <2>1, <3>1
  <2>2. CASE d # 0
    <3>1. d - 1 \in Nat /\ d - 1 \notin D
      BY <1>2, <2>2
    <3>2. PICK f : Steps(f, d - 1)
      BY <3>1
    <3> DEFINE g == [k \in 0..d |-> IF k = d THEN More(f[d - 1]) ELSE f[k]]
    <3>3. \A k \in 0..(d - 1) : f[k] = IF k = 0 THEN {s} ELSE More(f[k - 1])
      BY <3>1, <3>2 DEF Steps
    <3>4. \A k \in 0..d : g[k] = IF k = d THEN More(f[d - 1]) ELSE f[k]
      OBVIOUS
    <3>5. g = [k \in 0..d |-> g[k]]
      OBVIOUS
    <3> HIDE DEF g
    <3>6. ASSUME NEW k \in 0..d PROVE g[k] = IF k = 0 THEN {s} ELSE More(g[k - 1])
      <4>1. CASE k = d
        <5>1. g[k] = More(f[d - 1]) /\ g[k - 1] = f[d - 1]
          BY <2>2, <3>1, <3>4, <4>1
        <5> QED BY <2>2, <4>1, <5>1
      <4>2. CASE k # d
        <5>1. k \in 0..(d - 1) /\ g[k] = f[k] /\ (k # 0 => g[k - 1] = f[k - 1])
          BY <2>2, <3>1, <3>4, <4>2
        <5> QED BY <3>3, <5>1
      <4> QED BY <4>1, <4>2
    <3>7. Steps(g, d)
      BY <3>5, <3>6 DEF Steps
    <3> QED BY <3>7
  <2> QED BY <2>1, <2>2
<1>3. D = {}
  <2>1. D \in SUBSET Nat
    OBVIOUS
  <2> QED BY <1>2, <2>1, Smallest
<1>4. Steps(CHOOSE f : Steps(f, n), n)
  BY <1>3
<1>5. PICK f : Steps(f, n) /\ Crawl!Within(s, n) = f[n]
  BY <1>1, <1>4
<1>6. \A k \in 0..n : f[k] = IF k = 0 THEN {s} ELSE More(f[k - 1])
  BY <1>5 DEF Steps
<1>7. f[0] = {s} /\ \A k \in 1..n : f[k] = More(f[k - 1])
  BY <1>6
<1> QED BY <1>5, <1>7 DEF More, Spreads

\* Every page within a number of links was seen on that level at most.
LEMMA WithinIsSeen ==
  ASSUME NEW at \in [Urls -> 0..(opts.depth + 1)], NEW n \in Nat, n <= opts.depth, opts.depth \in Nat,
         seenPage \subseteq Urls, Crawl!Followed(at)
  PROVE Crawl!Within(Crawl!First, n) \subseteq {u \in seenPage : at[u] <= n}
<1>0. PICK s : s = Crawl!First
  OBVIOUS
<1>1. PICK reach : Crawl!Within(s, n) = reach[n] /\ Spreads(s, reach, n)
  BY WithinIsReached
<1> DEFINE Near(k) == {u \in seenPage : at[u] <= k}
           D == {k \in 0..n : ~(reach[k] \subseteq Near(k))}
<1>2. s \in seenPage /\ at[s] = 0
      /\ \A u \in fetched : at[u] < opts.depth =>
           \A v \in Crawl!LinksFrom(s, u) : v \in seenPage /\ at[v] <= at[u] + 1
  BY <1>0 DEF Crawl!Followed
<1>3. ASSUME NEW d \in D, \A e \in D : d <= e PROVE FALSE
  <2>1. d # 0
    BY <1>1, <1>2 DEF Spreads
  <2>2. d \in 1..n /\ d - 1 \in 0..n /\ d - 1 \notin D
    BY <1>3, <2>1
  <2>3. reach[d - 1] \subseteq Near(d - 1)
    BY <2>2
  <2>4. ASSUME NEW v \in reach[d] PROVE v \in Near(d)
    <3>1. v \in reach[d - 1] \/ \E u \in reach[d - 1] \cap fetched : v \in Crawl!LinksFrom(s, u)
      BY <1>1, <2>2, <2>4 DEF Spreads
    <3>2. CASE v \in reach[d - 1]
      BY <2>2, <2>3, <3>2
    <3>3. CASE \E u \in reach[d - 1] \cap fetched : v \in Crawl!LinksFrom(s, u)
      <4>1. PICK u \in fetched : u \in seenPage /\ at[u] <= d - 1 /\ v \in Crawl!LinksFrom(s, u)
        BY <2>3, <3>3
      <4>2. at[u] \in Nat /\ at[u] < opts.depth
        BY <2>2, <4>1
      <4>3. v \in seenPage /\ at[v] <= at[u] + 1
        BY <1>2, <4>1, <4>2
      <4>4. at[v] \in Nat
        BY <4>3
      <4> QED BY <2>2, <4>1, <4>2, <4>3, <4>4
    <3> QED BY <3>1, <3>2, <3>3
  <2> QED BY <2>4
<1>4. D = {}
  <2>1. D \in SUBSET Nat
    OBVIOUS
  <2> HIDE DEF D
  <2> QED BY <1>3, <2>1, Smallest
<1> QED BY <1>0, <1>1, <1>4

\* A crawl of the first seed that nothing cut short has fetched every page within
\* Depth links and kept those that are wanted, for every web, every request and
\* every order in which the workers return; and the redirect guard's one base
\* domain is that of every page under way (scrape.go, crawlSeed and fetchPage).
THEOREM CrawlsCover == Crawl!Spec => []CrawlCovers
<1>1. Crawl!Init => Crawl!IInv /\ Crawl!SeedInv
  BY RequestsAssumption, CrawlInit, SeedInit
<1>2. Crawl!IInv /\ Crawl!SeedInv /\ [Crawl!Next]_Crawl!vars => Crawl!IInv' /\ Crawl!SeedInv'
  BY RequestsAssumption, CrawlNext, SeedNext
<1>3. ASSUME Crawl!IInv, Crawl!SeedInv PROVE Crawl!FirstSeedComplete
  <2> SUFFICES ASSUME Crawl!RanFully(1) PROVE Crawl!Complete(Crawl!First)
    BY DEF Crawl!FirstSeedComplete, Crawl!First
  <2>1. Crawl!TypeOK /\ Crawl!SeenAreTaken /\ Crawl!LevelsExist /\ seed \in Nat /\ opts.depth \in Nat
    BY <1>3, RequestsAssumption, CrawlOptions DEF Crawl!IInv, Crawl!SeedInv
  <2>2. Crawl!Unhindered /\ seed >= 1 /\ ~Crawl!OnFirst
    BY <2>1 DEF Crawl!RanFully, Crawl!Unhindered, Crawl!OnFirst, Crawl!SeenAreTaken
  <2>3. PICK at \in [Urls -> 0..(opts.depth + 1)] : Crawl!Followed(at)
    BY <2>1, <2>2 DEF Crawl!LevelsExist
  <2>4. Crawl!Within(Crawl!First, opts.depth) \subseteq {u \in seenPage : at[u] <= opts.depth}
    BY <2>1, <2>3, WithinIsSeen DEF Crawl!TypeOK
  <2>5. \A u \in seenPage : at[u] <= opts.depth => worker[u].at = "back"
    BY <2>3 DEF Crawl!Followed
  <2>6. {u \in Crawl!Within(Crawl!First, opts.depth) \cap fetched : Crawl!Wanted(u)} \subseteq stored
    BY <2>1, <2>2, <2>4, <2>5 DEF Crawl!SeenAreTaken, Crawl!Unhindered
  <2> QED BY <2>4, <2>6 DEF Crawl!Complete
<1>4. Crawl!IInv => Crawl!OneDomainAtATime
  BY DEF Crawl!IInv, Crawl!TypeOK, Crawl!LevelsAreJoined, Crawl!LevelOnDomain,
     Crawl!OneDomainAtATime
<1>5. Crawl!IInv /\ Crawl!SeedInv => CrawlCovers
  BY <1>3, <1>4 DEF CrawlCovers
<1> QED BY <1>1, <1>2, <1>5, PTL DEF Crawl!Spec

-----------------------------------------------------------------------------
(* The pings.                                                              *)

\* What a call waits for is a reply that may come.
LEMMA KeyTyped == ASSUME Pinger!TypeOK, NEW p \in Pings PROVE Pinger!Key(p) \in Pinger!Replies
BY DEF Pinger!TypeOK, Pinger!Key, Pinger!Replies

\* Nothing is registered at first.
LEMMA PingInit == Pinger!PingAssumption /\ Pinger!Init => Pinger!IInv
<1> SUFFICES ASSUME Pinger!PingAssumption, Pinger!Init PROVE Pinger!IInv
  OBVIOUS
<1>1. Pinger!TypeOK
  <2>1. 0 \in 0..(Wrap - 1) /\ 0 \in 0..MaxStray
    BY DEF Pinger!PingAssumption
  <2> QED BY <2>1 DEF Pinger!Init, Pinger!TypeOK
<1> QED BY <1>1 DEF Pinger!Init, Pinger!IInv, Pinger!WaitersAreFound, Pinger!WaitersAreOwn,
           Pinger!RepliesAreOwn, Pinger!WakingIsEarned, Pinger!Over

\* What a step that touches neither the registrations nor the replies keeps.
LEMMA PingNext ==
  ASSUME Pinger!PingAssumption, Pinger!IInv, [Pinger!Next]_Pinger!vars PROVE Pinger!IInv'
<1> USE DEF Pinger!IInv
<1>1. ASSUME NEW p \in Pings, Pinger!NoAddress(p) PROVE Pinger!IInv'
  <2>1. /\ \A q \in Pings : Pinger!Key(q)' = Pinger!Key(q)
        /\ UNCHANGED <<seq, number, woken, waiters, air, reader, closed, stray, answered>>
        /\ call' = [call EXCEPT ![p] = "error"] /\ call[p] = "new"
    BY <1>1 DEF Pinger!NoAddress, Pinger!Key
  <2>2. Pinger!TypeOK' /\ Pinger!RepliesAreOwn' /\ Pinger!WakingIsEarned'
    BY <2>1 DEF Pinger!TypeOK, Pinger!RepliesAreOwn, Pinger!WakingIsEarned, Pinger!Vouched
  <2>3. Pinger!WaitersAreOwn'
    BY <2>1 DEF Pinger!TypeOK, Pinger!WaitersAreOwn
  <2>4. (\A q \in Pings : Pinger!Over(q)') => waiters' = {}
    BY <2>2, <2>3 DEF Pinger!WaitersAreOwn, Pinger!Over, Pinger!TypeOK
  <2> QED BY <2>1, <2>2, <2>3, <2>4 DEF Pinger!WaitersAreFound, Pinger!TypeOK
<1>2. ASSUME NEW p \in Pings, Pinger!Register(p) PROVE Pinger!IInv'
  <2>1. seq' \in 0..(Wrap - 1)
    BY <1>2 DEF Pinger!Register, Pinger!PingAssumption, Pinger!TypeOK
  <2>2. number' = [number EXCEPT ![p] = seq'] /\ call' = [call EXCEPT ![p] = "send"]
        /\ call[p] = "new"
    BY <1>2 DEF Pinger!Register
  <2>3. Pinger!TypeOK'
    BY <1>2, <2>1, <2>2 DEF Pinger!Register, Pinger!TypeOK, Pinger!Replies
  <2>4. \A q \in Pings : q # p => Pinger!Key(q)' = Pinger!Key(q) /\ call'[q] = call[q]
    BY <2>2 DEF Pinger!TypeOK, Pinger!Key
  <2>5. Pinger!Key(p)' = [host |-> Host[p], seq |-> seq'] /\ call'[p] = "send"
    BY <2>1, <2>2 DEF Pinger!TypeOK, Pinger!Key
  <2>6. waiters' = waiters \cup {[key |-> Pinger!Key(p)', ping |-> p]}
    BY <1>2, <2>5 DEF Pinger!Register
  <2>7. /\ \A w \in waiters : w.ping \in Pings /\ w.ping # p
        /\ \A q \in answered : q \in Pings /\ q # p
    BY <2>2 DEF Pinger!WaitersAreOwn, Pinger!RepliesAreOwn, Pinger!TypeOK
  <2>8. Pinger!WaitersAreFound'
    BY <1>2, <2>4, <2>5, <2>6 DEF Pinger!Register, Pinger!WaitersAreFound, Pinger!Over
  <2>9. Pinger!WaitersAreOwn'
    BY <2>4, <2>5, <2>6, <2>7 DEF Pinger!WaitersAreOwn
  <2>10. Pinger!RepliesAreOwn'
    BY <1>2, <2>4, <2>7 DEF Pinger!Register, Pinger!RepliesAreOwn
  <2>11. Pinger!WakingIsEarned'
    BY <1>2, <2>4, <2>5 DEF Pinger!Register, Pinger!WakingIsEarned, Pinger!Vouched
  <2> QED BY <2>3, <2>8, <2>9, <2>10, <2>11
<1>3. ASSUME NEW p \in Pings, NEW arrives \in BOOLEAN, Pinger!Send(p, arrives) PROVE Pinger!IInv'
  <2>1. Pinger!Key(p) \in Pinger!Replies
    BY KeyTyped
  <2>2. call' = [call EXCEPT ![p] = "wait"] /\ call[p] = "send"
    BY <1>3 DEF Pinger!Send
  <2>3. \A q \in Pings : Pinger!Key(q)' = Pinger!Key(q)
    BY <1>3 DEF Pinger!Send, Pinger!Key
  <2> QED
    BY <1>3, <2>1, <2>2, <2>3 DEF Pinger!Send, Pinger!TypeOK, Pinger!WaitersAreFound,
       Pinger!WaitersAreOwn, Pinger!RepliesAreOwn,
       Pinger!WakingIsEarned, Pinger!Over, Pinger!Vouched
<1>4. ASSUME NEW p \in Pings, Pinger!SendFails(p) \/ Pinger!Answered(p) \/ Pinger!TimesOut(p) \/ Pinger!Closed(p) PROVE Pinger!IInv'
  <2>1. \A q \in Pings : Pinger!Key(q)' = Pinger!Key(q)
    BY <1>4 DEF Pinger!SendFails, Pinger!Answered, Pinger!TimesOut, Pinger!Closed, Pinger!Key
  <2>2. UNCHANGED <<seq, number, woken, waiters, air, reader, closed, stray, answered>>
    BY <1>4 DEF Pinger!SendFails, Pinger!Answered, Pinger!TimesOut, Pinger!Closed
  <2>3. PICK to \in {"leave_ok", "leave_error"} :
          /\ call' = [call EXCEPT ![p] = to]
          /\ call[p] \in {"send", "wait"} /\ (to = "leave_ok" => p \in woken)
    BY <1>4 DEF Pinger!SendFails, Pinger!Answered, Pinger!TimesOut, Pinger!Closed
  <2> QED
    BY <2>1, <2>2, <2>3 DEF Pinger!TypeOK, Pinger!WaitersAreFound, Pinger!WaitersAreOwn,
       Pinger!RepliesAreOwn,
       Pinger!WakingIsEarned, Pinger!Over, Pinger!Vouched
<1>5. ASSUME NEW p \in Pings, Pinger!Leave(p) PROVE Pinger!IInv'
  <2>1. /\ \A q \in Pings : Pinger!Key(q)' = Pinger!Key(q)
        /\ UNCHANGED <<seq, number, woken, air, reader, closed, stray, answered>>
        /\ waiters' = {w \in waiters : w.ping # p}
    BY <1>5 DEF Pinger!Leave, Pinger!Key, Pinger!RemoveWaiter
  <2>2. PICK to \in {"ok", "error"} :
          /\ call' = [call EXCEPT ![p] = to]
          /\ call[p] \in {"leave_ok", "leave_error"} /\ (to = "ok" => call[p] = "leave_ok")
    BY <1>5 DEF Pinger!Leave, Pinger!TypeOK
  <2>3. Pinger!TypeOK' /\ Pinger!RepliesAreOwn' /\ Pinger!WakingIsEarned'
    BY <2>1, <2>2 DEF Pinger!TypeOK, Pinger!RepliesAreOwn, Pinger!WakingIsEarned, Pinger!Vouched
  <2>4. Pinger!WaitersAreOwn'
    BY <2>1, <2>2 DEF Pinger!TypeOK, Pinger!WaitersAreOwn
  <2>5. ASSUME NEW q \in Pings, call'[q] \in {"send", "wait"}
        PROVE ([key |-> Pinger!Key(q), ping |-> q] \in waiters \/ q \in reader \cup woken)'
    <3>1. q # p /\ call[q] \in {"send", "wait"}
      BY <2>2, <2>5 DEF Pinger!TypeOK
    <3> QED BY <2>1, <3>1 DEF Pinger!WaitersAreFound
  <2>6. (\A q \in Pings : Pinger!Over(q)') => waiters' = {}
    BY <2>4, <2>3 DEF Pinger!WaitersAreOwn, Pinger!Over, Pinger!TypeOK
  <2> QED BY <2>3, <2>4, <2>5, <2>6 DEF Pinger!WaitersAreFound
<1>6. ASSUME NEW r \in Pinger!Replies, Pinger!Receive(r) PROVE Pinger!IInv'
  <2>1. /\ \A q \in Pings : Pinger!Key(q)' = Pinger!Key(q)
        /\ UNCHANGED <<call, seq, number, woken, closed, stray, answered>>
        /\ reader = {} /\ r \in air
        /\ waiters' = {w \in waiters : w.key # r} /\ air' = air \ {r}
        /\ reader' = {w.ping : w \in {w \in waiters : w.key = r}}
    BY <1>6 DEF Pinger!Receive, Pinger!Key, Pinger!Matches
  <2>2. Pinger!TypeOK' /\ Pinger!RepliesAreOwn' /\ Pinger!WaitersAreOwn'
    BY <2>1 DEF Pinger!TypeOK, Pinger!RepliesAreOwn, Pinger!WaitersAreOwn
  <2>3. Pinger!WakingIsEarned'
    <3>1. ASSUME NEW w \in waiters, w.key = r PROVE Pinger!Vouched(w.ping)
      <4>1. PICK q \in answered : r = Pinger!Key(q)
        BY <2>1 DEF Pinger!RepliesAreOwn
      <4>2. w.key = Pinger!Key(w.ping)
        BY DEF Pinger!WaitersAreOwn
      <4>3. Host[q] = Host[w.ping]
        BY <3>1, <4>1, <4>2 DEF Pinger!Key
      <4> QED BY <4>3 DEF Pinger!Vouched
    <3> QED BY <2>1, <3>1 DEF Pinger!WakingIsEarned, Pinger!Vouched
  <2>4. Pinger!WaitersAreFound'
    BY <2>1 DEF Pinger!WaitersAreFound, Pinger!Over, Pinger!Key
  <2> QED BY <2>2, <2>3, <2>4
<1>7. ASSUME NEW p \in Pings, Pinger!Wake(p) PROVE Pinger!IInv'
  BY <1>7 DEF Pinger!Wake, Pinger!TypeOK, Pinger!WaitersAreFound, Pinger!WaitersAreOwn,
     Pinger!RepliesAreOwn, Pinger!WakingIsEarned,
     Pinger!Over, Pinger!Key, Pinger!Vouched
<1>8. ASSUME NEW r \in Pinger!Replies, Pinger!Repeat(r) PROVE Pinger!IInv'
  BY <1>8 DEF Pinger!Repeat, Pinger!TypeOK, Pinger!WaitersAreFound, Pinger!WaitersAreOwn,
     Pinger!RepliesAreOwn, Pinger!WakingIsEarned,
     Pinger!Over, Pinger!Key, Pinger!Vouched, Pinger!PingAssumption
<1>9. CASE Pinger!Close
  BY <1>9 DEF Pinger!Close, Pinger!TypeOK, Pinger!WaitersAreFound, Pinger!WaitersAreOwn,
     Pinger!RepliesAreOwn, Pinger!WakingIsEarned,
     Pinger!Over, Pinger!Key, Pinger!Vouched
<1>10. CASE UNCHANGED Pinger!vars
  BY <1>10 DEF Pinger!vars, Pinger!TypeOK, Pinger!WaitersAreFound, Pinger!WaitersAreOwn,
     Pinger!RepliesAreOwn, Pinger!WakingIsEarned,
     Pinger!Over, Pinger!Key, Pinger!Vouched
<1> QED
  BY <1>1, <1>2, <1>3, <1>4, <1>5, <1>6, <1>7, <1>8, <1>9, <1>10 DEF Pinger!Next, Pinger!Ask,
     Pinger!Ping, Pinger!Read

\* "wait" finds its waiter or has been woken, no waiter is left behind, and a host
\* is called alive only if it answered: whatever arrives late, twice or unasked,
\* and whenever the prober is closed (ping.go, Ping and readLoop).
THEOREM PingHonesty == Pinger!Spec => []PingsAreHonest
<1>1. Pinger!Init => Pinger!IInv
  BY RequestsAssumption, PingInit
<1>2. Pinger!IInv /\ [Pinger!Next]_Pinger!vars => Pinger!IInv'
  BY RequestsAssumption, PingNext
<1>3. Pinger!IInv => PingsAreHonest
  BY DEF PingsAreHonest, Pinger!IInv, Pinger!PingsAreHonest, Pinger!OnlyAliveHosts, Pinger!WakingIsEarned,
     Pinger!Vouched
<1> QED
  BY <1>1, <1>2, <1>3, PTL DEF Pinger!Spec

-----------------------------------------------------------------------------
(* The discovery of live hosts.                                            *)

\* The instance counts as this module does.
LEMMA SweepSets ==
  /\ \A S : Sweep!Cardinality(S) = Cardinality(S)
  /\ \A S : Sweep!IsFiniteSet(S) <=> IsFiniteSet(S)
BY DEF Sweep!Cardinality, Sweep!IsFiniteSet, Cardinality, IsFiniteSet

\* A remainder is the number itself when it is smaller, and none is left of a
\* multiple.
LEMMA Remainders ==
  ASSUME NEW x \in Nat, NEW s \in Nat \ {0}
  PROVE /\ x % s \in 0..(s - 1) /\ (x < s => x % s = x)
        /\ x % s = 0 => x = s * (x \div s) /\ x \div s \in Nat
OBVIOUS

\* What a change of a host's place leaves of the rest of it.
LEMMA HostFields ==
  /\ Sweep!Idle \in Sweep!HostRecords
  /\ Sweep!Idle.at = "none" /\ Sweep!Idle.next = 1
  /\ Sweep!Idle.dialing = {} /\ Sweep!Idle.first = 0
  /\ \A r \in Sweep!HostRecords, x \in {"ports", "count", "back"} :
       LET moved == [r EXCEPT !.at = x]
       IN moved \in Sweep!HostRecords /\ moved.at = x /\ moved.next = r.next
          /\ moved.dialing = r.dialing /\ moved.first = r.first
BY DEF Sweep!Idle, Sweep!HostRecords

\* Of two multiples of s the larger is larger by s.
LEMMA NextMultiple ==
  ASSUME NEW s \in Nat, NEW q \in Nat, NEW m \in Nat, s * q < s * m PROVE s * q + s <= s * m
<1>1. q < m
  <2> SUFFICES ASSUME m <= q PROVE FALSE
    OBVIOUS
  <2>1. s * m <= s * q
    OBVIOUS
  <2> QED BY <2>1
<1>2. s * (q + 1) <= s * m
  BY <1>1
<1>3. s * (q + 1) = s * q + s
  OBVIOUS
<1> QED BY <1>2, <1>3

\* A block ends at the last address or before it: its base and the space are
\* both multiples of its size.
LEMMA BlockFits ==
  ASSUME Sweep!HostScanAssumption, NEW net \in Sweep!Networks
  PROVE /\ Sweep!Count(net) \in Nat \ {0} /\ Sweep!Lo(net) \in Nat
        /\ Sweep!Lo(net) + Sweep!Count(net) <= Space
        /\ Sweep!Hi(net) = Sweep!Lo(net) + Sweep!Count(net) - 1
        /\ Sweep!Usable(net) = Sweep!Lo(net)..Sweep!Hi(net)
<1> DEFINE b == net.base
           s == net.size
<1>1. b \in Nat /\ s \in Nat \ {0} /\ b < Space /\ Space \in Nat \ {0} /\ b % s = 0 /\ Space % s = 0
  <2>1. b \in Sweep!Addresses /\ s \in Sizes /\ b % s = 0
    BY DEF Sweep!Networks
  <2>2. Space % s = 0
    BY <2>1 DEF Sweep!HostScanAssumption
  <2>3. b \in Nat /\ s \in Nat \ {0} /\ b < Space /\ Space \in Nat \ {0}
    <3>1. Space \in Nat \ {0} /\ s \in 1..Space /\ b \in 0..(Space - 1)
      BY <2>1 DEF Sweep!HostScanAssumption, Sweep!Addresses
    <3> QED BY <3>1
  <2> QED BY <2>1, <2>2, <2>3
<1> HIDE DEF b, s
<1>2. PICK q \in Nat, m \in Nat : b = s * q /\ Space = s * m
  <2>1. b = s * (b \div s) /\ b \div s \in Nat
    BY <1>1, Remainders
  <2>2. Space = s * (Space \div s) /\ Space \div s \in Nat
    BY <1>1, Remainders
  <2> QED BY <2>1, <2>2
<1>3. b + s <= Space
  BY <1>1, <1>2, NextMultiple
<1>4. (b + s - 1) % Space = b + s - 1 /\ (s > 2 => (b + s - 2) % Space = b + s - 2)
  <2>1. b + s - 1 \in Nat /\ b + s - 1 < Space /\ (s > 2 => b + s - 2 \in Nat /\ b + s - 2 < Space)
    BY <1>1, <1>3
  <2> QED BY <1>1, <2>1, Remainders
<1>5. /\ Sweep!Count(net) = IF s <= 2 THEN s ELSE s - 2
      /\ Sweep!Lo(net) = IF s <= 2 THEN b ELSE b + 1
      /\ Sweep!Hi(net) = IF s <= 2 THEN (b + s - 1) % Space ELSE (b + s - 2) % Space
      /\ Sweep!Usable(net) = IF s <= 2 THEN b..(b + s - 1) ELSE (b + 1)..(b + s - 2)
  <2>1. /\ Sweep!Count(net) = IF s <= 2 THEN s ELSE s - 2
        /\ Sweep!Lo(net) = IF s <= 2 THEN b ELSE b + 1
    BY DEF Sweep!Count, Sweep!Lo, Sweep!Whole, b, s
  <2>2. Sweep!Hi(net) = IF s <= 2 THEN (b + s - 1) % Space ELSE (b + s - 2) % Space
    BY DEF Sweep!Hi, Sweep!Whole, b, s
  <2>3. Sweep!Usable(net) = IF s <= 2 THEN b..(b + s - 1) ELSE (b + 1)..(b + s - 2)
    BY DEF Sweep!Usable, Sweep!Whole, b, s
  <2> QED BY <2>1, <2>2, <2>3
<1>6. CASE s <= 2
  BY <1>1, <1>3, <1>4, <1>5, <1>6
<1>7. CASE s > 2
  <2>1. Sweep!Hi(net) = b + s - 2 /\ Sweep!Lo(net) = b + 1 /\ Sweep!Count(net) = s - 2
    BY <1>1, <1>4, <1>5, <1>7
  <2> QED BY <1>1, <1>3, <1>5, <1>7, <2>1
<1> QED BY <1>1, <1>6, <1>7

\* A discovery starts with nothing visited, dialled or found.
LEMMA SweepInit == Sweep!HostScanAssumption /\ Sweep!Init => Sweep!IInv
<1> SUFFICES ASSUME Sweep!HostScanAssumption,
                    NEW net \in Sweep!Networks, Sweep!InitIn(net, "live", "each")
             PROVE  Sweep!IInv
  BY DEF Sweep!Init
<1>1. /\ network = net /\ sweepCtx = "live" /\ sweepMain = "each" /\ reached = Sweep!Lo(net)
      /\ visited = <<>> /\ live = <<>> /\ done = 0 /\ told = 0
      /\ host = [a \in Sweep!Addresses |-> Sweep!Idle]
  BY DEF Sweep!InitIn
<1>2. reached \in Sweep!Addresses
  BY <1>1, BlockFits DEF Sweep!Addresses, Sweep!HostScanAssumption
<1>3. Sweep!TypeOK
  BY <1>1, <1>2, HostFields DEF Sweep!TypeOK
<1>4. Sweep!Reached = {} /\ Sweep!Back = {}
  BY <1>1 DEF Sweep!Reached, Sweep!Back, Sweep!Idle
<1>5. Sweep!WalkIsAhead
  BY <1>1, <1>4, BlockFits DEF Sweep!WalkIsAhead
<1>6. Sweep!DialsAreHonest
  BY <1>1 DEF Sweep!DialsAreHonest, Sweep!Stopped, Sweep!Idle, Sweep!HostScanAssumption
<1>7. Sweep!ListFollowsProbes
  BY <1>1 DEF Sweep!ListFollowsProbes, Sweep!Idle
<1>8. Sweep!CountFollowsHosts
  BY <1>1, <1>4, BlockFits, FS_EmptySet, SweepSets DEF Sweep!CountFollowsHosts
<1> QED BY <1>3, <1>5, <1>6, <1>7, <1>8 DEF Sweep!IInv

\* The walk: a step of Visit begins the host the walk has reached, which nobody
\* has begun, and the walk stays in the block.
LEMMA VisitIInv == ASSUME Sweep!HostScanAssumption, Sweep!IInv, Sweep!Visit PROVE Sweep!IInv'
<1> DEFINE n == Len(visited)
           lo == Sweep!Lo(network)
           count == Sweep!Count(network)
<1>1. /\ lo \in Nat /\ count \in Nat \ {0} /\ lo + count <= Space
      /\ Sweep!Hi(network) = lo + count - 1 /\ Space \in Nat \ {0}
  BY BlockFits DEF Sweep!IInv, Sweep!TypeOK, Sweep!HostScanAssumption
<1>2. /\ n \in Nat /\ n < count /\ reached = lo + n /\ reached \in Sweep!Addresses
      /\ sweepMain = "each" /\ ~Sweep!Cancelled
      /\ Sweep!Reached = lo..(lo + n - 1) /\ visited \in Seq(Sweep!Addresses)
  BY DEF Sweep!IInv, Sweep!TypeOK, Sweep!WalkIsAhead, Sweep!Visit
<1>3. /\ visited' = Append(visited, reached) /\ host' = [host EXCEPT ![reached].at = "ports"]
      /\ reached' = (reached + 1) % Space
      /\ sweepMain' = IF reached = Sweep!Hi(network) THEN "wait" ELSE "each"
      /\ UNCHANGED <<network, sweepCtx, live, done, told>>
  BY DEF Sweep!Visit, Sweep!Spawn
<1>4. host[reached] = Sweep!Idle /\ host \in [Sweep!Addresses -> Sweep!HostRecords]
  <2>1. reached \notin Sweep!Reached
    BY <1>1, <1>2
  <2> QED BY <1>2, <2>1 DEF Sweep!IInv, Sweep!DialsAreHonest, Sweep!Reached, Sweep!TypeOK
<1>5. /\ \A a \in Sweep!Addresses : a # reached => host'[a] = host[a]
      /\ host'[reached].at = "ports" /\ host'[reached].next = 1
      /\ host'[reached].dialing = {} /\ host'[reached].first = 0
      /\ host' \in [Sweep!Addresses -> Sweep!HostRecords]
  <2>1. /\ host[reached].at = "none" /\ host[reached].next = 1
        /\ host[reached].dialing = {} /\ host[reached].first = 0
    BY <1>4 DEF Sweep!Idle
  <2>2. host' = [host EXCEPT ![reached].at = "ports"] /\ reached \in Sweep!Addresses
    BY <1>2, <1>3
  <2>3. host \in [Sweep!Addresses -> Sweep!HostRecords]
    BY <1>4
  <2> QED BY <2>1, <2>2, <2>3 DEF Sweep!HostRecords
<1>6. Sweep!Reached' = lo..(lo + n) /\ Sweep!Back' = Sweep!Back
  <2>1. host[reached].at = "none" /\ host'[reached].at = "ports"
    BY <1>4, <1>5 DEF Sweep!Idle
  <2>2. Sweep!Reached' = Sweep!Reached \cup {reached} /\ Sweep!Back' = Sweep!Back
    BY <1>2, <1>5, <2>1 DEF Sweep!Reached, Sweep!Back
  <2> QED BY <1>1, <1>2, <2>2
<1>7. /\ reached' \in Sweep!Addresses
      /\ (sweepMain' = "each" => reached' = lo + n + 1 /\ n + 1 < count)
      /\ (sweepMain' # "each" => n + 1 = count)
  <2>1. /\ reached + 1 < Space => (reached + 1) % Space = reached + 1
        /\ (reached + 1) % Space \in 0..(Space - 1)
    <3>1. reached + 1 \in Nat /\ Space \in Nat \ {0}
      BY <1>1, <1>2
    <3> HIDE <1>1, <1>2
    <3> QED BY <3>1, Remainders
  <2>2. reached' \in Sweep!Addresses
    BY <1>3, <2>1 DEF Sweep!Addresses
  <2>3. reached = lo + count - 1 <=> sweepMain' = "wait"
    BY <1>1, <1>2, <1>3
  <2>4. sweepMain' = "wait" \/ sweepMain' = "each"
    BY <1>3
  <2>5. n + 1 < count => reached' = reached + 1
    BY <1>1, <1>2, <1>3, <2>1
  <2> QED BY <1>1, <1>2, <2>2, <2>3, <2>4, <2>5
<1>8. Sweep!TypeOK'
  BY <1>2, <1>3, <1>5, <1>7 DEF Sweep!IInv, Sweep!TypeOK
<1>9. Sweep!WalkIsAhead'
  <2>1. Len(visited') = n + 1 /\ lo' = lo /\ count' = count /\ Sweep!Cancelled' = Sweep!Cancelled
    BY <1>2, <1>3 DEF Sweep!Cancelled, Sweep!Lo, Sweep!Count, Sweep!Whole
  <2>2. \A k \in DOMAIN visited' : visited'[k] = lo + k - 1
    <3>1. /\ DOMAIN visited' = 1..(n + 1) /\ visited'[n + 1] = lo + n
          /\ \A k \in 1..n : visited'[k] = visited[k]
      BY <1>2, <1>3
    <3>2. \A k \in 1..n : visited[k] = lo + k - 1
      BY <1>2 DEF Sweep!IInv, Sweep!WalkIsAhead
    <3>3. ASSUME NEW k \in 1..(n + 1) PROVE visited'[k] = lo + k - 1
      <4>1. k \in 1..n \/ k = n + 1
        BY <1>2
      <4>2. lo + (n + 1) - 1 = lo + n
        BY <1>1, <1>2
      <4> QED BY <3>1, <3>2, <4>1, <4>2
    <3> QED BY <3>1, <3>3
  <2>3. sweepMain' \in {"each", "wait"}
    BY <1>3
  <2> QED BY <1>1, <1>2, <1>6, <1>7, <2>1, <2>2, <2>3 DEF Sweep!WalkIsAhead
<1>10. Sweep!DialsAreHonest'
  <2>1. \A k \in DOMAIN SweepPorts : ~(k < 1)
    BY DEF Sweep!HostScanAssumption
  <2> QED BY <1>2, <1>3, <1>5, <2>1 DEF Sweep!IInv, Sweep!DialsAreHonest, Sweep!Stopped,
             Sweep!Cancelled, Sweep!Idle
<1>11. Sweep!ListFollowsProbes'
  <2>1. \A k \in DOMAIN live : live[k] \in Sweep!Addresses /\ live[k] # reached
    BY <1>4, HostFields DEF Sweep!IInv, Sweep!TypeOK, Sweep!ListFollowsProbes
  <2>2. /\ live' = live /\ Sweep!Cancelled' = Sweep!Cancelled
        /\ \A b \in Sweep!Addresses : Sweep!Answers(b)' = Sweep!Answers(b)
    BY <1>3 DEF Sweep!Cancelled, Sweep!Answers
  <2>3. /\ \A k \in DOMAIN live : host'[live[k]] = host[live[k]]
        /\ \A b \in Sweep!Addresses :
             host'[b].at \in {"count", "back"} => host[b].at \in {"count", "back"}
    BY <1>5, <2>1
  <2> QED BY <2>1, <2>2, <2>3 DEF Sweep!IInv, Sweep!ListFollowsProbes
<1>12. Sweep!CountFollowsHosts'
  BY <1>3, <1>6 DEF Sweep!IInv, Sweep!CountFollowsHosts, Sweep!Count, Sweep!Whole
<1> QED BY <1>8, <1>9, <1>10, <1>11, <1>12 DEF Sweep!IInv

\* Cancelling, and what the walk does without visiting.
LEMMA WalkIInv ==
  ASSUME Sweep!HostScanAssumption, Sweep!IInv,
         Sweep!Cancel \/ Sweep!VisitStops \/ Sweep!Return \/ UNCHANGED Sweep!vars
  PROVE  Sweep!IInv'
<1>1. /\ UNCHANGED <<network, reached, host, visited, live, done, told>>
      /\ sweepCtx' \in {"live", "cancelled"} /\ (Sweep!Cancelled => Sweep!Cancelled')
      /\ sweepMain' \in {"each", "wait", "over"}
  BY DEF Sweep!Cancel, Sweep!VisitStops, Sweep!Return, Sweep!vars, Sweep!IInv, Sweep!TypeOK,
     Sweep!Cancelled
<1>2. /\ sweepMain' # sweepMain => sweepMain' \in {"wait", "over"}
      /\ sweepMain' = "wait" /\ sweepMain = "each" => Sweep!Cancelled /\ Sweep!Cancelled'
      /\ sweepMain' = "over" /\ sweepMain # "over" => sweepMain = "wait" /\ Sweep!Active = {}
  BY DEF Sweep!Cancel, Sweep!VisitStops, Sweep!Return, Sweep!vars, Sweep!Cancelled
<1>3. Sweep!TypeOK'
  BY <1>1 DEF Sweep!IInv, Sweep!TypeOK
<1>4. /\ Sweep!Reached' = Sweep!Reached /\ Sweep!Active' = Sweep!Active /\ Sweep!Back' = Sweep!Back
      /\ Sweep!Lo(network)' = Sweep!Lo(network) /\ Sweep!Count(network)' = Sweep!Count(network)
  BY <1>1 DEF Sweep!Reached, Sweep!Active, Sweep!Back, Sweep!Lo, Sweep!Count, Sweep!Whole
<1>5. Sweep!Count(network) \in Nat \ {0} /\ Len(visited) \in Nat
  BY BlockFits DEF Sweep!IInv, Sweep!TypeOK
<1>6. Sweep!WalkIsAhead'
  BY <1>1, <1>2, <1>3, <1>4, <1>5 DEF Sweep!IInv, Sweep!TypeOK, Sweep!WalkIsAhead
<1>7. Sweep!DialsAreHonest'
  BY <1>1 DEF Sweep!IInv, Sweep!DialsAreHonest, Sweep!Stopped
<1>8. Sweep!ListFollowsProbes'
  BY <1>1 DEF Sweep!IInv, Sweep!ListFollowsProbes, Sweep!Answers
<1>9. Sweep!CountFollowsHosts'
  BY <1>1, <1>4 DEF Sweep!IInv, Sweep!CountFollowsHosts
<1> QED BY <1>3, <1>6, <1>7, <1>8, <1>9 DEF Sweep!IInv

\* What a step of the host that probes a keeps of the walk and of the dials.
LEMMA HostMoves ==
  ASSUME Sweep!HostScanAssumption, Sweep!IInv,
         NEW a \in Sweep!Addresses, NEW x \in Sweep!HostRecords,
         host[a].at \in {"ports", "count"}, x.at \in {"ports", "count", "back"},
         host' = [host EXCEPT ![a] = x],
         UNCHANGED <<network, sweepCtx, sweepMain, reached, visited>>,
         x.at # "ports" => x.dialing = {},
         x.first # 0 => x.first \in Accepting[a],
         x.at = "ports" /\ ~Sweep!Cancelled /\ x.first = 0 =>
           \A k \in 1..Len(SweepPorts) :
             k < x.next => SweepPorts[k] \in x.dialing \/ SweepPorts[k] \notin Accepting[a]
  PROVE /\ host' \in [Sweep!Addresses -> Sweep!HostRecords] /\ host'[a] = x
        /\ \A b \in Sweep!Addresses : b # a => host'[b] = host[b]
        /\ Sweep!WalkIsAhead' /\ Sweep!DialsAreHonest' /\ sweepMain # "over"
<1>1. /\ host' \in [Sweep!Addresses -> Sweep!HostRecords] /\ host'[a] = x
      /\ \A b \in Sweep!Addresses : b # a => host'[b] = host[b]
  BY DEF Sweep!IInv, Sweep!TypeOK
<1>2. Sweep!Reached' = Sweep!Reached /\ a \in Sweep!Active
  BY <1>1 DEF Sweep!Reached, Sweep!Active
<1>3. Sweep!WalkIsAhead' /\ sweepMain # "over"
  BY <1>2 DEF Sweep!IInv, Sweep!WalkIsAhead, Sweep!Cancelled, Sweep!Lo, Sweep!Count, Sweep!Whole
<1>4. Sweep!DialsAreHonest'
  BY <1>1 DEF Sweep!IInv, Sweep!DialsAreHonest, Sweep!Stopped, Sweep!Cancelled
<1> QED BY <1>1, <1>3, <1>4

\* A dial and its end.
LEMMA DialIInv ==
  ASSUME Sweep!HostScanAssumption, Sweep!IInv, NEW a \in Sweep!Addresses,
         Sweep!Dial(a) \/ \E p \in Sweep!PortSet : Sweep!Accept(a, p) \/ Sweep!DialFails(a, p)
  PROVE Sweep!IInv'
<1>1. /\ UNCHANGED <<network, sweepCtx, sweepMain, reached, visited, live, done, told>>
      /\ host[a] \in Sweep!HostRecords /\ host \in [Sweep!Addresses -> Sweep!HostRecords]
  BY DEF Sweep!Dial, Sweep!Accept, Sweep!DialFails, Sweep!IInv, Sweep!TypeOK
<1>2. /\ host[a].at # "ports" => host[a].dialing = {}
      /\ host[a].first # 0 => host[a].first \in Accepting[a]
      /\ host[a].at = "ports" /\ ~Sweep!Cancelled /\ host[a].first = 0 =>
           \A k \in 1..Len(SweepPorts) :
             k < host[a].next =>
               SweepPorts[k] \in host[a].dialing \/ SweepPorts[k] \notin Accepting[a]
  BY DEF Sweep!IInv, Sweep!DialsAreHonest, Sweep!Stopped
<1>3. ASSUME NEW x \in Sweep!HostRecords, host' = [host EXCEPT ![a] = x],
             host[a].at = "ports", x.at = "ports",
             x.first # 0 => x.first \in Accepting[a],
             ~Sweep!Cancelled /\ x.first = 0 =>
                     \A k \in 1..Len(SweepPorts) :
                       k < x.next =>
                         SweepPorts[k] \in x.dialing \/ SweepPorts[k] \notin Accepting[a]
      PROVE Sweep!IInv'
  <2>1. /\ host' \in [Sweep!Addresses -> Sweep!HostRecords] /\ host'[a] = x
        /\ \A b \in Sweep!Addresses : b # a => host'[b] = host[b]
        /\ Sweep!WalkIsAhead' /\ Sweep!DialsAreHonest'
    BY <1>1, <1>3, HostMoves
  <2>2. \A b \in Sweep!Addresses : host'[b].at = host[b].at
    BY <1>3, <2>1
  <2>3. Sweep!TypeOK'
    BY <1>1, <2>1 DEF Sweep!IInv, Sweep!TypeOK
  <2>4. Sweep!ListFollowsProbes'
    <3>1. \A k \in DOMAIN live : live[k] \in Sweep!Addresses
      BY DEF Sweep!IInv, Sweep!TypeOK
    <3>2. live' = live /\ \A b : Sweep!Answers(b)' = Sweep!Answers(b)
      BY <1>1 DEF Sweep!Answers
    <3> QED BY <1>1, <2>2, <3>1, <3>2 DEF Sweep!IInv, Sweep!ListFollowsProbes, Sweep!Cancelled
  <2>5. Sweep!CountFollowsHosts'
    <3>1. Sweep!Back' = Sweep!Back
      BY <2>2 DEF Sweep!Back
    <3> QED BY <1>1, <3>1 DEF Sweep!IInv, Sweep!CountFollowsHosts, Sweep!Count, Sweep!Whole
  <2> QED BY <2>1, <2>3, <2>4, <2>5 DEF Sweep!IInv
<1>4. CASE Sweep!Dial(a)
  <2> DEFINE p == SweepPorts[host[a].next]
             after == host[a].next + 1
             x == [host[a] EXCEPT !.next = after, !.dialing = @ \cup {p}]
  <2>1. /\ host[a].at = "ports" /\ host[a].next \in 1..Len(SweepPorts)
        /\ host[a].first = 0 /\ ~Sweep!Cancelled
    BY <1>1, <1>4 DEF Sweep!Dial, Sweep!PortsLeft, Sweep!Stopped, Sweep!HostRecords,
       Sweep!HostScanAssumption
  <2>2. p \in Sweep!PortSet
    BY <2>1 DEF Sweep!PortSet
  <2>3. host' = [host EXCEPT ![a] = x]
    BY <1>1, <1>4 DEF Sweep!Dial
  <2>4. /\ after \in Nat \ {0}
        /\ \A k \in 1..Len(SweepPorts) : k < after => k < host[a].next \/ SweepPorts[k] = p
    BY <2>1
  <2> HIDE DEF p, after
  <2>5. /\ x \in Sweep!HostRecords /\ x.at = "ports" /\ x.first = 0 /\ x.next = after
        /\ x.dialing = host[a].dialing \cup {p}
    BY <1>1, <2>1, <2>2, <2>4 DEF Sweep!HostRecords
  <2> HIDE DEF x
  <2> QED BY <1>2, <1>3, <2>1, <2>3, <2>4, <2>5
<1>5. ASSUME NEW p \in Sweep!PortSet, Sweep!Accept(a, p) PROVE Sweep!IInv'
  <2> DEFINE first == IF host[a].first = 0 THEN p ELSE host[a].first
             x == [host[a] EXCEPT !.dialing = host[a].dialing \ {p}, !.first = first]
  <2>1. host[a].at = "ports" /\ p \in Accepting[a] /\ p # 0
    BY <1>2, <1>5 DEF Sweep!Accept, Sweep!PortSet, Sweep!HostScanAssumption
  <2>2. host' = [host EXCEPT ![a] = x]
    BY <1>1, <1>5 DEF Sweep!Accept
  <2>3. first \in Sweep!PortSet /\ first # 0 /\ first \in Accepting[a]
    BY <1>1, <1>2, <2>1 DEF Sweep!HostRecords
  <2> HIDE DEF first
  <2>4. x \in Sweep!HostRecords /\ x.at = "ports" /\ x.first = first
    BY <1>1, <2>1, <2>3 DEF Sweep!HostRecords
  <2> HIDE DEF x
  <2> QED BY <1>3, <2>1, <2>2, <2>3, <2>4
<1>6. ASSUME NEW p \in Sweep!PortSet, Sweep!DialFails(a, p) PROVE Sweep!IInv'
  <2> DEFINE x == [host[a] EXCEPT !.dialing = host[a].dialing \ {p}]
  <2>1. host[a].at = "ports" /\ (~Sweep!Cancelled /\ host[a].first = 0 => p \notin Accepting[a])
    BY <1>2, <1>6 DEF Sweep!DialFails, Sweep!Stopped
  <2>2. host' = [host EXCEPT ![a] = x]
    BY <1>1, <1>6 DEF Sweep!DialFails
  <2>3. /\ x \in Sweep!HostRecords /\ x.at = "ports" /\ x.first = host[a].first
        /\ x.next = host[a].next /\ x.dialing = host[a].dialing \ {p}
    BY <1>1, <2>1 DEF Sweep!HostRecords
  <2> HIDE DEF x
  <2> QED BY <1>2, <1>3, <2>1, <2>2, <2>3
<1> QED BY <1>4, <1>5, <1>6

\* A probe that is over lists its host if it answered, and nothing listed it before.
LEMMA ProbedIInv ==
  ASSUME Sweep!HostScanAssumption, Sweep!IInv, NEW a \in Sweep!Addresses, Sweep!Probed(a)
  PROVE  Sweep!IInv'
<1> DEFINE x == [host[a] EXCEPT !.at = "count"]
<1>1. /\ host[a] \in Sweep!HostRecords /\ host \in [Sweep!Addresses -> Sweep!HostRecords]
      /\ host[a].at = "ports" /\ host[a].dialing = {} /\ (~Sweep!PortsLeft(a) \/ Sweep!Stopped(a))
      /\ UNCHANGED <<network, sweepCtx, sweepMain, reached, visited, done, told>>
      /\ live \in Seq(Sweep!Addresses)
      /\ live' = IF host[a].first # 0 THEN Append(live, a) ELSE live
  BY DEF Sweep!Probed, Sweep!IInv, Sweep!TypeOK
<1>2. host' = [host EXCEPT ![a] = x]
  BY <1>1 DEF Sweep!Probed
<1>3. x \in Sweep!HostRecords /\ x.at = "count" /\ x.dialing = {} /\ x.first = host[a].first
  BY <1>1, HostFields
<1> HIDE DEF x
<1>4. host[a].first # 0 => host[a].first \in Accepting[a] /\ Sweep!Answers(a)
  <2>1. host[a].first # 0 => host[a].first \in Accepting[a] /\ host[a].first \in Sweep!PortSet
    BY <1>1 DEF Sweep!IInv, Sweep!DialsAreHonest, Sweep!HostRecords
  <2> QED BY <2>1 DEF Sweep!Answers
<1>5. /\ host' \in [Sweep!Addresses -> Sweep!HostRecords] /\ host'[a] = x
      /\ \A b \in Sweep!Addresses : b # a => host'[b] = host[b]
      /\ Sweep!WalkIsAhead' /\ Sweep!DialsAreHonest'
  BY <1>1, <1>2, <1>3, <1>4, HostMoves
<1>6. Sweep!TypeOK'
  BY <1>1, <1>5 DEF Sweep!IInv, Sweep!TypeOK
<1>7. \A b \in Sweep!Addresses : Sweep!Answers(b)' = Sweep!Answers(b)
  BY DEF Sweep!Answers
\* No port is left untried when a probe ends without an answer.
<1>8. ~Sweep!Cancelled /\ Sweep!Answers(a) => host[a].first # 0
  <2> SUFFICES ASSUME ~Sweep!Cancelled, host[a].first = 0 PROVE ~Sweep!Answers(a)
    OBVIOUS
  <2>1. ~Sweep!Stopped(a)
    BY DEF Sweep!Stopped
  <2>2. \A k \in 1..Len(SweepPorts) : k < host[a].next => SweepPorts[k] \notin Accepting[a]
    BY <1>1, <2>1 DEF Sweep!IInv, Sweep!DialsAreHonest
  <2>3. host[a].next \in Nat /\ Len(SweepPorts) \in Nat /\ ~(host[a].next <= Len(SweepPorts))
    BY <1>1, <2>1 DEF Sweep!PortsLeft, Sweep!HostRecords, Sweep!HostScanAssumption
  <2>4. \A k \in 1..Len(SweepPorts) : SweepPorts[k] \notin Accepting[a]
    BY <2>2, <2>3
  <2> QED BY <2>4 DEF Sweep!Answers, Sweep!PortSet
<1>9. Sweep!ListFollowsProbes'
  <2>1. /\ \A k \in DOMAIN live :
             /\ live[k] \in Sweep!Addresses /\ live[k] # a
             /\ Sweep!Answers(live[k]) /\ host[live[k]].at \in {"count", "back"}
        /\ \A j, k \in DOMAIN live : live[j] = live[k] => j = k
    BY <1>1 DEF Sweep!IInv, Sweep!ListFollowsProbes
  <2>2. ~Sweep!Cancelled => \A b \in Sweep!Addresses :
                host[b].at \in {"count", "back"} /\ Sweep!Answers(b) =>
                  \E k \in DOMAIN live : live[k] = b
    BY DEF Sweep!IInv, Sweep!ListFollowsProbes
  <2>3. CASE host[a].first = 0
    BY <1>1, <1>3, <1>5, <1>7, <1>8, <2>1, <2>2, <2>3 DEF Sweep!ListFollowsProbes, Sweep!Cancelled
  <2>4. CASE host[a].first # 0
    <3> DEFINE n == Len(live)
    <3>1. /\ n \in Nat /\ DOMAIN live = 1..n /\ DOMAIN live' = 1..(n + 1) /\ live'[n + 1] = a
          /\ \A k \in 1..n : live'[k] = live[k]
      BY <1>1, <2>4
    <3>2. \A k \in 1..(n + 1) : k \in 1..n \/ k = n + 1
      BY <3>1
    <3>3. n + 1 \in 1..(n + 1) /\ \A k \in 1..n : k \in 1..(n + 1)
      BY <3>1
    <3> HIDE DEF n
    <3>4. \A j, k \in DOMAIN live' : live'[j] = live'[k] => j = k
      BY <2>1, <3>1, <3>2
    <3>5. \A k \in DOMAIN live' :
            Sweep!Answers(live'[k]) /\ host'[live'[k]].at \in {"count", "back"}
      BY <1>3, <1>4, <1>5, <2>1, <2>4, <3>1, <3>2
    <3>6. ~Sweep!Cancelled => \A b \in Sweep!Addresses :
                  host'[b].at \in {"count", "back"} /\ Sweep!Answers(b) =>
                    \E k \in DOMAIN live' : live'[k] = b
      BY <1>5, <2>2, <2>4, <3>1, <3>3
    <3> QED BY <1>1, <3>4, <3>5, <3>6 DEF Sweep!ListFollowsProbes, Sweep!Cancelled, Sweep!Answers
  <2> QED BY <2>3, <2>4
<1>10. Sweep!CountFollowsHosts'
  <2>1. Sweep!Back' = Sweep!Back
    BY <1>1, <1>3, <1>5 DEF Sweep!Back
  <2> QED BY <1>1, <2>1 DEF Sweep!IInv, Sweep!CountFollowsHosts, Sweep!Count, Sweep!Whole
<1> QED BY <1>5, <1>6, <1>9, <1>10 DEF Sweep!IInv

\* The hosts that are back are among those begun, which are as many as visited.
LEMMA BackCounts ==
  ASSUME Sweep!HostScanAssumption, Sweep!IInv
  PROVE /\ Sweep!IsFiniteSet(Sweep!Reached) /\ Len(visited) \in Nat
        /\ Sweep!Cardinality(Sweep!Reached) = Len(visited)
        /\ \A S \in SUBSET Sweep!Reached :
             /\ Sweep!IsFiniteSet(S) /\ Sweep!Cardinality(S) \in Nat
             /\ Sweep!Cardinality(S) <= Sweep!Cardinality(Sweep!Reached)
<1> DEFINE lo == Sweep!Lo(network)
           n == Len(visited)
<1>1. lo \in Nat /\ n \in Nat /\ Sweep!Reached = lo..(lo + n - 1)
  BY BlockFits DEF Sweep!IInv, Sweep!TypeOK, Sweep!WalkIsAhead
<1> HIDE DEF lo, n
<1>2. /\ Sweep!IsFiniteSet(lo..(lo + n - 1))
      /\ Sweep!Cardinality(lo..(lo + n - 1)) = IF lo > lo + n - 1 THEN 0 ELSE (lo + n - 1) - lo + 1
  BY <1>1, FS_Interval, SweepSets
<1>3. (IF lo > lo + n - 1 THEN 0 ELSE (lo + n - 1) - lo + 1) = n
  BY <1>1
<1>4. Sweep!IsFiniteSet(Sweep!Reached) /\ Sweep!Cardinality(Sweep!Reached) = n
  BY <1>1, <1>2, <1>3
<1> QED BY <1>1, <1>4, FS_Subset, FS_CardinalityType, SweepSets DEF n

\* A host that is counted is one more that is back; the last one is told of.
LEMMA CountIInv ==
  ASSUME Sweep!HostScanAssumption, Sweep!IInv, NEW a \in Sweep!Addresses, Sweep!CountHost(a)
  PROVE  Sweep!IInv'
<1> DEFINE x == [Sweep!Idle EXCEPT !.at = "back"]
<1>1. /\ host[a].at = "count" /\ host \in [Sweep!Addresses -> Sweep!HostRecords]
      /\ done \in Nat /\ told \in Nat
      /\ done' = done + 1 /\ told' = (IF done + 1 = Sweep!Count(network) THEN done + 1 ELSE told)
      /\ UNCHANGED <<network, sweepCtx, sweepMain, reached, visited, live>>
  BY DEF Sweep!CountHost, Sweep!IInv, Sweep!TypeOK
<1>2. host' = [host EXCEPT ![a] = x]
  BY DEF Sweep!CountHost
<1>3. x \in Sweep!HostRecords /\ x.at = "back" /\ x.dialing = {} /\ x.first = 0
  BY HostFields
<1> HIDE DEF x
<1>4. /\ host' \in [Sweep!Addresses -> Sweep!HostRecords] /\ host'[a] = x
      /\ \A b \in Sweep!Addresses : b # a => host'[b] = host[b]
      /\ Sweep!WalkIsAhead' /\ Sweep!DialsAreHonest'
  BY <1>1, <1>2, <1>3, HostMoves
<1>5. Sweep!TypeOK'
  BY <1>1, <1>4 DEF Sweep!IInv, Sweep!TypeOK
<1>6. Sweep!ListFollowsProbes'
  <2>1. \A b \in Sweep!Addresses :
          host'[b].at \in {"count", "back"} <=> host[b].at \in {"count", "back"}
    BY <1>1, <1>3, <1>4
  <2>2. \A k \in DOMAIN live : live[k] \in Sweep!Addresses
    BY DEF Sweep!IInv, Sweep!TypeOK
  <2>3. \A b \in Sweep!Addresses : Sweep!Answers(b)' = Sweep!Answers(b)
    BY DEF Sweep!Answers
  <2> QED BY <1>1, <2>1, <2>2, <2>3 DEF Sweep!IInv, Sweep!ListFollowsProbes, Sweep!Cancelled
<1>7. Sweep!CountFollowsHosts'
  <2>1. /\ Sweep!Back' = Sweep!Back \cup {a} /\ a \notin Sweep!Back
        /\ Sweep!Back \in SUBSET Sweep!Reached /\ Sweep!Back \cup {a} \in SUBSET Sweep!Reached
    BY <1>1, <1>3, <1>4 DEF Sweep!Back, Sweep!Reached
  <2>2. /\ Sweep!IsFiniteSet(Sweep!Back) /\ Sweep!Cardinality(Sweep!Back) \in Nat
        /\ Sweep!Cardinality(Sweep!Back \cup {a}) = Sweep!Cardinality(Sweep!Back) + 1
    BY <2>1, BackCounts, FS_AddElement, SweepSets
  <2>3. done = Sweep!Cardinality(Sweep!Back)
    BY DEF Sweep!IInv, Sweep!CountFollowsHosts
  <2>4. Sweep!Count(network)' = Sweep!Count(network)
    BY <1>1 DEF Sweep!Count, Sweep!Whole
  <2> QED BY <1>1, <2>1, <2>2, <2>3, <2>4 DEF Sweep!CountFollowsHosts
<1> QED BY <1>4, <1>5, <1>6, <1>7 DEF Sweep!IInv

LEMMA SweepNext ==
  ASSUME Sweep!HostScanAssumption, Sweep!IInv, [Sweep!Next]_Sweep!vars PROVE Sweep!IInv'
<1>1. ASSUME NEW a \in Sweep!Addresses, Sweep!Probe(a) PROVE Sweep!IInv'
  BY <1>1, DialIInv, ProbedIInv, CountIInv DEF Sweep!Probe
<1>2. CASE Sweep!Cancel \/ Sweep!Walk \/ UNCHANGED Sweep!vars
  BY <1>2, VisitIInv, WalkIInv DEF Sweep!Walk
<1> QED BY <1>1, <1>2 DEF Sweep!Next

\* Discover and Each, for every block of every address space, any ports and any
\* answers: the walk visits the usable addresses of the block, each once and
\* none outside, and a discovery that ends uncancelled lists exactly the hosts
\* that answer and has told the total.
THEOREM DiscoveriesAreExact == Sweep!Spec => []DiscoveryIsExact
<1>1. Sweep!Init => Sweep!IInv
  BY RequestsAssumption, SweepInit
<1>2. Sweep!IInv /\ [Sweep!Next]_Sweep!vars => Sweep!IInv'
  BY RequestsAssumption, SweepNext
<1>3. Sweep!IInv => Sweep!EachVisitsTheBlock
  <2> SUFFICES ASSUME Sweep!IInv PROVE Sweep!EachVisitsTheBlock
    OBVIOUS
  <2> DEFINE lo == Sweep!Lo(network)
             n == Len(visited)
             count == Sweep!Count(network)
  <2>1. /\ lo \in Nat /\ count \in Nat \ {0} /\ Sweep!Usable(network) = lo..(lo + count - 1)
    BY RequestsAssumption, BlockFits DEF Sweep!IInv, Sweep!TypeOK
  <2>2. /\ n \in Nat /\ n <= count /\ DOMAIN visited = 1..n
        /\ \A k \in 1..n : visited[k] = lo + k - 1
        /\ sweepMain # "each" /\ ~Sweep!Cancelled => n = count
    BY <2>1 DEF Sweep!IInv, Sweep!TypeOK, Sweep!WalkIsAhead
  <2>3. \A k \in 1..n : lo + k - 1 \in Sweep!Usable(network)
    BY <2>1, <2>2
  <2> QED BY <2>2, <2>3 DEF Sweep!EachVisitsTheBlock
<1>4. Sweep!IInv => Sweep!LiveIsExact
  <2> SUFFICES ASSUME Sweep!IInv PROVE Sweep!LiveIsExact
    OBVIOUS
  <2>1. /\ \A j, k \in DOMAIN live : live[j] = live[k] => j = k
        /\ \A k \in DOMAIN live : Sweep!Answers(live[k])
    BY DEF Sweep!IInv, Sweep!ListFollowsProbes
  <2>2. ASSUME sweepMain = "over", ~Sweep!Cancelled
        PROVE /\ \A a \in Sweep!Usable(network) :
                   Sweep!Answers(a) => \E k \in DOMAIN live : live[k] = a
              /\ told = Sweep!Count(network)
    <3>1. Sweep!Reached = Sweep!Usable(network) /\ Len(visited) = Sweep!Count(network)
      BY <2>2, RequestsAssumption, BlockFits DEF Sweep!IInv, Sweep!TypeOK, Sweep!WalkIsAhead
    <3>2. Sweep!Reached = Sweep!Back /\ Sweep!Reached \in SUBSET Sweep!Addresses
      BY <2>2 DEF Sweep!IInv, Sweep!WalkIsAhead, Sweep!Reached, Sweep!Back, Sweep!Active
    <3>3. done = Sweep!Count(network)
      BY <3>1, <3>2, RequestsAssumption, BackCounts DEF Sweep!IInv, Sweep!CountFollowsHosts
    <3>4. \A a \in Sweep!Back : Sweep!Answers(a) => \E k \in DOMAIN live : live[k] = a
      BY <2>2 DEF Sweep!IInv, Sweep!ListFollowsProbes, Sweep!Back
    <3> QED BY <3>1, <3>2, <3>3, <3>4 DEF Sweep!IInv, Sweep!CountFollowsHosts
  <2> QED BY <2>1, <2>2 DEF Sweep!LiveIsExact, Sweep!Answers
<1>5. Sweep!IInv => DiscoveryIsExact
  BY <1>3, <1>4 DEF DiscoveryIsExact
<1> QED
  BY <1>1, <1>2, <1>5, PTL DEF Sweep!Spec

-----------------------------------------------------------------------------
(* Functions that are defined by recursion up to a number exist, and what   *)
(* the loops of the crawl for subdomains build is a sequence.               *)

\* What a recursion up to n from a base makes of it, one step at a time.
Unfolds(f, X, base, n, step) ==
  f \in [0..n -> X] /\ f[0] = base /\ \A k \in 1..n : f[k] = step[k][f[k - 1]]

LEMMA RecursionExists ==
  ASSUME NEW X, NEW base \in X, NEW n \in Nat, NEW step \in [1..n -> [X -> X]]
  PROVE \E f : Unfolds(f, X, base, n, step)
<1> DEFINE Good(f, m) == f[0] = base /\ \A k \in 1..m : f[k] = step[k][f[k - 1]]
           D == {m \in 0..n : ~(\E f \in [0..m -> X] : Good(f, m))}
<1>1. ASSUME NEW d \in D, \A e \in D : d <= e PROVE FALSE
  <2>1. d # 0
    <3>1. [k \in 0..0 |-> base] \in [0..0 -> X] /\ Good([k \in 0..0 |-> base], 0)
      OBVIOUS
    <3> QED BY <3>1
  <2>2. d \in 1..n /\ d - 1 \in 0..n /\ d - 1 \notin D
    BY <1>1, <2>1
  <2>3. PICK f \in [0..(d - 1) -> X] : Good(f, d - 1)
    BY <2>2
  <2> DEFINE g == [k \in 0..d |-> IF k = d THEN step[d][f[d - 1]] ELSE f[k]]
  <2>4. f[d - 1] \in X /\ step[d][f[d - 1]] \in X
    BY <2>2
  <2>5. g \in [0..d -> X]
    <3>1. \A k \in 0..d : k # d => f[k] \in X
      BY <2>2
    <3> QED BY <2>4, <3>1
  <2>6. \A k \in 0..d : g[k] = IF k = d THEN step[d][f[d - 1]] ELSE f[k]
    OBVIOUS
  <2> HIDE DEF g
  <2>7. g[0] = base
    BY <2>2, <2>3, <2>6
  <2>8. ASSUME NEW k \in 1..d PROVE g[k] = step[k][g[k - 1]]
    <3>1. g[k - 1] = f[k - 1]
      BY <2>2, <2>6
    <3>2. CASE k = d
      <4>1. d \in 0..d /\ g[d] = step[d][f[d - 1]]
        BY <2>2, <2>6
      <4> QED BY <3>1, <3>2, <4>1
    <3>3. CASE k # d
      <4>1. k \in 1..(d - 1) /\ k \in 0..d
        BY <2>2, <3>3
      <4> QED BY <2>3, <2>6, <3>1, <3>3, <4>1
    <3> QED BY <3>2, <3>3
  <2> QED BY <2>2, <2>5, <2>7, <2>8
<1>2. D = {}
  <2>1. D \in SUBSET Nat
    OBVIOUS
  <2> HIDE DEF D
  <2> QED BY <1>1, <2>1, Smallest
<1>3. \E f \in [0..n -> X] : Good(f, n)
  BY <1>2
<1> QED BY <1>3 DEF Unfolds

\* What was appended to an empty list, one element at a time.
LEMMA KeptIn ==
  ASSUME NEW S, NEW n \in Nat, NEW f, f[0] = <<>>,
         \A k \in 1..n : f[k] = f[k - 1] \/ \E x \in S : f[k] = Append(f[k - 1], x)
  PROVE f[n] \in Seq(S)
<1> DEFINE D == {m \in 0..n : f[m] \notin Seq(S)}
<1>1. ASSUME NEW d \in D, \A e \in D : d <= e PROVE FALSE
  <2>1. d # 0
    BY EmptySeq
  <2>2. d \in 1..n /\ d - 1 \in 0..n /\ f[d - 1] \in Seq(S)
    BY <1>1, <2>1
  <2>3. f[d] \in Seq(S)
    <3>1. CASE f[d] = f[d - 1]
      BY <2>2, <3>1
    <3>2. CASE \E x \in S : f[d] = Append(f[d - 1], x)
      <4>1. PICK x \in S : f[d] = Append(f[d - 1], x)
        BY <3>2
      <4> QED BY <2>2, <4>1, AppendProperties
    <3> QED BY <2>2, <3>1, <3>2
  <2> QED BY <2>3
<1>2. D = {}
  <2>1. D \in SUBSET Nat
    OBVIOUS
  <2> HIDE DEF D
  <2> QED BY <1>1, <2>1, Smallest
<1> QED BY <1>2

LEMMA FlattenIn ==
  ASSUME NEW S, NEW ss \in Seq(Seq(S)) PROVE Links!FlattenSeq(ss) \in Seq(S)
<1> DEFINE n == Len(ss)
           Rec(f) == f = [i \in 1..n |-> IF i = 1 THEN ss[i] ELSE f[i - 1] \o ss[i]]
<1>0. n \in Nat /\ \A i \in 1..n : ss[i] \in Seq(S)
  OBVIOUS
<1>1. CASE n = 0
  BY <1>1 DEF Links!FlattenSeq
<1>2. CASE n # 0
  <2>1. Links!FlattenSeq(ss) = (CHOOSE f : Rec(f))[n]
    BY <1>2, Zenon DEF Links!FlattenSeq
  <2> DEFINE step == [k \in 1..n |-> [s \in Seq(S) |-> IF k = 1 THEN ss[k] ELSE s \o ss[k]]]
  <2>2. step \in [1..n -> [Seq(S) -> Seq(S)]]
    <3>1. \A k \in 1..n, s \in Seq(S) : s \o ss[k] \in Seq(S)
      BY <1>0, ConcatProperties
    <3> QED BY <1>0, <3>1
  <2>3. \A s \in Seq(S), k \in 1..n : step[k][s] = IF k = 1 THEN ss[k] ELSE s \o ss[k]
    OBVIOUS
  <2> HIDE DEF step
  <2>4. PICK f : Unfolds(f, Seq(S), <<>>, n, step)
    <3>1. <<>> \in Seq(S)
      OBVIOUS
    <3> HIDE DEF n
    <3> QED BY <1>0, <2>2, <3>1, RecursionExists
  <2>5. \A k \in 1..n : f[k] = IF k = 1 THEN ss[k] ELSE f[k - 1] \o ss[k]
    <3>1. \A k \in 1..n : k - 1 \in 0..n
      BY <1>0
    <3>2. \A k \in 1..n : f[k - 1] \in Seq(S)
      BY <2>4, <3>1 DEF Unfolds
    <3> QED BY <2>3, <2>4, <3>2 DEF Unfolds
  <2> DEFINE g == [i \in 1..n |-> f[i]]
  <2>6. \A i \in 1..n : g[i] = f[i] /\ (i # 1 => g[i - 1] = f[i - 1])
    BY <1>0
  <2>7. Rec(g)
    BY <2>5, <2>6
  <2> HIDE DEF g
  <2>8. Rec(CHOOSE h : Rec(h))
    BY <2>7
  <2>9. PICK h : Rec(h) /\ Links!FlattenSeq(ss) = h[n]
    BY <2>1, <2>8
  <2>10. \A k \in 1..n : h[k] = IF k = 1 THEN ss[k] ELSE h[k - 1] \o ss[k]
    BY <2>9
  <2> DEFINE D == {k \in 1..n : h[k] \notin Seq(S)}
  <2>11. ASSUME NEW d \in D, \A e \in D : d <= e PROVE FALSE
    <3>1. CASE d = 1
      BY <1>0, <2>10, <3>1
    <3>2. CASE d # 1
      <4>1. d \in 1..n /\ d - 1 \in 1..n /\ h[d - 1] \in Seq(S)
        BY <1>0, <2>11, <3>2
      <4>2. h[d - 1] \o ss[d] \in Seq(S)
        BY <1>0, <4>1, ConcatProperties
      <4> QED BY <2>10, <3>2, <4>1, <4>2
    <3> QED BY <3>1, <3>2
  <2>12. D = {}
    <3>1. D \in SUBSET Nat
      OBVIOUS
    <3> HIDE DEF D
    <3> QED BY <2>11, <3>1, Smallest
  <2>13. n \in 1..n
    BY <1>0, <1>2
  <2> QED BY <2>9, <2>12, <2>13
<1> QED BY <1>1, <1>2

LEMMA RangeIn ==
  ASSUME NEW S, NEW s \in Seq(S) PROVE Links!Range(s) \subseteq S
BY DEF Links!Range

\* The jobs taken from the queue are some of it, none too deep.
JobsQueued == {j \in Links!Jobs : j.depth <= MaxSitemapDepth /\ \E k \in DOMAIN mapQueue : mapQueue[k] = j}

LEMMA JobsAreQueued ==
  ASSUME mapQueue \in Seq(Links!Jobs) PROVE Links!JobsToFetch \in Seq(JobsQueued)
<1> DEFINE n == Len(mapQueue)
           Add(list, k) == Links!Accept(list, mapQueue[k], Links!Due(list, mapQueue[k]))
           Loop(f) == f = [k \in 0..n |-> IF k = 0 THEN <<>> ELSE Add(f[k - 1], k)]
           step == [k \in 1..n |-> [list \in Seq(Links!Jobs) |-> Add(list, k)]]
<1>1. Links!JobsToFetch = (CHOOSE f : Loop(f))[n]
  BY Zenon DEF Links!JobsToFetch
<1>2. n \in Nat /\ \A k \in 1..n : mapQueue[k] \in Links!Jobs
  OBVIOUS
<1>3. \A list \in Seq(Links!Jobs), k \in 1..n : Add(list, k) \in Seq(Links!Jobs)
  BY <1>2, AppendProperties DEF Links!Accept
<1>4. \A list, k : Add(list, k) = list
                   \/ (Add(list, k) = Append(list, mapQueue[k]) /\ mapQueue[k].depth <= MaxSitemapDepth)
  <2> SUFFICES ASSUME NEW list, NEW k
               PROVE Add(list, k) = list
                     \/ (Add(list, k) = Append(list, mapQueue[k]) /\ mapQueue[k].depth <= MaxSitemapDepth)
    OBVIOUS
  <2>1. CASE Links!Due(list, mapQueue[k])
    <3>1. mapQueue[k].depth <= MaxSitemapDepth
      BY <2>1 DEF Links!Due
    <3> QED BY <2>1, <3>1 DEF Links!Accept
  <2>2. CASE ~Links!Due(list, mapQueue[k])
    <3> HIDE DEF n
    <3>1. \A b : ~b => Links!Accept(list, mapQueue[k], b) = list
      BY Zenon DEF Links!Accept
    <3> QED BY <2>2, <3>1
  <2> QED BY <2>1, <2>2
<1> HIDE DEF n, Add
<1>5. step \in [1..n -> [Seq(Links!Jobs) -> Seq(Links!Jobs)]]
  BY <1>3
<1>6. \A list \in Seq(Links!Jobs), k \in 1..n : step[k][list] = Add(list, k)
  OBVIOUS
<1> HIDE DEF step
<1>7. PICK g : Unfolds(g, Seq(Links!Jobs), <<>>, n, step)
  <2>1. <<>> \in Seq(Links!Jobs)
    OBVIOUS
  <2> QED BY <1>2, <1>5, <2>1, RecursionExists
<1>8. Loop(g)
  <2>1. \A k \in 1..n : k - 1 \in 0..n
    BY <1>2
  <2>2. \A k \in 1..n : g[k] = Add(g[k - 1], k)
    BY <1>6, <1>7, <2>1 DEF Unfolds
  <2>3. \A k \in 0..n : g[k] = IF k = 0 THEN <<>> ELSE Add(g[k - 1], k)
    BY <1>7, <2>2 DEF Unfolds
  <2>4. g = [k \in 0..n |-> g[k]]
    BY <1>7 DEF Unfolds
  <2> QED BY <2>3, <2>4
<1>9. PICK f : Loop(f) /\ Links!JobsToFetch = f[n]
  BY <1>1, <1>8
<1>10. f[0] = <<>> /\ \A k \in 1..n : f[k] = Add(f[k - 1], k)
  BY <1>2, <1>9
<1>11. \A k \in 1..n : f[k] = f[k - 1] \/ \E x \in JobsQueued : f[k] = Append(f[k - 1], x)
  <2> SUFFICES ASSUME NEW k \in 1..n
               PROVE f[k] = f[k - 1] \/ \E x \in JobsQueued : f[k] = Append(f[k - 1], x)
    OBVIOUS
  <2>1. mapQueue[k].depth <= MaxSitemapDepth => mapQueue[k] \in JobsQueued
    BY <1>2 DEF JobsQueued, n
  <2>2. f[k] = Add(f[k - 1], k)
    BY <1>10
  <2> QED BY <1>4, <2>1, <2>2
<1> QED BY <1>2, <1>9, <1>10, <1>11, KeptIn

\* Those answered are some of them.
LEMMA AnsweredAreJobs ==
  ASSUME NEW J, NEW jobs \in Seq(J), NEW ok PROVE Links!Answered(jobs, ok) \in Seq(J)
<1> DEFINE n == Len(jobs)
           Add(list, k) == Links!Accept(list, jobs[k], jobs[k].map \in ok)
           Loop(f) == f = [k \in 0..n |-> IF k = 0 THEN <<>> ELSE Add(f[k - 1], k)]
           step == [k \in 1..n |-> [list \in Seq(J) |-> Add(list, k)]]
<1>1. Links!Answered(jobs, ok) = (CHOOSE f : Loop(f))[n]
  BY Zenon DEF Links!Answered
<1>2. n \in Nat /\ \A k \in 1..n : jobs[k] \in J
  OBVIOUS
<1>3. \A list \in Seq(J), k \in 1..n : Add(list, k) \in Seq(J)
  BY <1>2, AppendProperties DEF Links!Accept
<1>4. \A list, k : Add(list, k) = list \/ Add(list, k) = Append(list, jobs[k])
  BY DEF Links!Accept
<1> HIDE DEF n, Add
<1>5. step \in [1..n -> [Seq(J) -> Seq(J)]]
  BY <1>3
<1>6. \A list \in Seq(J), k \in 1..n : step[k][list] = Add(list, k)
  OBVIOUS
<1> HIDE DEF step
<1>7. PICK g : Unfolds(g, Seq(J), <<>>, n, step)
  <2>1. <<>> \in Seq(J)
    OBVIOUS
  <2> QED BY <1>2, <1>5, <2>1, RecursionExists
<1>8. Loop(g)
  <2>1. \A k \in 1..n : k - 1 \in 0..n
    BY <1>2
  <2>2. \A k \in 1..n : g[k] = Add(g[k - 1], k)
    BY <1>6, <1>7, <2>1 DEF Unfolds
  <2>3. \A k \in 0..n : g[k] = IF k = 0 THEN <<>> ELSE Add(g[k - 1], k)
    BY <1>7, <2>2 DEF Unfolds
  <2>4. g = [k \in 0..n |-> g[k]]
    BY <1>7 DEF Unfolds
  <2> QED BY <2>3, <2>4
<1>9. PICK f : Loop(f) /\ Links!Answered(jobs, ok) = f[n]
  BY <1>1, <1>8
<1>10. f[0] = <<>> /\ \A k \in 1..n : f[k] = Add(f[k - 1], k)
  BY <1>2, <1>9
<1>11. \A k \in 1..n : f[k] = f[k - 1] \/ \E x \in J : f[k] = Append(f[k - 1], x)
  BY <1>2, <1>4, <1>10
<1> QED BY <1>2, <1>9, <1>10, <1>11, KeptIn

\* The links of the site are some of those found.
LEMMA LinksOfSite ==
  ASSUME NEW links \in Seq(Sites) PROVE Links!OfSite(links) \in Seq(Sites)
<1> DEFINE n == Len(links)
           Add(list, k) ==
             Links!Accept(list, links[k],
                          Links!SameSite(links[k]) /\ links[k] \notin Links!Range(list))
           Loop(f) == f = [k \in 0..n |-> IF k = 0 THEN <<>> ELSE Add(f[k - 1], k)]
           step == [k \in 1..n |-> [list \in Seq(Sites) |-> Add(list, k)]]
<1>1. Links!OfSite(links) = (CHOOSE f : Loop(f))[n]
  BY Zenon DEF Links!OfSite
<1>2. n \in Nat /\ \A k \in 1..n : links[k] \in Sites
  OBVIOUS
<1>3. \A list \in Seq(Sites), k \in 1..n : Add(list, k) \in Seq(Sites)
  BY <1>2, AppendProperties DEF Links!Accept
<1>4. \A list, k : Add(list, k) = list \/ Add(list, k) = Append(list, links[k])
  BY DEF Links!Accept
<1> HIDE DEF n, Add
<1>5. step \in [1..n -> [Seq(Sites) -> Seq(Sites)]]
  BY <1>3
<1>6. \A list \in Seq(Sites), k \in 1..n : step[k][list] = Add(list, k)
  OBVIOUS
<1> HIDE DEF step
<1>7. PICK g : Unfolds(g, Seq(Sites), <<>>, n, step)
  <2>1. <<>> \in Seq(Sites)
    OBVIOUS
  <2> QED BY <1>2, <1>5, <2>1, RecursionExists
<1>8. Loop(g)
  <2>1. \A k \in 1..n : k - 1 \in 0..n
    BY <1>2
  <2>2. \A k \in 1..n : g[k] = Add(g[k - 1], k)
    BY <1>6, <1>7, <2>1 DEF Unfolds
  <2>3. \A k \in 0..n : g[k] = IF k = 0 THEN <<>> ELSE Add(g[k - 1], k)
    BY <1>7, <2>2 DEF Unfolds
  <2>4. g = [k \in 0..n |-> g[k]]
    BY <1>7 DEF Unfolds
  <2> QED BY <2>3, <2>4
<1>9. PICK f : Loop(f) /\ Links!OfSite(links) = f[n]
  BY <1>1, <1>8
<1>10. f[0] = <<>> /\ \A k \in 1..n : f[k] = Add(f[k - 1], k)
  BY <1>2, <1>9
<1>11. \A k \in 1..n : f[k] = f[k - 1] \/ \E x \in Sites : f[k] = Append(f[k - 1], x)
  BY <1>2, <1>4, <1>10
<1> QED BY <1>2, <1>9, <1>10, <1>11, KeptIn

\* The sitemaps within n steps.
LEMMA NearIsReached ==
  /\ Links!Near[0] = Links!Range(RobotsTxt.maps) \cup {FirstMap}
  /\ \A k \in 1..MaxSitemapDepth :
       Links!Near[k] = Links!Near[k - 1]
                       \cup UNION {Links!Range(Sitemap[m].nested) : m \in Links!Near[k - 1]}
<1> DEFINE n == MaxSitemapDepth
           First == Links!Range(RobotsTxt.maps) \cup {FirstMap}
           More(k) == k \cup UNION {Links!Range(Sitemap[m].nested) : m \in k}
           Loop(f) == f = [k \in 0..n |-> IF k = 0 THEN First ELSE More(f[k - 1])]
           step == [k \in 1..n |-> [r \in SUBSET SiteMaps |-> More(r)]]
<1>0. n \in Nat
  BY RequestsAssumption DEF Links!LinkAssumption
<1>1. Links!Near = CHOOSE f : Loop(f)
  BY Zenon DEF Links!Near
<1>2. First \in SUBSET SiteMaps /\ \A r \in SUBSET SiteMaps : More(r) \in SUBSET SiteMaps
  <2>1. First \subseteq SiteMaps
    BY RequestsAssumption, RangeIn DEF Links!LinkAssumption
  <2>2. ASSUME NEW r \in SUBSET SiteMaps PROVE More(r) \subseteq SiteMaps
    <3>1. \A m \in r : Links!Range(Sitemap[m].nested) \subseteq SiteMaps
      BY RequestsAssumption, RangeIn DEF Links!LinkAssumption
    <3> QED BY <3>1
  <2> QED BY <2>1, <2>2
<1> HIDE DEF n, First, More
<1>5. step \in [1..n -> [SUBSET SiteMaps -> SUBSET SiteMaps]]
  BY <1>2
<1>6. \A r \in SUBSET SiteMaps, k \in 1..n : step[k][r] = More(r)
  OBVIOUS
<1> HIDE DEF step
<1>7. PICK g : Unfolds(g, SUBSET SiteMaps, First, n, step)
  BY <1>0, <1>2, <1>5, RecursionExists
<1>8. Loop(g)
  <2>1. \A k \in 1..n : k - 1 \in 0..n
    BY <1>0
  <2>2. \A k \in 1..n : g[k] = More(g[k - 1])
    BY <1>6, <1>7, <2>1 DEF Unfolds
  <2>3. \A k \in 0..n : g[k] = IF k = 0 THEN First ELSE More(g[k - 1])
    BY <1>7, <2>2 DEF Unfolds
  <2>4. g = [k \in 0..n |-> g[k]]
    BY <1>7 DEF Unfolds
  <2> QED BY <2>3, <2>4
<1>9. Loop(Links!Near)
  BY <1>1, <1>8
<1>10. Links!Near[0] = First /\ \A k \in 1..n : Links!Near[k] = More(Links!Near[k - 1])
  BY <1>0, <1>9
<1> QED BY <1>10 DEF n, First, More

\* What is near stays near.
LEMMA NearGrows ==
  ASSUME NEW d \in 0..MaxSitemapDepth PROVE Links!Near[d] \subseteq Links!Near[MaxSitemapDepth]
<1>0. MaxSitemapDepth \in Nat
  BY RequestsAssumption DEF Links!LinkAssumption
<1> DEFINE D == {e \in d..MaxSitemapDepth : ~(Links!Near[d] \subseteq Links!Near[e])}
<1>1. ASSUME NEW e \in D, \A c \in D : e <= c PROVE FALSE
  <2>1. e # d
    OBVIOUS
  <2>2. e - 1 \in d..MaxSitemapDepth /\ e \in 1..MaxSitemapDepth /\ e - 1 \notin D
    BY <1>0, <1>1, <2>1
  <2>3. Links!Near[d] \subseteq Links!Near[e - 1] /\ Links!Near[e - 1] \subseteq Links!Near[e]
    BY <2>2, NearIsReached
  <2> QED BY <2>3
<1>2. D = {}
  <2>1. D \in SUBSET Nat
    BY <1>0
  <2> HIDE DEF D
  <2> QED BY <1>1, <2>1, Smallest
<1> QED BY <1>0, <1>2

-----------------------------------------------------------------------------
(* The crawl for subdomains, step by step.                                  *)

LEMMA LinkSets ==
  /\ \A S : Links!Cardinality(S) = Cardinality(S)
  /\ \A S : Links!IsFiniteSet(S) <=> IsFiniteSet(S)
BY DEF Links!Cardinality, Links!IsFiniteSet, Cardinality, IsFiniteSet

LEMMA LinkSites ==
  /\ IsFiniteSet(Sites) /\ "none" \notin Sites
  /\ Fronts \in Seq(Sites) /\ Len(Fronts) \in Nat \ {0}
  /\ \A u \in Sites : SitePage[u].final \in Sites /\ SitePage[u].links \in Seq(Sites)
  /\ MaxSites \in Nat \ {0} /\ MaxSitemapDepth \in Nat
<1>1. Fronts \in Seq(Sites) /\ Fronts # <<>>
  BY RequestsAssumption DEF Links!LinkAssumption
<1>2. Len(Fronts) \in Nat \ {0}
  BY <1>1, EmptySeq
<1> QED BY <1>1, <1>2, RequestsAssumption, LinkSets DEF Links!LinkAssumption

\* The sets of workers are finite, so their sizes are numbers.
LEMMA LinkCounts ==
  /\ IsFiniteSet(Links!Coming) /\ Links!Cardinality(Links!Coming) \in Nat
  /\ IsFiniteSet(Links!Uncounted) /\ Links!Cardinality(Links!Uncounted) \in Nat
<1>1. Links!Coming \subseteq Sites /\ Links!Uncounted \subseteq Sites
  BY DEF Links!Coming, Links!Uncounted
<1>2. IsFiniteSet(Links!Coming) /\ IsFiniteSet(Links!Uncounted)
  BY <1>1, LinkSites, FS_Subset
<1> QED BY <1>2, FS_CardinalityType, LinkSets

LEMMA LinksInit ==
  ASSUME Links!Init PROVE Links!IInv
<1>1. /\ linkCtx = "live" /\ linkMain = "front" /\ try = 1 /\ site = "none" /\ robots \in BOOLEAN
      /\ mapQueue = <<>> /\ mapsSeen = {} /\ maps = <<>> /\ candidates = <<>> /\ passed = 1
      /\ fetcher = [u \in Sites |-> "none"] /\ urls = {} /\ sitePages = <<>> /\ unread = {}
      /\ siteDone = 0 /\ siteTotal = 0
  BY Zenon DEF Links!Init, Links!InitAt
<1>2. Len(candidates) = 0 /\ Len(sitePages) = 0
  BY <1>1, EmptySeq
<1>3. Links!Active = {} /\ Links!Coming = {} /\ Links!Uncounted = {}
  BY <1>1 DEF Links!Active, Links!Coming, Links!Uncounted
<1>4. Links!TypeOK
  <2>1. mapQueue \in Seq(Links!Jobs) /\ maps \in Seq(SiteMaps) /\ candidates \in Seq(Sites) /\ sitePages \in Seq(Sites)
    BY <1>1, EmptySeq
  <2>2. fetcher \in [Sites -> {"none", "fetch", "add", "count", "tell", "back"}]
    BY <1>1
  <2> QED BY <1>1, <1>2, <2>1, <2>2 DEF Links!TypeOK
<1>5. Links!StagesFollow
  BY <1>1, <1>3, LinkSites DEF Links!StagesFollow
<1>6. Links!PagesFollow
  <2>1. urls = Links!Range(sitePages) /\ Links!IsInjective(sitePages)
    BY <1>1 DEF Links!Range, Links!IsInjective
  <2>2. Links!Cardinality(Links!Coming) = 0 /\ Links!Cardinality(Links!Uncounted) = 0
    BY <1>3, FS_EmptySet, LinkSets
  <2> QED BY <1>1, <1>2, <2>1, <2>2, LinkSites DEF Links!PagesFollow
<1>7. Links!PassedAreSettled
  BY <1>1 DEF Links!PassedAreSettled
<1>8. Links!DepthsAreTrue
  BY <1>1 DEF Links!DepthsAreTrue, Links!SitemapsNearby
<1> QED BY <1>4, <1>5, <1>6, <1>7, <1>8 DEF Links!IInv

\* Steps that touch neither the workers, the pages nor the sitemaps.
LinkRest == <<mapQueue, mapsSeen, maps, candidates, fetcher, urls, sitePages, unread,
              siteDone, siteTotal, robots>>

LEMMA LinksCancel ==
  ASSUME Links!IInv, Links!Cancel PROVE Links!IInv'
BY DEF Links!IInv, Links!Cancel, Links!TypeOK, Links!StagesFollow, Links!PagesFollow,
       Links!PassedAreSettled, Links!DepthsAreTrue, Links!SitemapsNearby, Links!Active,
       Links!Coming, Links!Uncounted, Links!Cancelled, Links!front, Links!sitemaps, Links!level,
       Links!counts

LEMMA LinksLoop ==
  ASSUME Links!IInv, Links!FrontFails \/ Links!Take \/ Links!LoopEnds \/ Links!Return
  PROVE Links!IInv'
<1> USE DEF Links!IInv, Links!TypeOK, Links!StagesFollow, Links!Active, Links!Cancelled,
            Links!front, Links!sitemaps, Links!level, Links!counts
<1>0. UNCHANGED <<linkCtx, site, passed, LinkRest>>
  BY DEF Links!FrontFails, Links!Take, Links!LoopEnds, Links!Return, LinkRest
<1>1. Links!TypeOK' /\ Links!StagesFollow'
  <2>0. Len(candidates) \in Nat
    OBVIOUS
  <2>1. CASE Links!FrontFails
    <3>1. Len(candidates) = 0
      BY <2>1, EmptySeq DEF Links!FrontFails
    <3>2. try \in 1..Len(Fronts) /\ (linkMain' = "front" => try' \in 1..Len(Fronts))
      BY <2>1, LinkSites DEF Links!FrontFails
    <3> QED BY <2>1, <3>1, <3>2 DEF Links!FrontFails
  <2>2. CASE Links!Take
    BY <2>2 DEF Links!Take, Links!LoopGoesOn
  <2>3. CASE Links!LoopEnds
    <3>1. ~Links!Cancelled => passed = Len(candidates) + 1
      BY <2>0, <2>3 DEF Links!LoopEnds, Links!LoopGoesOn
    <3> QED BY <2>0, <2>3, <3>1 DEF Links!LoopEnds
  <2>4. CASE Links!Return
    BY <2>4 DEF Links!Return
  <2> QED BY <2>1, <2>2, <2>3, <2>4
<1>2. Links!PagesFollow' /\ Links!PassedAreSettled' /\ Links!DepthsAreTrue'
  BY <1>0 DEF LinkRest, Links!PagesFollow, Links!PassedAreSettled, Links!DepthsAreTrue,
              Links!SitemapsNearby, Links!Coming, Links!Uncounted
<1> QED BY <1>1, <1>2

LEMMA LinksFrontPage ==
  ASSUME Links!IInv, Links!FrontPage PROVE Links!IInv'
<1> DEFINE u == SitePage[Fronts[try]].final
<1>0. Links!TypeOK /\ Links!StagesFollow /\ Links!PagesFollow /\ Links!DepthsAreTrue
  BY DEF Links!IInv
<1>1. /\ UNCHANGED <<linkCtx, try, robots, mapQueue, mapsSeen, maps, candidates, passed, fetcher,
                     unread, siteTotal>>
      /\ linkMain = "front" /\ linkMain' = "robots" /\ site' = u /\ urls' = {u}
      /\ sitePages' = <<u>> /\ siteDone' = 1
  BY Zenon DEF Links!FrontPage, Links!sitemaps, Links!level
<1>2. u \in Sites
  <2>1. try \in 1..Len(Fronts)
    BY <1>0, <1>1 DEF Links!StagesFollow
  <2> QED BY <2>1, LinkSites
<1> HIDE DEF u
<1>3. candidates = <<>> /\ passed = 1 /\ Links!Active = {} /\ siteTotal = 0
  BY <1>0, <1>1 DEF Links!StagesFollow
<1>4. Links!TypeOK'
  <2>1. sitePages' \in Seq(Sites) /\ urls' \subseteq Sites /\ site' \in Sites \cup {"none"} /\ siteDone' \in Nat
    BY <1>1, <1>2
  <2> QED BY <1>0, <1>1, <2>1 DEF Links!TypeOK
<1>5. Links!StagesFollow'
  BY <1>1, <1>2, <1>3 DEF Links!StagesFollow, Links!Active
<1>6. Links!PagesFollow'
  <2>1. Links!Coming' = {} /\ Links!Uncounted' = {}
    BY <1>1, <1>3 DEF Links!Coming, Links!Uncounted, Links!Active
  <2>2. urls' = Links!Range(sitePages') /\ Links!IsInjective(sitePages')
    BY <1>1 DEF Links!Range, Links!IsInjective
  <2>3. Links!Cardinality(Links!Coming') = 0 /\ Links!Cardinality(Links!Uncounted') = 0
    BY <2>1, FS_EmptySet, LinkSets
  <2>4. Len(sitePages') = 1 /\ Len(candidates) = 0
    BY <1>1, <1>3, EmptySeq
  <2>5. Links!Cardinality(Links!Coming)' = 0 /\ Links!Cardinality(Links!Uncounted)' = 0
    BY <2>3
  <2> QED BY <1>1, <1>3, <2>2, <2>4, <2>5, LinkSites DEF Links!PagesFollow
<1>7. Links!PassedAreSettled'
  BY <1>1, <1>3 DEF Links!PassedAreSettled
<1>8. Links!DepthsAreTrue'
  BY <1>0, <1>1 DEF Links!DepthsAreTrue, Links!SitemapsNearby
<1> QED BY <1>4, <1>5, <1>6, <1>7, <1>8 DEF Links!IInv

\* The jobs that are near.
NearJobs ==
  {j \in Links!Jobs : j.depth <= MaxSitemapDepth => j.map \in Links!Near[j.depth]}

LEMMA LinksReadRobots ==
  ASSUME Links!IInv, NEW ok \in BOOLEAN, Links!ReadRobots(ok) PROVE Links!IInv'
<1> DEFINE seeds == IF ok /\ RobotsTxt.maps # <<>> THEN RobotsTxt.maps ELSE <<FirstMap>>
<1>0. Links!TypeOK /\ Links!StagesFollow /\ Links!PagesFollow /\ Links!PassedAreSettled /\ Links!DepthsAreTrue
  BY DEF Links!IInv
<1>1. /\ UNCHANGED <<linkCtx, try, site, mapsSeen, maps, candidates, passed, fetcher, urls, sitePages,
                     unread, siteDone, siteTotal>>
      /\ linkMain = "robots" /\ linkMain' = "sitemaps" /\ robots' = ok
      /\ mapQueue' = [k \in 1..Len(seeds) |-> [map |-> seeds[k], depth |-> 0]]
  BY Zenon DEF Links!ReadRobots, Links!level, Links!counts
<1>2. seeds \in Seq(SiteMaps) /\ Links!Range(seeds) \subseteq Links!Near[0]
  <2>1. RobotsTxt.maps \in Seq(SiteMaps) /\ FirstMap \in SiteMaps
    BY RequestsAssumption DEF Links!LinkAssumption
  <2>2. <<FirstMap>> \in Seq(SiteMaps) /\ Links!Range(<<FirstMap>>) = {FirstMap}
    BY <2>1 DEF Links!Range
  <2> QED BY <2>1, <2>2, NearIsReached
<1> HIDE DEF seeds
<1>3. Len(seeds) \in Nat /\ \A k \in 1..Len(seeds) : seeds[k] \in SiteMaps /\ seeds[k] \in Links!Near[0]
  BY <1>2 DEF Links!Range
<1>4. mapQueue' \in Seq(NearJobs)
  <2>1. \A k \in 1..Len(seeds) : [map |-> seeds[k], depth |-> 0] \in NearJobs
    BY <1>3, LinkSites DEF NearJobs, Links!Jobs
  <2> QED BY <1>1, <1>3, <2>1
<1>5. mapQueue' \in Seq(Links!Jobs) /\ \A k \in DOMAIN mapQueue' : mapQueue'[k] \in NearJobs
  BY <1>4 DEF NearJobs
<1>6. Links!TypeOK'
  BY <1>0, <1>1, <1>5 DEF Links!TypeOK
<1>7. Links!StagesFollow'
  BY <1>0, <1>1 DEF Links!StagesFollow, Links!Active
<1>8. Links!PagesFollow' /\ Links!PassedAreSettled'
  BY <1>0, <1>1 DEF Links!PagesFollow, Links!PassedAreSettled, Links!Coming, Links!Uncounted
<1>9. Links!DepthsAreTrue'
  BY <1>0, <1>1, <1>5 DEF Links!DepthsAreTrue, Links!SitemapsNearby, NearJobs
<1> QED BY <1>6, <1>7, <1>8, <1>9 DEF Links!IInv

\* What a sitemap names is one step further.
LEMMA NestedIsNear ==
  ASSUME Links!IInv, NEW j \in JobsQueued
  PROVE /\ j.map \in SiteMaps /\ j.map \in Links!Near[MaxSitemapDepth]
        /\ Links!Nested(j, 1) \in Seq(NearJobs)
<1> DEFINE list == Sitemap[j.map].nested
<1>1. j \in Links!Jobs /\ j.depth \in 0..MaxSitemapDepth /\ j.map \in Links!Near[j.depth]
  BY LinkSites DEF JobsQueued, Links!Jobs, Links!IInv, Links!DepthsAreTrue
<1>2. j.map \in SiteMaps /\ list \in Seq(SiteMaps)
  BY <1>1, RequestsAssumption DEF Links!Jobs, Links!LinkAssumption
<1>3. ASSUME j.depth + 1 <= MaxSitemapDepth
      PROVE Links!Range(list) \subseteq Links!Near[j.depth + 1]
  <2>1. j.depth + 1 \in 1..MaxSitemapDepth /\ (j.depth + 1) - 1 = j.depth
    BY <1>1, <1>3, LinkSites
  <2>2. Links!Near[j.depth + 1] = Links!Near[j.depth]
                                  \cup UNION {Links!Range(Sitemap[m].nested) : m \in Links!Near[j.depth]}
    BY <2>1, NearIsReached
  <2> QED BY <1>1, <2>2
<1>4. Links!Nested(j, 1) = [k \in 1..Len(list) |-> [map |-> list[k], depth |-> j.depth + 1]]
  BY DEF Links!Nested
<1> HIDE DEF list
<1>5. \A k \in 1..Len(list) : [map |-> list[k], depth |-> j.depth + 1] \in NearJobs
  <2> TAKE k \in 1..Len(list)
  <2>1. list[k] \in SiteMaps /\ list[k] \in Links!Range(list) /\ j.depth + 1 \in Nat
    BY <1>1, <1>2 DEF Links!Range
  <2>2. [map |-> list[k], depth |-> j.depth + 1] \in Links!Jobs
    BY <2>1 DEF Links!Jobs
  <2> QED BY <1>3, <2>1, <2>2 DEF NearJobs
<1>6. Links!Nested(j, 1) \in Seq(NearJobs)
  <2>1. Len(list) \in Nat
    BY <1>2
  <2> QED BY <1>4, <1>5, <2>1
<1> QED BY <1>1, <1>2, <1>6, NearGrows

LEMMA LinksSitemapLevel ==
  ASSUME Links!IInv, NEW ok, Links!SitemapLevel(ok, 1) PROVE Links!IInv'
<1> DEFINE jobs == Links!JobsToFetch
           answers == Links!Answered(jobs, ok)
           below == [k \in DOMAIN answers |-> Links!Nested(answers[k], 1)]
<1>0. Links!TypeOK /\ Links!StagesFollow /\ Links!PagesFollow /\ Links!PassedAreSettled /\ Links!DepthsAreTrue
  BY DEF Links!IInv
<1>1. /\ UNCHANGED <<linkCtx, linkMain, try, site, robots, candidates, passed, fetcher, urls, sitePages,
                     unread, siteDone, siteTotal>>
      /\ mapsSeen' = mapsSeen \cup {jobs[k].map : k \in DOMAIN jobs}
      /\ maps' = maps \o [k \in DOMAIN answers |-> answers[k].map]
      /\ mapQueue' = Links!FlattenSeq(below)
  BY Zenon DEF Links!SitemapLevel, Links!front, Links!level, Links!counts
<1>2. jobs \in Seq(JobsQueued)
  BY <1>0, JobsAreQueued DEF Links!TypeOK
<1> HIDE DEF jobs
<1>3. answers \in Seq(JobsQueued)
  BY <1>2, AnsweredAreJobs
<1> HIDE DEF answers
<1>4. mapsSeen' \subseteq SiteMaps /\ mapsSeen' \subseteq Links!Near[MaxSitemapDepth]
  <2>1. \A k \in DOMAIN jobs : jobs[k] \in JobsQueued
    BY <1>2
  <2>2. \A k \in DOMAIN jobs : jobs[k].map \in SiteMaps /\ jobs[k].map \in Links!Near[MaxSitemapDepth]
    BY <2>1, NestedIsNear
  <2> QED BY <1>0, <1>1, <2>2 DEF Links!TypeOK, Links!DepthsAreTrue, Links!SitemapsNearby
<1>5. Len(answers) \in Nat /\ DOMAIN answers = 1..Len(answers)
      /\ \A k \in DOMAIN answers : answers[k] \in JobsQueued
  BY <1>3
<1>6. maps' \in Seq(SiteMaps)
  <2>1. [k \in DOMAIN answers |-> answers[k].map] \in Seq(SiteMaps)
    <3>1. \A k \in DOMAIN answers : answers[k].map \in SiteMaps
      BY <1>5, NestedIsNear
    <3> QED BY <1>5, <3>1
  <2>2. maps \in Seq(SiteMaps)
    BY <1>0 DEF Links!TypeOK
  <2> QED BY <1>1, <2>1, <2>2, ConcatProperties
<1>7. mapQueue' \in Seq(NearJobs)
  <2>1. \A k \in DOMAIN answers : Links!Nested(answers[k], 1) \in Seq(NearJobs)
    BY <1>5, NestedIsNear
  <2>2. below \in Seq(Seq(NearJobs))
    BY <1>5, <2>1
  <2> HIDE DEF below
  <2> QED BY <1>1, <2>2, FlattenIn
<1> HIDE DEF below
<1>8. mapQueue' \in Seq(Links!Jobs) /\ \A k \in DOMAIN mapQueue' : mapQueue'[k] \in NearJobs
  BY <1>7 DEF NearJobs
<1>9. Links!TypeOK'
  BY <1>0, <1>1, <1>4, <1>6, <1>8 DEF Links!TypeOK
<1>10. Links!StagesFollow' /\ Links!PagesFollow' /\ Links!PassedAreSettled'
  BY <1>0, <1>1 DEF Links!StagesFollow, Links!Active, Links!Cancelled, Links!PagesFollow,
                    Links!PassedAreSettled, Links!Coming, Links!Uncounted
<1>11. Links!DepthsAreTrue'
  BY <1>1, <1>4, <1>8 DEF Links!DepthsAreTrue, Links!SitemapsNearby, NearJobs
<1> QED BY <1>9, <1>10, <1>11 DEF Links!IInv

LEMMA LinksChoose ==
  ASSUME Links!IInv, Links!Choose PROVE Links!IInv'
<1> DEFINE all == Links!OfSite(Links!LinksFound)
           room == MaxSites - 1
<1>0. Links!TypeOK /\ Links!StagesFollow /\ Links!PagesFollow /\ Links!PassedAreSettled /\ Links!DepthsAreTrue
  BY DEF Links!IInv
<1>1. /\ UNCHANGED <<linkCtx, try, site, robots, mapQueue, mapsSeen, maps, passed, fetcher, urls,
                     sitePages, unread, siteDone>>
      /\ linkMain = "sitemaps" /\ linkMain' = "loop"
      /\ candidates' = Links!Candidates(room) /\ siteTotal' = 1 + Len(candidates')
  BY Zenon DEF Links!Choose, Links!front, Links!sitemaps
<1>2. candidates = <<>> /\ passed = 1 /\ Links!Active = {} /\ site \in Sites
  BY <1>0, <1>1 DEF Links!StagesFollow
<1>3. all \in Seq(Sites)
  <2>1. SitePage[site].links \in Seq(Sites)
    BY <1>2, LinkSites
  <2>2. Links!FlattenSeq([k \in DOMAIN maps |-> Sitemap[maps[k]].urls]) \in Seq(Sites)
    <3>1. Len(maps) \in Nat /\ DOMAIN maps = 1..Len(maps) /\ \A k \in DOMAIN maps : maps[k] \in SiteMaps
      BY <1>0 DEF Links!TypeOK
    <3>2. \A k \in DOMAIN maps : Sitemap[maps[k]].urls \in Seq(Sites)
      BY <3>1, RequestsAssumption DEF Links!LinkAssumption
    <3>3. [k \in DOMAIN maps |-> Sitemap[maps[k]].urls] \in Seq(Seq(Sites))
      BY <3>1, <3>2
    <3> QED BY <3>3, FlattenIn
  <2>3. (IF robots THEN RobotsTxt.paths ELSE <<>>) \in Seq(Sites)
    <3>1. RobotsTxt.paths \in Seq(Sites) /\ <<>> \in Seq(Sites)
      BY RequestsAssumption, EmptySeq DEF Links!LinkAssumption
    <3> QED BY <3>1
  <2>4. Links!LinksFound \in Seq(Sites)
    BY <2>1, <2>2, <2>3, ConcatProperties DEF Links!LinksFound
  <2> QED BY <2>4, LinksOfSite
<1>4. candidates' = SubSeq(all, 1, IF Len(all) > room THEN room ELSE Len(all))
  BY <1>1 DEF Links!Candidates
<1> HIDE DEF all
<1>5. candidates' \in Seq(Sites) /\ Len(candidates') \in 0..room
  <2>1. Len(all) \in Nat /\ room \in Nat
    BY <1>3, LinkSites
  <2>2. ASSUME NEW m \in 0..Len(all), m <= room, candidates' = SubSeq(all, 1, m)
        PROVE candidates' \in Seq(Sites) /\ Len(candidates') \in 0..room
    BY <1>3, <2>1, <2>2, SubSeqProperties
  <2> QED BY <1>4, <2>1, <2>2
<1>6. Links!TypeOK'
  BY <1>0, <1>1, <1>2, <1>5, LinkSites DEF Links!TypeOK
<1>7. Links!StagesFollow'
  BY <1>1 DEF Links!StagesFollow
<1>8. Links!PagesFollow' /\ Links!PassedAreSettled'
  <2>1. Len(candidates') < MaxSites /\ siteTotal' = Len(candidates') + 1
    BY <1>1, <1>5, LinkSites
  <2> QED BY <1>0, <1>1, <1>2, <2>1 DEF Links!PagesFollow, Links!PassedAreSettled, Links!Coming, Links!Uncounted
<1>9. Links!DepthsAreTrue'
  BY <1>0, <1>1 DEF Links!DepthsAreTrue, Links!SitemapsNearby
<1> QED BY <1>6, <1>7, <1>8, <1>9 DEF Links!IInv

LEMMA LinksSkip ==
  ASSUME Links!IInv, Links!Skip PROVE Links!IInv'
<1>0. Links!TypeOK /\ Links!StagesFollow /\ Links!PagesFollow /\ Links!PassedAreSettled /\ Links!DepthsAreTrue
  BY DEF Links!IInv
<1>1. /\ UNCHANGED <<linkCtx, linkMain, try, site, robots, mapQueue, mapsSeen, maps, candidates, fetcher,
                     urls, sitePages, unread, siteDone, siteTotal>>
      /\ linkMain = "loop" /\ passed <= Len(candidates) /\ candidates[passed] \in urls
      /\ passed' = passed + 1
  BY Zenon DEF Links!Skip, Links!LoopGoesOn, Links!Current, Links!front, Links!sitemaps, Links!counts
<1>2. Len(candidates) \in Nat /\ passed \in 1..Len(candidates)
  BY <1>0, <1>1 DEF Links!TypeOK
<1>3. Links!TypeOK'
  BY <1>0, <1>1, <1>2 DEF Links!TypeOK
<1>4. Links!StagesFollow'
  BY <1>0, <1>1 DEF Links!StagesFollow, Links!Active
<1>5. Links!PagesFollow'
  <2>1. Len(sitePages) \in Nat
    BY <1>0 DEF Links!TypeOK
  <2>2. UNCHANGED <<Links!Coming, Links!Uncounted>>
    BY <1>1 DEF Links!Coming, Links!Uncounted
  <2>3. Len(sitePages') + Links!Cardinality(Links!Coming') <= passed'
    BY <1>0, <1>1, <1>2, <2>1, <2>2, LinkCounts DEF Links!PagesFollow
  <2> QED BY <1>0, <1>1, <2>2, <2>3 DEF Links!PagesFollow
<1>6. Links!PassedAreSettled'
  <2>1. Links!Coming' = Links!Coming
    BY <1>1 DEF Links!Coming
  <2>2. \A k \in 1..(passed' - 1) : k \in 1..(passed - 1) \/ k = passed
    BY <1>1, <1>2
  <2> QED BY <1>0, <1>1, <2>1, <2>2 DEF Links!PassedAreSettled
<1>7. Links!DepthsAreTrue'
  BY <1>0, <1>1 DEF Links!DepthsAreTrue, Links!SitemapsNearby
<1> QED BY <1>3, <1>4, <1>5, <1>6, <1>7 DEF Links!IInv

LEMMA LinksSpawn ==
  ASSUME Links!IInv, Links!Spawn PROVE Links!IInv'
<1> DEFINE u == candidates[passed]
<1>0. Links!TypeOK /\ Links!StagesFollow /\ Links!PagesFollow /\ Links!PassedAreSettled /\ Links!DepthsAreTrue
  BY DEF Links!IInv
<1>1. /\ UNCHANGED <<linkCtx, try, site, robots, mapQueue, mapsSeen, maps, candidates, urls, sitePages,
                     unread, siteDone, siteTotal>>
      /\ linkMain = "place" /\ linkMain' = "loop" /\ fetcher' = [fetcher EXCEPT ![u] = "fetch"]
      /\ passed' = passed + 1
  BY Zenon DEF Links!Spawn, Links!Current, Links!front, Links!sitemaps, Links!counts
<1>2. Len(candidates) \in Nat /\ passed \in 1..Len(candidates) /\ u \in Sites
  BY <1>0, <1>1 DEF Links!TypeOK, Links!StagesFollow
<1> HIDE DEF u
<1>3. Links!TypeOK'
  BY <1>0, <1>1, <1>2 DEF Links!TypeOK
<1>4. Links!StagesFollow'
  BY <1>1 DEF Links!StagesFollow
<1>5. Links!Coming' = Links!Coming \cup {u} /\ Links!Uncounted' = Links!Uncounted \ {u}
  BY <1>0, <1>1, <1>2 DEF Links!TypeOK, Links!Coming, Links!Uncounted
<1>6. Links!PagesFollow'
  <2>1. Links!Cardinality(Links!Coming') \in Nat
        /\ Links!Cardinality(Links!Coming') <= Links!Cardinality(Links!Coming) + 1
    BY <1>5, LinkCounts, FS_AddElement, FS_CardinalityType, LinkSets
  <2>2. Links!Cardinality(Links!Uncounted') \in Nat
        /\ Links!Cardinality(Links!Uncounted') <= Links!Cardinality(Links!Uncounted)
    <3>1. Links!Uncounted' \subseteq Links!Uncounted
      BY <1>5
    <3> QED BY <3>1, LinkCounts, FS_Subset, FS_CardinalityType, LinkSets
  <2>3. Len(sitePages) \in Nat /\ siteDone \in Nat
    BY <1>0 DEF Links!TypeOK
  <2>4. Len(sitePages') + Links!Cardinality(Links!Coming') <= passed'
        /\ siteDone' + Links!Cardinality(Links!Uncounted') <= Len(sitePages')
    BY <1>0, <1>1, <1>2, <2>1, <2>2, <2>3, LinkCounts DEF Links!PagesFollow
  <2> QED BY <1>0, <1>1, <2>4 DEF Links!PagesFollow
<1>7. Links!PassedAreSettled'
  <2>1. \A k \in 1..(passed' - 1) : k \in 1..(passed - 1) \/ k = passed
    BY <1>1, <1>2
  <2> QED BY <1>0, <1>1, <1>5, <2>1 DEF Links!PassedAreSettled, u
<1>8. Links!DepthsAreTrue'
  BY <1>0, <1>1 DEF Links!DepthsAreTrue, Links!SitemapsNearby
<1> QED BY <1>3, <1>4, <1>6, <1>7, <1>8 DEF Links!IInv

\* What every step of a worker leaves alone, and where the worker goes.
Moves(u, to) ==
  /\ UNCHANGED <<linkCtx, linkMain, try, site, robots, mapQueue, mapsSeen, maps, candidates, passed,
                 siteTotal>>
  /\ fetcher' = [fetcher EXCEPT ![u] = to]

LEMMA LinksMove ==
  ASSUME Links!IInv, NEW u \in Sites, fetcher[u] \in {"fetch", "add", "count", "tell"},
         NEW to \in {"add", "count", "tell", "back"}, Moves(u, to),
         urls' \subseteq Sites, sitePages' \in Seq(Sites), siteDone' \in Nat,
         Links!PagesFollow', Links!PassedAreSettled'
  PROVE Links!IInv'
<1>0. Links!TypeOK /\ Links!StagesFollow /\ Links!DepthsAreTrue
  BY DEF Links!IInv
<1>1. Links!TypeOK'
  BY <1>0 DEF Links!TypeOK, Moves
<1>2. u \in Links!Active
  BY DEF Links!Active
<1>3. linkMain \notin {"front", "robots", "sitemaps", "over"}
  BY <1>0, <1>2 DEF Links!StagesFollow
<1>4. Links!StagesFollow'
  BY <1>0, <1>3 DEF Links!StagesFollow, Links!Cancelled, Moves
<1>5. Links!DepthsAreTrue'
  BY <1>0 DEF Links!DepthsAreTrue, Links!SitemapsNearby, Moves
<1> QED BY <1>1, <1>4, <1>5 DEF Links!IInv

LEMMA LinksWork ==
  ASSUME Links!IInv, NEW u \in Sites, Links!Work(u) PROVE Links!IInv'
<1>0. Links!TypeOK /\ Links!PagesFollow /\ Links!PassedAreSettled
  BY DEF Links!IInv
<1>1. /\ fetcher \in [Sites -> {"none", "fetch", "add", "count", "tell", "back"}]
      /\ urls \subseteq Sites /\ sitePages \in Seq(Sites) /\ Len(sitePages) \in Nat /\ siteDone \in Nat
  BY <1>0 DEF Links!TypeOK
<1>2. CASE Links!FetchFails(u)
  <2>1. /\ fetcher[u] = "fetch" /\ Moves(u, "back") /\ UNCHANGED <<urls, sitePages, siteDone>>
        /\ unread' = unread \cup {u}
    BY <1>2, Zenon DEF Links!FetchFails, Moves, Links!front, Links!sitemaps, Links!level, Links!counts
  <2>2. Links!Coming' = Links!Coming \ {u} /\ Links!Uncounted' = Links!Uncounted
    BY <1>1, <2>1 DEF Moves, Links!Coming, Links!Uncounted
  <2>3. Links!Cardinality(Links!Coming') \in Nat
        /\ Links!Cardinality(Links!Coming') <= Links!Cardinality(Links!Coming)
    <3>1. Links!Coming' \subseteq Links!Coming
      BY <2>2
    <3> QED BY <3>1, LinkCounts, FS_Subset, FS_CardinalityType, LinkSets
  <2>4. Links!PagesFollow'
    <3>1. Len(sitePages') + Links!Cardinality(Links!Coming') <= passed
      BY <1>0, <1>1, <2>1, <2>3, LinkCounts DEF Links!PagesFollow, Links!TypeOK
    <3> QED BY <1>0, <2>1, <2>2, <3>1 DEF Links!PagesFollow, Moves
  <2>5. Links!PassedAreSettled'
    BY <1>0, <2>1, <2>2 DEF Links!PassedAreSettled, Moves
  <2> QED BY <1>1, <2>1, <2>4, <2>5, LinksMove
<1>3. CASE Links!Fetch(u)
  <2>1. /\ fetcher[u] = "fetch" /\ Moves(u, "add") /\ UNCHANGED <<urls, sitePages, siteDone, unread>>
    BY <1>3, Zenon DEF Links!Fetch, Moves, Links!front, Links!sitemaps, Links!level, Links!counts
  <2>2. Links!Coming' = Links!Coming /\ Links!Uncounted' = Links!Uncounted
    BY <1>1, <2>1 DEF Moves, Links!Coming, Links!Uncounted
  <2>3. Links!PagesFollow' /\ Links!PassedAreSettled'
    BY <1>0, <2>1, <2>2 DEF Links!PagesFollow, Links!PassedAreSettled, Moves
  <2> QED BY <1>1, <2>1, <2>3, LinksMove
<1>4. CASE Links!AddPage(u)
  <2> DEFINE p == SitePage[u].final
  <2>1. /\ fetcher[u] = "add" /\ Moves(u, IF p \in urls THEN "back" ELSE "count")
        /\ UNCHANGED <<siteDone, unread>> /\ urls' = urls \cup {p}
        /\ sitePages' = IF p \in urls THEN sitePages ELSE Append(sitePages, p)
    BY <1>4, Zenon DEF Links!AddPage, Links!Known, Moves, Links!front, Links!sitemaps, Links!level, Links!counts
  <2>2. p \in Sites
    BY LinkSites
  <2> HIDE DEF p
  <2>3. Links!Coming' = Links!Coming \ {u} /\ u \in Links!Coming /\ u \notin Links!Uncounted
        /\ Links!Uncounted' = IF p \in urls THEN Links!Uncounted ELSE Links!Uncounted \cup {u}
    BY <1>1, <2>1 DEF Moves, Links!Coming, Links!Uncounted
  <2>4. Links!Cardinality(Links!Coming') \in Nat
        /\ Links!Cardinality(Links!Coming') = Links!Cardinality(Links!Coming) - 1
    BY <2>3, LinkCounts, FS_RemoveElement, FS_CardinalityType, LinkSets
  <2>5. Links!Cardinality(Links!Uncounted \cup {u}) = Links!Cardinality(Links!Uncounted) + 1
    BY <2>3, LinkCounts, FS_AddElement, LinkSets
  <2>6. Links!PagesFollow'
    <3>1. CASE p \in urls
      <4>1. Len(sitePages') + Links!Cardinality(Links!Coming') <= passed
        BY <1>0, <1>1, <2>1, <2>4, <3>1, LinkCounts DEF Links!PagesFollow, Links!TypeOK
      <4>2. urls' = urls /\ sitePages' = sitePages /\ Links!Uncounted' = Links!Uncounted
        BY <2>1, <2>3, <3>1
      <4> QED BY <1>0, <2>1, <4>1, <4>2 DEF Links!PagesFollow, Moves
    <3>2. CASE p \notin urls
      <4>1. sitePages' = Append(sitePages, p) /\ urls' = urls \cup {p}
            /\ Links!Uncounted' = Links!Uncounted \cup {u}
        BY <2>1, <2>3, <3>2
      <4>2. Len(sitePages') = Len(sitePages) + 1 /\ \A k \in 1..Len(sitePages) : sitePages'[k] = sitePages[k]
            /\ sitePages'[Len(sitePages) + 1] = p
        BY <1>1, <2>2, <4>1, AppendProperties
      <4>3. urls' = Links!Range(sitePages') /\ Links!IsInjective(sitePages')
        <5>1. urls = Links!Range(sitePages) /\ Links!IsInjective(sitePages)
              /\ DOMAIN sitePages = 1..Len(sitePages)
          BY <1>0, <1>1 DEF Links!PagesFollow
        <5>2. DOMAIN sitePages' = 1..(Len(sitePages) + 1)
          BY <1>1, <2>2, <4>1
        <5>3. \A k \in 1..(Len(sitePages) + 1) : k \in 1..Len(sitePages) \/ k = Len(sitePages) + 1
          BY <1>1
        <5>4. \A k \in 1..Len(sitePages) : sitePages[k] \in urls /\ sitePages[k] # p
          BY <3>2, <5>1 DEF Links!Range
        <5>5. Links!Range(sitePages') = urls'
          BY <4>1, <4>2, <5>1, <5>2, <5>3 DEF Links!Range
        <5> QED BY <4>2, <5>1, <5>2, <5>3, <5>4, <5>5 DEF Links!IsInjective
      <4>4. Len(sitePages') + Links!Cardinality(Links!Coming') <= passed
            /\ siteDone' + Links!Cardinality(Links!Uncounted') <= Len(sitePages')
        BY <1>0, <1>1, <2>1, <2>4, <2>5, <4>1, <4>2, LinkCounts DEF Links!PagesFollow, Links!TypeOK
      <4> QED BY <1>0, <2>1, <4>3, <4>4 DEF Links!PagesFollow, Moves
    <3> QED BY <3>1, <3>2
  <2>7. Links!PassedAreSettled'
    <3>1. ASSUME NEW k \in 1..(passed - 1)
          PROVE \/ candidates[k] \in Links!Coming' \cup unread' \cup urls'
                \/ SitePage[candidates[k]].final \in urls'
      BY <1>0, <2>1, <2>3 DEF Links!PassedAreSettled, p
    <3> QED BY <2>1, <3>1 DEF Links!PassedAreSettled, Moves
  <2>8. urls' \subseteq Sites /\ sitePages' \in Seq(Sites)
    BY <1>1, <2>1, <2>2, AppendProperties
  <2> QED BY <1>1, <2>1, <2>6, <2>7, <2>8, LinksMove
<1>5. CASE Links!Count(u)
  <2>1. /\ fetcher[u] = "count" /\ Moves(u, "tell") /\ UNCHANGED <<urls, sitePages, unread>>
        /\ siteDone' = siteDone + 1
    BY <1>5, Zenon DEF Links!Count, Moves, Links!front, Links!sitemaps, Links!level
  <2>2. Links!Coming' = Links!Coming /\ u \in Links!Uncounted /\ Links!Uncounted' = Links!Uncounted \ {u}
    BY <1>1, <2>1 DEF Moves, Links!Coming, Links!Uncounted
  <2>3. Links!Cardinality(Links!Uncounted') \in Nat
        /\ Links!Cardinality(Links!Uncounted') = Links!Cardinality(Links!Uncounted) - 1
    BY <2>2, LinkCounts, FS_RemoveElement, FS_CardinalityType, LinkSets
  <2>4. siteDone' + Links!Cardinality(Links!Uncounted') <= Len(sitePages)
    BY <1>0, <1>1, <2>1, <2>3, LinkCounts DEF Links!PagesFollow
  <2>5. Links!PagesFollow' /\ Links!PassedAreSettled'
    BY <1>0, <2>1, <2>2, <2>4 DEF Links!PagesFollow, Links!PassedAreSettled, Moves
  <2> QED BY <1>1, <2>1, <2>5, LinksMove
<1>6. CASE Links!Tell(u)
  <2>1. /\ fetcher[u] = "tell" /\ Moves(u, "back") /\ UNCHANGED <<urls, sitePages, unread, siteDone>>
    BY <1>6, Zenon DEF Links!Tell, Moves, Links!front, Links!sitemaps, Links!level
  <2>2. Links!Coming' = Links!Coming /\ Links!Uncounted' = Links!Uncounted
    BY <1>1, <2>1 DEF Moves, Links!Coming, Links!Uncounted
  <2>3. Links!PagesFollow' /\ Links!PassedAreSettled'
    BY <1>0, <2>1, <2>2 DEF Links!PagesFollow, Links!PassedAreSettled, Moves
  <2> QED BY <1>1, <2>1, <2>3, LinksMove
<1> QED BY <1>2, <1>3, <1>4, <1>5, <1>6 DEF Links!Work

\* The inductive invariant gives what the crawl promises.
LEMMA LinksPromise ==
  ASSUME Links!IInv PROVE LinksAreFollowed
<1>0. Links!TypeOK /\ Links!StagesFollow /\ Links!PagesFollow /\ Links!PassedAreSettled /\ Links!DepthsAreTrue
  BY DEF Links!IInv
<1>1. Len(candidates) \in Nat /\ passed \in 1..(Len(candidates) + 1) /\ Len(sitePages) \in Nat /\ siteDone \in Nat
  BY <1>0 DEF Links!TypeOK
<1>2. Links!EachPageOnce
  <2>1. Len(sitePages) <= MaxSites
    BY <1>0, <1>1, LinkCounts, LinkSites DEF Links!PagesFollow
  <2>2. siteTotal > 0 => siteDone <= siteTotal
    BY <1>0, <1>1, LinkCounts DEF Links!PagesFollow, Links!TypeOK
  <2> QED BY <1>0, <2>1, <2>2 DEF Links!EachPageOnce, Links!PagesFollow
<1>3. Links!NothingOverlooked
  <2> SUFFICES ASSUME linkMain = "over", ~Links!Cancelled, NEW k \in DOMAIN candidates
               PROVE \/ candidates[k] \in unread
                     \/ SitePage[candidates[k]].final \in Links!Range(sitePages)
                     \/ candidates[k] \in Links!Range(sitePages)
    BY DEF Links!NothingOverlooked
  <2>1. passed = Len(candidates) + 1 /\ Links!Active = {}
    BY <1>0 DEF Links!StagesFollow
  <2>2. Links!Coming = {}
    BY <2>1 DEF Links!Active, Links!Coming
  <2>3. k \in 1..(passed - 1)
    BY <1>0, <1>1, <2>1 DEF Links!TypeOK
  <2> QED BY <1>0, <2>2, <2>3 DEF Links!PassedAreSettled, Links!PagesFollow
<1> QED BY <1>0, <1>2, <1>3 DEF LinksAreFollowed, Links!DepthsAreTrue

LEMMA LinksStep ==
  ASSUME Links!IInv, [Links!Next]_(Links!vars) PROVE Links!IInv'
<1>1. CASE Links!Cancel
  BY <1>1, LinksCancel
<1>2. CASE Links!Crawl
  <2>1. CASE \E ok \in BOOLEAN : Links!ReadRobots(ok)
    BY <2>1, LinksReadRobots
  <2>2. CASE Links!Sitemaps
    BY <2>2, LinksSitemapLevel DEF Links!Sitemaps
  <2> QED BY <1>2, <2>1, <2>2, LinksLoop, LinksFrontPage, LinksChoose, LinksSkip, LinksSpawn DEF Links!Crawl
<1>3. CASE \E u \in Sites : Links!Work(u)
  BY <1>3, LinksWork
<1>4. CASE UNCHANGED Links!vars
  BY <1>4 DEF Links!vars, Links!front, Links!sitemaps, Links!level, Links!counts, Links!IInv, Links!TypeOK,
       Links!StagesFollow, Links!PagesFollow, Links!PassedAreSettled, Links!DepthsAreTrue,
       Links!SitemapsNearby, Links!Active, Links!Coming, Links!Uncounted, Links!Cancelled
<1> QED BY <1>1, <1>2, <1>3, <1>4 DEF Links!Next

\* The crawl for subdomains keeps each page once and no more than it may, asks for
\* no sitemap that is further than it may go, though they name each other, and
\* has an answer for each of its candidates when it ends on its own.
THEOREM SubdomainCrawlKeepsItsWord == Links!Spec => []LinksAreFollowed
<1>1. Links!Init => Links!IInv
  BY LinksInit
<1>2. Links!IInv /\ [Links!Next]_(Links!vars) => Links!IInv'
  BY LinksStep
<1>3. Links!IInv => LinksAreFollowed
  BY LinksPromise
<1> QED BY <1>1, <1>2, <1>3, PTL DEF Links!Spec

-----------------------------------------------------------------------------
(* The analysis of endpoints: what its operators return.                    *)

LEMMA HttpSets ==
  /\ \A S : Http!Cardinality(S) = Cardinality(S)
  /\ \A S : Http!IsFiniteSet(S) <=> IsFiniteSet(S)
BY DEF Http!Cardinality, Http!IsFiniteSet, Cardinality, IsFiniteSet

LEMMA HttpConstants ==
  /\ Endpoint \in Http!AllUrls /\ EndpointLists \subseteq Seq(Http!AllUrls) /\ "none" \notin Http!AllUrls
  /\ FetchesAtOnce \in Nat \ {0} /\ MaxEndpoints \in Nat /\ MaxAnalyses \in Nat /\ MaxDialogs \in Nat
BY RequestsAssumption DEF Http!EndpointAssumption

LEMMA FewAreFinite ==
  ASSUME NEW a, NEW b, NEW c, NEW d, NEW e PROVE IsFiniteSet({a, b, c, d, e})
<1>1. IsFiniteSet({a}) /\ IsFiniteSet({b}) /\ IsFiniteSet({c}) /\ IsFiniteSet({d}) /\ IsFiniteSet({e})
  BY FS_Singleton
<1>2. IsFiniteSet({a} \cup {b})
  BY <1>1, FS_Union
<1>3. IsFiniteSet(({a} \cup {b}) \cup {c})
  BY <1>1, <1>2, FS_Union
<1>4. IsFiniteSet((({a} \cup {b}) \cup {c}) \cup {d})
  BY <1>1, <1>3, FS_Union
<1>5. IsFiniteSet(((({a} \cup {b}) \cup {c}) \cup {d}) \cup {e})
  BY <1>1, <1>4, FS_Union
<1>6. ((({a} \cup {b}) \cup {c}) \cup {d}) \cup {e} = {a, b, c, d, e}
  OBVIOUS
<1> QED BY <1>5, <1>6

\* The checklist of a response is finite.
LEMMA ChecksAreCounted ==
  ASSUME NEW has, NEW status PROVE Http!Count(has, status) \in Nat
<1>1. IsFiniteSet(Http!HeaderChecks(has))
  <2> DEFINE always == {Http!Tri("csp", "csp" \in has, "warn"), Http!Tri("nosniff", "nosniff" \in has, "warn"),
                        Http!Tri("frame", "frame" \in has, "warn"), Http!Tri("referrer", "referrer" \in has, "info"),
                        Http!Tri("permissions", "permissions" \in has, "info")}
             hsts == Http!Check("hsts", IF "hsts" \in has THEN "pass" ELSE IF "short hsts" \in has THEN "warn" ELSE "fail")
             cors == Http!Check("cors", IF "credentials" \in has THEN "fail" ELSE "info")
             maybe == {hsts, cors, Http!Check("banner", "warn"), Http!Check("powered-by", "warn"), Http!Check("debug", "warn")}
  <2>1. IsFiniteSet(always)
    BY FewAreFinite
  <2>2. IsFiniteSet(maybe)
    BY FewAreFinite
  <2>3. Http!HeaderChecks(has) \subseteq always \cup maybe
    BY DEF Http!HeaderChecks
  <2> HIDE DEF always, maybe
  <2>4. IsFiniteSet(always \cup maybe)
    BY <2>1, <2>2, FS_Union
  <2> QED BY <2>3, <2>4, FS_Subset
<1>2. IsFiniteSet(Http!CookieChecks(has))
  <2> DEFINE some == {Http!Check("cookie-none", "info"), Http!Check("cookie-secure", "fail"),
                      Http!Check("cookie-secure", "warn"), Http!Check("cookie-httponly", "warn"),
                      Http!Check("cookie-httponly", "warn")}
  <2>1. IsFiniteSet(some)
    BY FewAreFinite
  <2>2. Http!CookieChecks(has) \subseteq some
    BY DEF Http!CookieChecks
  <2> HIDE DEF some
  <2> QED BY <2>1, <2>2, FS_Subset
<1>3. IsFiniteSet(Http!CacheChecks(has))
  <2> DEFINE some == {Http!Check("policy", "fail"), Http!Check("policy", "warn"), Http!Check("policy", "info"),
                      Http!Check("vary", "warn"), Http!Check("vary", "warn")}
  <2>1. IsFiniteSet(some)
    BY FewAreFinite
  <2>2. Http!CacheChecks(has) \subseteq some
    BY DEF Http!CacheChecks
  <2> HIDE DEF some
  <2> QED BY <2>1, <2>2, FS_Subset
<1>4. IsFiniteSet(Http!TLSChecks(has))
  <2> DEFINE cert == Http!Check("cert", IF "expires" \in has THEN "fail" ELSE IF "expires soon" \in has THEN "warn" ELSE "pass")
             some == {Http!Check("https", "warn"), Http!Check("https", "pass"), cert,
                      Http!Tri("version", "old tls" \notin has, "warn"), cert}
  <2>1. IsFiniteSet(some)
    BY FewAreFinite
  <2>2. Http!TLSChecks(has) \subseteq some
    BY DEF Http!TLSChecks
  <2> HIDE DEF some
  <2> QED BY <2>1, <2>2, FS_Subset
<1>5. IsFiniteSet(Http!HeaderChecks(has) \cup Http!CookieChecks(has))
  BY <1>1, <1>2, FS_Union
<1>6. IsFiniteSet((Http!HeaderChecks(has) \cup Http!CookieChecks(has)) \cup Http!CacheChecks(has))
  BY <1>3, <1>5, FS_Union
<1>7. IsFiniteSet(((Http!HeaderChecks(has) \cup Http!CookieChecks(has)) \cup Http!CacheChecks(has)) \cup Http!TLSChecks(has))
  BY <1>4, <1>6, FS_Union
<1>8. IsFiniteSet(Http!BuildChecks(has))
  BY <1>7 DEF Http!BuildChecks
<1>9. {c \in Http!BuildChecks(has) : c.status = status} \subseteq Http!BuildChecks(has)
  OBVIOUS
<1>10. Cardinality({c \in Http!BuildChecks(has) : c.status = status}) \in Nat
  BY <1>8, <1>9, FS_Subset, FS_CardinalityType
<1> QED BY <1>10, HttpSets DEF Http!Count

\* A failed check costs more than the best grade can bear.
LEMMA BestGrade ==
  ASSUME NEW has, Http!Grade(Http!Score(has)) = "A" PROVE Http!Count(has, "fail") = 0
<1> DEFINE fails == Http!Count(has, "fail")
           warns == Http!Count(has, "warn")
           left == 100 - 12 * fails - 5 * warns
<1>1. fails \in Nat /\ warns \in Nat
  BY ChecksAreCounted
<1>2. Http!Score(has) = IF left < 0 THEN 0 ELSE left
  BY DEF Http!Score
<1>3. Http!Score(has) >= 90
  <2>1. Http!Score(has) \in Int
    BY <1>1, <1>2
  <2> QED BY <2>1 DEF Http!Grade
<1> HIDE DEF fails, warns
<1>4. fails = 0
  BY <1>1, <1>2, <1>3
<1> QED BY <1>4 DEF fails

\* A report of an analysis is honest about its endpoint.
LEMMA AnalyzeIsHonest ==
  ASSUME NEW url \in Http!AllUrls, NEW answers \in BOOLEAN
  PROVE /\ Http!Analyze(url, answers) \in Http!Reports /\ Http!Analyze(url, answers).url = url
        /\ Http!Honest(Http!Analyze(url, answers)) /\ Http!Filled(Http!Analyze(url, answers))
        /\ Http!Analyze(url, answers) # Http!NoReport
<1> DEFINE report == Http!Analyze(url, answers)
<1>1. /\ report.url = url /\ report \in Http!Reports
      /\ report.grade = "A" => ~report.error /\ Http!Grade(Http!Score(Responses[url])) = "A"
  <2>1. Http!Grade(Http!Score(Responses[url])) \in {"A", "B", "C", "D", "F"}
    BY DEF Http!Grade
  <2> QED BY <2>1 DEF Http!Analyze, Http!Reports
<1>2. Http!Earned(report)
  BY <1>1, BestGrade DEF Http!Earned
<1>3. url # "none"
  BY HttpConstants
<1> QED BY <1>1, <1>2, <1>3 DEF Http!Honest, Http!Filled, Http!NoReport

\* What holds at the start of a loop and goes on to the next step holds at its end.
LEMMA Counting ==
  ASSUME NEW n \in Nat, NEW P, 0 \in P, \A k \in 1..n : k - 1 \in P => k \in P PROVE n \in P
<1> DEFINE D == (0..n) \ P
<1>1. ASSUME NEW d \in D, \A e \in D : d <= e PROVE FALSE
  <2>1. d \in 1..n /\ d - 1 \in 0..n /\ d - 1 \notin D
    BY <1>1
  <2> QED BY <2>1
<1>2. D = {}
  <2>1. D \in SUBSET Nat
    OBVIOUS
  <2> HIDE DEF D
  <2> QED BY <1>1, <2>1, Smallest
<1> QED BY <1>2

\* A list that starts empty and grows step by step.
Builds(f, n, step) == f = [k \in 0..n |-> IF k = 0 THEN <<>> ELSE step[k][f[k - 1]]]

LEMMA ListIsBuilt ==
  ASSUME NEW X, <<>> \in X, NEW n \in Nat, NEW step \in [1..n -> [X -> X]]
  PROVE \E f : Builds(f, n, step) /\ f \in [0..n -> X]
<1>1. PICK g : Unfolds(g, X, <<>>, n, step)
  BY RecursionExists
<1>2. \A k \in 0..n : g[k] = IF k = 0 THEN <<>> ELSE step[k][g[k - 1]]
  <2>1. \A k \in 0..n : k # 0 => k \in 1..n
    OBVIOUS
  <2> QED BY <1>1, <2>1 DEF Unfolds
<1>3. g = [k \in 0..n |-> g[k]]
  BY <1>1 DEF Unfolds
<1> QED BY <1>1, <1>2, <1>3 DEF Unfolds, Builds

\* Each URL once and no more than there may be.
LEMMA NormalizedOnce ==
  ASSUME NEW batch \in Seq(Http!AllUrls)
  PROVE /\ Http!Normalized(batch) \in Seq(Http!AllUrls) /\ Http!IsInjective(Http!Normalized(batch))
        /\ Len(Http!Normalized(batch)) <= MaxEndpoints
<1> DEFINE U == Http!AllUrls
           n == Len(batch)
           Add(list, k) == Http!Accept(list, batch[k], batch[k] \notin Http!Range(list) /\ Len(list) < MaxEndpoints)
           Loop(f) == f = [k \in 0..n |-> IF k = 0 THEN <<>> ELSE Add(f[k - 1], k)]
           step == [k \in 1..n |-> [list \in Seq(U) |-> Add(list, k)]]
<1>1. Http!Normalized(batch) = (CHOOSE f : Loop(f))[n]
  BY Zenon DEF Http!Normalized
<1>2. n \in Nat /\ \A k \in 1..n : batch[k] \in U
  OBVIOUS
<1>3. \A list \in Seq(U), k \in 1..n : Add(list, k) \in Seq(U)
  BY <1>2, AppendProperties DEF Http!Accept
<1>4. ASSUME NEW list \in Seq(U), NEW k \in 1..n, Http!IsInjective(list), Len(list) <= MaxEndpoints
      PROVE Http!IsInjective(Add(list, k)) /\ Len(Add(list, k)) <= MaxEndpoints
  <2>1. CASE batch[k] \in Http!Range(list) \/ ~(Len(list) < MaxEndpoints)
    BY <1>4, <2>1 DEF Http!Accept
  <2>2. CASE batch[k] \notin Http!Range(list) /\ Len(list) < MaxEndpoints
    <3>1. Add(list, k) = Append(list, batch[k])
      BY <2>2 DEF Http!Accept
    <3>2. Len(Append(list, batch[k])) = Len(list) + 1 /\ Append(list, batch[k]) \in Seq(U)
          /\ Append(list, batch[k])[Len(list) + 1] = batch[k]
          /\ \A i \in 1..Len(list) : Append(list, batch[k])[i] = list[i]
      BY <1>2, AppendProperties
    <3>3. \A i \in 1..Len(list) : list[i] # batch[k]
      BY <2>2 DEF Http!Range
    <3>4. DOMAIN Append(list, batch[k]) = 1..(Len(list) + 1) /\ DOMAIN list = 1..Len(list) /\ Len(list) \in Nat
      BY <3>2
    <3> HIDE DEF n, Add
    <3>5. Http!IsInjective(Append(list, batch[k]))
      <4> DEFINE more == Append(list, batch[k])
      <4>0. DOMAIN more = 1..(Len(list) + 1) /\ more[Len(list) + 1] = batch[k]
            /\ \A i \in 1..Len(list) : more[i] = list[i]
        BY <3>2, <3>4
      <4> HIDE DEF more
      <4>1. \A i \in DOMAIN more :
              (i \in DOMAIN list /\ more[i] = list[i]) \/ (i = Len(list) + 1 /\ more[i] = batch[k])
        BY <3>4, <4>0
      <4> QED BY <1>4, <3>3, <3>4, <4>1 DEF Http!IsInjective
    <3> QED BY <2>2, <3>1, <3>2, <3>4, <3>5, HttpConstants
  <2> QED BY <2>1, <2>2
<1> HIDE DEF n, Add
<1>5. step \in [1..n -> [Seq(U) -> Seq(U)]]
  BY <1>3
<1>6. \A list \in Seq(U), k \in 1..n : step[k][list] = Add(list, k)
  OBVIOUS
<1> HIDE DEF step
<1>7. PICK g : Builds(g, n, step) /\ g \in [0..n -> Seq(U)]
  <2>1. <<>> \in Seq(U)
    OBVIOUS
  <2> QED BY <1>2, <1>5, <2>1, ListIsBuilt
<1>8. Loop(g)
  <2>1. \A k \in 0..n : g[k] = IF k = 0 THEN <<>> ELSE step[k][g[k - 1]]
    BY <1>7 DEF Builds
  <2>2. \A k \in 0..n : k # 0 => k \in 1..n /\ k - 1 \in 0..n
    BY <1>2
  <2>3. \A k \in 0..n : g[k] = IF k = 0 THEN <<>> ELSE Add(g[k - 1], k)
    BY <1>6, <1>7, <2>1, <2>2
  <2>4. g = [k \in 0..n |-> g[k]]
    BY <1>7
  <2> QED BY <2>3, <2>4
<1>9. PICK f : Loop(f) /\ Http!Normalized(batch) = f[n]
  BY <1>1, <1>8
<1>10. f[0] = <<>> /\ \A k \in 1..n : f[k] = Add(f[k - 1], k)
  BY <1>2, <1>9
<1> DEFINE P == {k \in 0..n : f[k] \in Seq(U) /\ Http!IsInjective(f[k]) /\ Len(f[k]) <= MaxEndpoints}
<1>11. 0 \in P
  <2>1. <<>> \in Seq(U) /\ Len(<<>>) = 0 /\ DOMAIN <<>> = {}
    BY EmptySeq
  <2>2. Http!IsInjective(<<>>)
    BY <2>1 DEF Http!IsInjective
  <2>3. 0 \in 0..n /\ 0 <= MaxEndpoints
    BY <1>2, HttpConstants
  <2> QED BY <1>10, <2>1, <2>2, <2>3
<1>12. \A k \in 1..n : k - 1 \in P => k \in P
  BY <1>2, <1>3, <1>4, <1>10
<1>13. n \in P
  <2> HIDE DEF P
  <2> QED BY <1>2, <1>11, <1>12, Counting
<1> QED BY <1>9, <1>13

\* What is gathered of the first k reports.
GatheredOf(list, reports, k) ==
  /\ \A i \in 1..Len(list) : \E j \in 1..k : list[i] = reports[j] /\ Http!Filled(reports[j])
  /\ \A i, j \in 1..Len(list) : list[i].url = list[j].url => i = j
  /\ (\A j \in 1..k : Http!Filled(reports[j])) =>
       Len(list) = k /\ \A i \in 1..k : list[i] = reports[i]

LEMMA GatherOne ==
  ASSUME NEW R, NEW list \in Seq(R), NEW reports \in Seq(R), NEW k \in 1..Len(reports),
         GatheredOf(list, reports, k - 1),
         \A i, j \in 1..Len(reports) :
           Http!Filled(reports[i]) /\ Http!Filled(reports[j]) /\ reports[i].url = reports[j].url => i = j
  PROVE GatheredOf(Http!Accept(list, reports[k], Http!Filled(reports[k])), reports, k)
<1>0. Len(list) \in Nat /\ Len(reports) \in Nat /\ \A j \in 1..(k - 1) : j \in 1..k /\ j \in 1..Len(reports) /\ j # k
  OBVIOUS
<1>1. CASE ~Http!Filled(reports[k])
  <2>1. Http!Accept(list, reports[k], Http!Filled(reports[k])) = list
    BY <1>1 DEF Http!Accept
  <2>2. \E j \in 1..k : ~Http!Filled(reports[j])
    BY <1>1
  <2> QED BY <1>0, <2>1, <2>2 DEF GatheredOf
<1>2. CASE Http!Filled(reports[k])
  <2> DEFINE more == Append(list, reports[k])
  <2>1. Http!Accept(list, reports[k], Http!Filled(reports[k])) = more
    BY <1>2 DEF Http!Accept
  <2>2. Len(more) = Len(list) + 1 /\ more[Len(list) + 1] = reports[k] /\ \A i \in 1..Len(list) : more[i] = list[i]
    BY AppendProperties
  <2> HIDE DEF more
  <2>3. \A i \in 1..Len(more) : i \in 1..Len(list) \/ i = Len(list) + 1
    BY <1>0, <2>2
  <2>4. \A i \in 1..Len(more) : \E j \in 1..k : more[i] = reports[j] /\ Http!Filled(reports[j])
    <3>1. \A i \in 1..Len(list) : \E j \in 1..k : list[i] = reports[j] /\ Http!Filled(reports[j])
      BY <1>0 DEF GatheredOf
    <3>2. k \in 1..k
      OBVIOUS
    <3> TAKE i \in 1..Len(more)
    <3>3. CASE i \in 1..Len(list)
      BY <2>2, <3>1, <3>3
    <3>4. CASE i = Len(list) + 1
      BY <1>2, <2>2, <3>2, <3>4
    <3> QED BY <2>3, <3>3, <3>4
  <2>5. \A i \in 1..Len(list) : list[i].url # reports[k].url
    BY <1>0, <1>2 DEF GatheredOf
  <2>6. \A i, j \in 1..Len(more) : more[i].url = more[j].url => i = j
    BY <2>2, <2>3, <2>5 DEF GatheredOf
  <2>7. ASSUME \A j \in 1..k : Http!Filled(reports[j])
        PROVE Len(more) = k /\ \A i \in 1..k : more[i] = reports[i]
    <3>1. Len(list) = k - 1 /\ \A i \in 1..(k - 1) : list[i] = reports[i]
      BY <1>0, <2>7 DEF GatheredOf
    <3>2. \A i \in 1..k : i \in 1..(k - 1) \/ i = k
      OBVIOUS
    <3> QED BY <2>2, <3>1, <3>2
  <2> QED BY <2>1, <2>4, <2>6, <2>7 DEF GatheredOf
<1> QED BY <1>1, <1>2

\* The reports that are filled, and all of them when all are.
LEMMA GatheredReports ==
  ASSUME NEW R, NEW reports \in Seq(R),
         \A i, j \in 1..Len(reports) :
           Http!Filled(reports[i]) /\ Http!Filled(reports[j]) /\ reports[i].url = reports[j].url => i = j
  PROVE /\ Http!Gathered(reports) \in Seq(R)
        /\ GatheredOf(Http!Gathered(reports), reports, Len(reports))
<1> DEFINE n == Len(reports)
           Add(list, k) == Http!Accept(list, reports[k], Http!Filled(reports[k]))
           Loop(f) == f = [k \in 0..n |-> IF k = 0 THEN <<>> ELSE Add(f[k - 1], k)]
           step == [k \in 1..n |-> [list \in Seq(R) |-> Add(list, k)]]
<1>1. Http!Gathered(reports) = (CHOOSE f : Loop(f))[n]
  BY Zenon DEF Http!Gathered
<1>2. n \in Nat /\ \A k \in 1..n : reports[k] \in R
  OBVIOUS
<1>3. \A list \in Seq(R), k \in 1..n : Add(list, k) \in Seq(R)
  BY <1>2, AppendProperties DEF Http!Accept
<1>4. ASSUME NEW list \in Seq(R), NEW k \in 1..n, GatheredOf(list, reports, k - 1)
      PROVE GatheredOf(Add(list, k), reports, k)
  BY <1>4, GatherOne
<1> HIDE DEF n, Add
<1>5. step \in [1..n -> [Seq(R) -> Seq(R)]]
  BY <1>3
<1>6. \A list \in Seq(R), k \in 1..n : step[k][list] = Add(list, k)
  OBVIOUS
<1> HIDE DEF step
<1>7. PICK g : Builds(g, n, step) /\ g \in [0..n -> Seq(R)]
  <2>1. <<>> \in Seq(R)
    OBVIOUS
  <2> QED BY <1>2, <1>5, <2>1, ListIsBuilt
<1>8. Loop(g)
  <2>1. \A k \in 0..n : g[k] = IF k = 0 THEN <<>> ELSE step[k][g[k - 1]]
    BY <1>7 DEF Builds
  <2>2. \A k \in 0..n : k # 0 => k \in 1..n /\ k - 1 \in 0..n
    BY <1>2
  <2>3. \A k \in 0..n : g[k] = IF k = 0 THEN <<>> ELSE Add(g[k - 1], k)
    BY <1>6, <1>7, <2>1, <2>2
  <2>4. g = [k \in 0..n |-> g[k]]
    BY <1>7
  <2> QED BY <2>3, <2>4
<1>9. PICK f : Loop(f) /\ Http!Gathered(reports) = f[n]
  BY <1>1, <1>8
<1>10. f[0] = <<>> /\ \A k \in 1..n : f[k] = Add(f[k - 1], k)
  BY <1>2, <1>9
<1> DEFINE P == {k \in 0..n : f[k] \in Seq(R) /\ GatheredOf(f[k], reports, k)}
<1>11. 0 \in P
  <2>1. <<>> \in Seq(R) /\ Len(<<>>) = 0
    BY EmptySeq
  <2>2. GatheredOf(<<>>, reports, 0)
    BY <2>1 DEF GatheredOf
  <2>3. 0 \in 0..n
    BY <1>2
  <2> QED BY <1>10, <2>1, <2>2, <2>3
<1>12. \A k \in 1..n : k - 1 \in P => k \in P
  BY <1>2, <1>3, <1>4, <1>10
<1>13. n \in P
  <2> HIDE DEF P
  <2> QED BY <1>2, <1>11, <1>12, Counting
<1> QED BY <1>9, <1>13 DEF n

-----------------------------------------------------------------------------
(* The dialogs, and the invariant of the analyses part by part.             *)

\* The records of the dialogs.
Shown == [reports : Seq(Http!Reports), selected : Nat, pane : Http!AllUrls \cup {"none"}]

\* What a dialog may show: a coherent list of honest reports.
GoodList(shown) ==
  /\ shown \in Shown /\ Http!Coherent(shown)
  /\ \A i \in DOMAIN shown.reports : Http!Honest(shown.reports[i])

\* A list that names no URL twice.
LEMMA ListedOnce ==
  ASSUME NEW R, NEW list \in Seq(R)
  PROVE Http!IsInjective(Http!Listed(list)) <=> \A i, j \in 1..Len(list) : list[i].url = list[j].url => i = j
<1>1. DOMAIN Http!Listed(list) = 1..Len(list) /\ \A i \in 1..Len(list) : Http!Listed(list)[i] = list[i].url
  BY DEF Http!Listed
<1> QED BY <1>1 DEF Http!IsInjective

LEMMA ResultIsListed ==
  ASSUME NEW shown, GoodList(shown), NEW report \in Http!Reports, Http!Honest(report)
  PROVE GoodList(Http!WithResult(shown, report))
<1> DEFINE old == shown.reports
           known == {i \in DOMAIN old : old[i].url = report.url}
           place == IF known = {} THEN Len(old) + 1 ELSE CHOOSE i \in known : \A j \in known : i <= j
           list == IF known = {} THEN Append(old, report) ELSE [old EXCEPT ![place] = report]
           listed == [shown EXCEPT !.reports = list]
           result == Http!WithResult(shown, report)
<1>1. result = IF shown.selected > 0 THEN listed ELSE [listed EXCEPT !.selected = place, !.pane = report.url]
  BY DEF Http!WithResult
<1>2. /\ shown \in Shown /\ old \in Seq(Http!Reports) /\ shown.selected \in Nat /\ Len(old) \in Nat
      /\ DOMAIN old = 1..Len(old) /\ \A i \in 1..Len(old) : Http!Honest(old[i])
      /\ report.url \in Http!AllUrls
  BY DEF GoodList, Shown, Http!Honest
<1>3. \A i, j \in 1..Len(old) : old[i].url = old[j].url => i = j
  BY <1>2, ListedOnce DEF GoodList, Http!Coherent
<1>4. \/ old = <<>> /\ shown.selected = 0
      \/ old # <<>> /\ shown.selected \in 1..Len(old) /\ shown.pane = old[shown.selected].url
  BY <1>2 DEF GoodList, Http!Coherent
<1>5. /\ list \in Seq(Http!Reports) /\ list # <<>> /\ place \in 1..Len(list) /\ list[place] = report
      /\ Len(list) \in Nat /\ Len(list) >= Len(old) /\ DOMAIN list = 1..Len(list)
      /\ \A i \in 1..Len(list) : i # place => i \in 1..Len(old) /\ list[i] = old[i] /\ old[i].url # report.url
      /\ \A i \in 1..Len(old) : list[i].url = old[i].url
  <2>1. CASE known = {}
    <3>1. place = Len(old) + 1 /\ list = Append(old, report)
      BY <2>1
    <3>2. /\ list \in Seq(Http!Reports) /\ Len(list) = Len(old) + 1 /\ list[Len(old) + 1] = report
          /\ \A i \in 1..Len(old) : list[i] = old[i]
      BY <1>2, <3>1, AppendProperties
    <3>3. \A i \in 1..Len(old) : old[i].url # report.url
      BY <1>2, <2>1
    <3> HIDE DEF list, place, old
    <3> QED BY <1>2, <3>1, <3>2, <3>3
  <2>2. CASE known # {}
    <3>1. PICK k \in known : \A j \in known : k <= j
      <4>1. known \in SUBSET Nat
        BY <1>2
      <4> HIDE DEF known
      <4> QED BY <2>2, <4>1, Smallest
    <3>2. place \in known
      BY <2>2, <3>1
    <3>3. place \in 1..Len(old) /\ old[place].url = report.url /\ list = [old EXCEPT ![place] = report]
      BY <1>2, <2>2, <3>2
    <3> HIDE DEF list, place, known
    <3>4. list \in Seq(Http!Reports) /\ Len(list) = Len(old) /\ list[place] = report
          /\ \A i \in 1..Len(old) : i # place => list[i] = old[i]
      BY <1>2, <3>3
    <3>5. \A i \in 1..Len(old) : i # place => old[i].url # report.url
      BY <1>3, <3>3
    <3> HIDE DEF old
    <3> QED BY <1>2, <3>3, <3>4, <3>5
  <2> QED BY <2>1, <2>2
<1> HIDE DEF list, place
<1>6. Http!IsInjective(Http!Listed(list))
  <2>1. \A i, j \in 1..Len(list) : list[i].url = list[j].url => i = j
    BY <1>3, <1>5
  <2> QED BY <1>5, <2>1, ListedOnce
<1>7. \A i \in 1..Len(list) : Http!Honest(list[i])
  BY <1>2, <1>5
<1>8. CASE shown.selected > 0
  <2>1. result = listed
    BY <1>1, <1>8
  <2>2. result \in Shown /\ result.reports = list /\ result.selected = shown.selected /\ result.pane = shown.pane
    BY <1>2, <1>5, <2>1 DEF Shown
  <2>3. shown.selected \in 1..Len(list) /\ shown.pane = list[shown.selected].url
    BY <1>2, <1>4, <1>5, <1>8
  <2> HIDE DEF result, old
  <2> QED BY <1>5, <1>6, <1>7, <2>2, <2>3 DEF GoodList, Http!Coherent, result
<1>9. CASE ~(shown.selected > 0)
  <2>1. result = [listed EXCEPT !.selected = place, !.pane = report.url]
    BY <1>1, <1>9
  <2>2. result \in Shown /\ result.reports = list /\ result.selected = place /\ result.pane = report.url
    <3>1. listed \in Shown /\ listed.reports = list
      BY <1>2, <1>5 DEF Shown
    <3>2. place \in Nat
      BY <1>5
    <3> HIDE DEF listed, result
    <3> QED BY <1>2, <2>1, <3>1, <3>2 DEF Shown
  <2> HIDE DEF result, old
  <2> QED BY <1>5, <1>6, <1>7, <2>2 DEF GoodList, Http!Coherent, result
<1> QED BY <1>8, <1>9

LEMMA BatchIsListed ==
  ASSUME NEW shown, GoodList(shown), NEW reports \in Seq(Http!Reports),
         Http!IsInjective(Http!Listed(reports)), \A k \in DOMAIN reports : Http!Honest(reports[k])
  PROVE GoodList(Http!WithBatch(shown, reports))
<1>1. CASE reports = <<>>
  BY <1>1 DEF Http!WithBatch
<1>2. CASE reports # <<>>
  <2> DEFINE result == Http!WithBatch(shown, reports)
  <2>1. 1 \in DOMAIN reports /\ reports[1] \in Http!Reports /\ reports[1].url \in Http!AllUrls
    BY <1>2, EmptySeq DEF Http!Honest
  <2>2. result \in Shown /\ result.reports = reports /\ result.selected = 1 /\ result.pane = reports[1].url
    BY <1>2, <2>1 DEF Http!WithBatch, Shown
  <2> HIDE DEF result
  <2> QED BY <1>2, <2>1, <2>2 DEF GoodList, Http!Coherent, result
<1> QED BY <1>1, <1>2

\* The records of the analyses.
Analyses ==
  [at : {"off", "begin", "loop", "place", "join", "back"}, cancelled : BOOLEAN,
   dialog : Nat, targets : Seq(Http!AllUrls), next : Nat,
   worker : Seq({"idle", "analyze", "result", "done"}), reports : Seq(Http!Reports)]

\* What the invariants say of one analysis and of one event.
Follows(r) ==
  /\ analysis[r].at \in {"off", "begin"} => analysis[r].worker = <<>> /\ analysis[r].next = 1
  /\ analysis[r].at \notin {"off", "begin"} => Http!Prepared(analysis[r])
  /\ analysis[r].at = "place" => analysis[r].next <= Len(analysis[r].targets)
  /\ analysis[r].at \in {"join", "back"} /\ ~analysis[r].cancelled => analysis[r].next = Len(analysis[r].targets) + 1
  /\ analysis[r].at = "back" => Http!Busy(r) = {}
  /\ Http!Cardinality(Http!Busy(r)) <= FetchesAtOnce

\* An analysis under way whose context nobody cancelled.
Usable(r) == analysis[r].at \in {"loop", "place", "join"} /\ ~analysis[r].cancelled

PostedWell(e) ==
  /\ analysis[e.run].at # "off"
  /\ e.what = "result" => Http!Honest(e.report)
  /\ e.what = "batch" => /\ analysis[e.run].at = "back" /\ Http!IsInjective(Http!Listed(e.reports))
                         /\ \A k \in DOMAIN e.reports : Http!Honest(e.reports[k])
  /\ e.what = "batch" /\ ~analysis[e.run].cancelled => Http!Listed(e.reports) = analysis[e.run].targets

\* A step leaves analysis r as it is, or cancels it.
Kept(r) ==
  /\ analysis'[r].at = analysis[r].at /\ analysis'[r].dialog = analysis[r].dialog
  /\ analysis'[r].targets = analysis[r].targets /\ analysis'[r].next = analysis[r].next
  /\ analysis'[r].worker = analysis[r].worker /\ analysis'[r].reports = analysis[r].reports
  /\ analysis[r].cancelled => analysis'[r].cancelled

\* The invariant in these terms.
HttpInv ==
  /\ analysis \in [Http!Runs -> Analyses] /\ httpSlot \in Http!Runs \cup {0}
  /\ opened \in 0..MaxDialogs /\ results \in Seq(Http!Events) /\ dialog \in [Http!Dialogs -> Shown]
  /\ Http!RunsInOrder
  /\ \A r \in Http!Runs : Follows(r)
  /\ \A r \in Http!Runs : Usable(r) => httpSlot = r
  /\ \A i \in DOMAIN results : PostedWell(results[i])
  /\ \A d \in Http!Dialogs : GoodList(dialog[d])

LEMMA HttpParts == Http!IInv <=> HttpInv
<1>1. Http!TypeOK <=> /\ analysis \in [Http!Runs -> Analyses] /\ httpSlot \in Http!Runs \cup {0}
                      /\ opened \in 0..MaxDialogs /\ results \in Seq(Http!Events) /\ dialog \in [Http!Dialogs -> Shown]
  BY Zenon DEF Http!TypeOK, Analyses, Shown
<1>2. Http!ReportsFollow /\ Http!OneIsLive <=>
        /\ \A r \in Http!Runs : Follows(r)
        /\ \A r \in Http!Runs : Usable(r) => httpSlot = r
  BY DEF Http!ReportsFollow, Http!OneIsLive, Follows, Usable
<1>3. Http!PostedAreHonest /\ Http!BatchIsWhole <=> \A i \in DOMAIN results : PostedWell(results[i])
  BY DEF Http!PostedAreHonest, Http!BatchIsWhole, PostedWell
<1>4. dialog \in [Http!Dialogs -> Shown] =>
        (Http!ListIsCoherent /\ Http!ShownAreHonest <=> \A d \in Http!Dialogs : GoodList(dialog[d]))
  BY DEF Http!ListIsCoherent, Http!ShownAreHonest, GoodList
<1> QED BY <1>1, <1>2, <1>3, <1>4 DEF Http!IInv, HttpInv

\* The numbers of an analysis, and its workers at work.
LEMMA AnalysisFields ==
  ASSUME NEW r \in Http!Runs, analysis \in [Http!Runs -> Analyses]
  PROVE /\ analysis[r] \in Analyses /\ analysis[r].targets \in Seq(Http!AllUrls) /\ Len(analysis[r].targets) \in Nat
        /\ DOMAIN analysis[r].targets = 1..Len(analysis[r].targets) /\ analysis[r].next \in Nat
        /\ analysis[r].reports \in Seq(Http!Reports) /\ Len(analysis[r].reports) \in Nat
        /\ DOMAIN analysis[r].reports = 1..Len(analysis[r].reports)
        /\ analysis[r].worker \in Seq({"idle", "analyze", "result", "done"}) /\ Len(analysis[r].worker) \in Nat
        /\ DOMAIN analysis[r].worker = 1..Len(analysis[r].worker)
        /\ IsFiniteSet(Http!Busy(r)) /\ Http!Cardinality(Http!Busy(r)) \in Nat
<1>1. /\ analysis[r] \in Analyses /\ analysis[r].targets \in Seq(Http!AllUrls) /\ Len(analysis[r].targets) \in Nat
      /\ DOMAIN analysis[r].targets = 1..Len(analysis[r].targets) /\ analysis[r].next \in Nat
      /\ analysis[r].reports \in Seq(Http!Reports) /\ Len(analysis[r].reports) \in Nat
      /\ DOMAIN analysis[r].reports = 1..Len(analysis[r].reports)
      /\ analysis[r].worker \in Seq({"idle", "analyze", "result", "done"}) /\ Len(analysis[r].worker) \in Nat
      /\ DOMAIN analysis[r].worker = 1..Len(analysis[r].worker)
  BY DEF Analyses
<1>2. Http!Busy(r) \subseteq 1..Len(analysis[r].worker)
  BY <1>1 DEF Http!Busy
<1>3. IsFiniteSet(Http!Busy(r))
  <2>1. IsFiniteSet(1..Len(analysis[r].worker))
    BY <1>1, FS_Interval
  <2> QED BY <1>2, <2>1, FS_Subset
<1> QED BY <1>1, <1>3, FS_CardinalityType, HttpSets

\* The analyses started so far are the first ones.
LEMMA StartedRuns ==
  ASSUME Http!RunsInOrder
  PROVE /\ Http!Started \in 0..MaxAnalyses
        /\ {r \in Http!Runs : analysis[r].at # "off"} = 1..Http!Started
<1> DEFINE S == {r \in Http!Runs : analysis[r].at # "off"}
<1>1. IsFiniteSet(Http!Runs) /\ Cardinality(Http!Runs) = MaxAnalyses
  BY FS_Interval, HttpConstants DEF Http!Runs
<1>2. S \subseteq Http!Runs
  OBVIOUS
<1>3. IsFiniteSet(S) /\ Cardinality(S) \in Nat /\ Cardinality(S) <= MaxAnalyses
  <2> HIDE DEF S
  <2> QED BY <1>1, <1>2, FS_Subset, FS_CardinalityType
<1>4. Http!Started = Cardinality(S)
  BY HttpSets DEF Http!Started
<1>5. \A r \in Http!Runs : r \in S <=> r <= Http!Started
  BY DEF Http!RunsInOrder
<1> HIDE DEF S
<1>6. S = 1..Http!Started
  <2>1. Http!Started \in Nat /\ Http!Started <= MaxAnalyses /\ MaxAnalyses \in Nat
    BY <1>3, <1>4, HttpConstants
  <2>2. 1..Http!Started \subseteq Http!Runs
    BY <2>1 DEF Http!Runs
  <2>3. \A r \in Http!Runs : r \in Nat /\ r >= 1
    BY DEF Http!Runs
  <2>4. ASSUME NEW r \in S PROVE r \in 1..Http!Started
    BY <1>2, <1>5, <2>1, <2>3
  <2>5. ASSUME NEW r \in 1..Http!Started PROVE r \in S
    BY <1>5, <2>1, <2>2
  <2> QED BY <2>4, <2>5
<1> QED BY <1>3, <1>4, <1>6, HttpConstants DEF S

LEMMA KeptFollows ==
  ASSUME NEW r \in Http!Runs, Follows(r), Kept(r), analysis \in [Http!Runs -> Analyses], analysis' \in [Http!Runs -> Analyses]
  PROVE Follows(r)'
<1>1. Http!Busy(r)' = Http!Busy(r)
  BY DEF Kept, Http!Busy
<1>2. Http!Prepared(analysis[r]) => Http!Prepared(analysis'[r])
  BY DEF Kept, Http!Prepared
<1>3. Http!Cardinality(Http!Busy(r))' = Http!Cardinality(Http!Busy(r))
  BY <1>1
<1>4. analysis[r].cancelled \in BOOLEAN /\ analysis'[r].cancelled \in BOOLEAN
  BY DEF Analyses
<1> QED BY <1>1, <1>2, <1>3, <1>4 DEF Kept, Follows

LEMMA EventKept ==
  ASSUME NEW e, PostedWell(e), analysis'[e.run].at # "off", analysis[e.run].at = "back" => Kept(e.run)
  PROVE PostedWell(e)'
BY DEF PostedWell, Kept

-----------------------------------------------------------------------------
(* The analysis of endpoints, step by step.                                 *)

LEMMA HttpInit == Http!Init => HttpInv
<1> SUFFICES ASSUME Http!Init PROVE HttpInv
  OBVIOUS
<1>1. /\ analysis = [r \in Http!Runs |-> Http!Off] /\ httpSlot = 0 /\ opened = 0 /\ results = <<>>
      /\ dialog = [d \in Http!Dialogs |-> [reports |-> <<>>, selected |-> 0, pane |-> "none"]]
  BY Zenon DEF Http!Init
<1>2. Http!Off \in Analyses /\ Http!Off.at = "off" /\ Http!Off.worker = <<>> /\ Http!Off.next = 1
  BY EmptySeq DEF Http!Off, Analyses
<1>3. analysis \in [Http!Runs -> Analyses]
  BY <1>1, <1>2
<1>4. \A r \in Http!Runs : analysis[r] = Http!Off
  BY <1>1
<1>5. Http!RunsInOrder
  <2>1. {r \in Http!Runs : analysis[r].at # "off"} = {}
    BY <1>2, <1>4
  <2>2. Http!Started = 0
    BY <2>1, FS_EmptySet, HttpSets DEF Http!Started
  <2>3. \A r \in Http!Runs : ~(r <= 0)
    BY DEF Http!Runs
  <2> QED BY <1>2, <1>4, <2>2, <2>3 DEF Http!RunsInOrder
<1>6. \A r \in Http!Runs : Follows(r) /\ ~Usable(r)
  <2> TAKE r \in Http!Runs
  <2>1. Http!Busy(r) = {}
    BY <1>2, <1>4 DEF Http!Busy
  <2>2. Http!Cardinality(Http!Busy(r)) <= FetchesAtOnce
    BY <2>1, FS_EmptySet, HttpSets, HttpConstants
  <2> QED BY <1>2, <1>4, <2>1, <2>2 DEF Follows, Usable
<1>7. \A d \in Http!Dialogs : GoodList(dialog[d])
  <2> DEFINE new == [reports |-> <<>>, selected |-> 0, pane |-> "none"]
  <2>1. new \in Shown
    BY EmptySeq DEF Shown
  <2>2. Http!Coherent(new)
    BY DEF Http!Coherent, Http!IsInjective, Http!Listed
  <2> QED BY <1>1, <2>1, <2>2 DEF GoodList
<1>8. dialog \in [Http!Dialogs -> Shown]
  <2>1. dialog = [d \in Http!Dialogs |-> dialog[d]]
    BY <1>1
  <2> QED BY <1>7, <2>1 DEF GoodList
<1>9. results \in Seq(Http!Events) /\ DOMAIN results = {}
  BY <1>1, EmptySeq
<1>10. httpSlot \in Http!Runs \cup {0} /\ opened \in 0..MaxDialogs
  BY <1>1, HttpConstants
<1> QED BY <1>3, <1>5, <1>6, <1>7, <1>8, <1>9, <1>10 DEF HttpInv

\* A step of the analysis r, and of no other.
LEMMA RunStep ==
  ASSUME HttpInv, analysis' \in [Http!Runs -> Analyses], httpSlot' \in Http!Runs \cup {0},
         NEW r \in Http!Runs, \A q \in Http!Runs \ {r} : Kept(q),
         \/ Kept(r)
         \/ /\ analysis[r].at \notin {"off", "back"} /\ analysis'[r].at # "off"
            /\ analysis'[r].dialog = analysis[r].dialog /\ Follows(r)',
         \A q \in Http!Runs : Usable(q)' => httpSlot' = q,
         \/ results' = results
         \/ \E e \in Http!Events : results' = Append(results, e) /\ PostedWell(e)',
         UNCHANGED <<dialog, opened>>
  PROVE HttpInv'
<1>1. /\ analysis \in [Http!Runs -> Analyses] /\ httpSlot \in Http!Runs \cup {0}
      /\ opened \in 0..MaxDialogs /\ results \in Seq(Http!Events) /\ dialog \in [Http!Dialogs -> Shown]
      /\ Http!RunsInOrder
      /\ \A q \in Http!Runs : Follows(q)
      /\ \A i \in DOMAIN results : PostedWell(results[i])
      /\ \A d \in Http!Dialogs : GoodList(dialog[d])
  BY DEF HttpInv
<1>2. \A q \in Http!Runs : /\ analysis'[q].at # "off" <=> analysis[q].at # "off"
                           /\ analysis'[q].dialog = analysis[q].dialog
                           /\ analysis[q].at \in {"off", "back"} => Kept(q)
  BY DEF Kept
<1>3. \A q \in Http!Runs : Follows(q)'
  BY <1>1, KeptFollows
<1>4. Http!RunsInOrder'
  <2>1. {q \in Http!Runs : analysis'[q].at # "off"} = {q \in Http!Runs : analysis[q].at # "off"}
    BY <1>2
  <2>2. Http!Started' = Http!Started
    BY <2>1 DEF Http!Started
  <2> QED BY <1>1, <1>2, <2>2 DEF Http!RunsInOrder
<1>5. results' \in Seq(Http!Events) /\ (\A i \in DOMAIN results : PostedWell(results[i]))'
  <2>1. \A e \in Http!Events : PostedWell(e) => PostedWell(e)'
    <3> TAKE e \in Http!Events
    <3>1. e.run \in Http!Runs
      BY DEF Http!Events
    <3> QED BY <1>2, <3>1 DEF PostedWell, Kept
  <2>2. CASE results' = results
    <3>1. \A i \in DOMAIN results : results[i] \in Http!Events
      BY <1>1
    <3> QED BY <1>1, <2>1, <2>2, <3>1 DEF PostedWell
  <2>3. CASE \E e \in Http!Events : results' = Append(results, e) /\ PostedWell(e)'
    <3>1. PICK e \in Http!Events : results' = Append(results, e) /\ PostedWell(e)'
      BY <2>3
    <3>2. results' \in Seq(Http!Events) /\ Len(results') = Len(results) + 1
          /\ results'[Len(results) + 1] = e /\ \A i \in 1..Len(results) : results'[i] = results[i]
      BY <1>1, <3>1, AppendProperties
    <3>3. Len(results) \in Nat /\ DOMAIN results = 1..Len(results) /\ DOMAIN results' = 1..(Len(results) + 1)
          /\ \A i \in DOMAIN results : results[i] \in Http!Events
      BY <1>1, <3>2
    <3>4. \A i \in DOMAIN results' : i \in DOMAIN results \/ i = Len(results) + 1
      BY <3>3
    <3>5. \A i \in DOMAIN results : (PostedWell(results[i]) => \E x \in Http!Events : results'[i] = x /\ PostedWell(x)')
      BY <2>1, <3>2, <3>3
    <3>6. \A i \in DOMAIN results' : \E x \in Http!Events : results'[i] = x /\ PostedWell(x)'
      BY <1>1, <3>1, <3>2, <3>4, <3>5
    <3> QED BY <3>2, <3>6 DEF PostedWell
  <2> QED BY <2>2, <2>3
<1>6. /\ analysis' \in [Http!Runs -> Analyses] /\ httpSlot' \in Http!Runs \cup {0}
      /\ opened' \in 0..MaxDialogs /\ dialog' \in [Http!Dialogs -> Shown]
      /\ (\A d \in Http!Dialogs : GoodList(dialog[d]))'
  BY <1>1
<1> QED BY <1>3, <1>4, <1>5, <1>6 DEF HttpInv

\* A new analysis is the next one, and its dialog's list is empty.
LEMMA HttpStarts ==
  ASSUME HttpInv, NEW d \in 1..opened', opened' \in opened..MaxDialogs, NEW batch \in Seq(Http!AllUrls),
         Http!StartIn(d, dialog[d], batch), UNCHANGED <<httpSlot, results>>
  PROVE HttpInv'
<1> DEFINE s == Http!Started + 1
           new == [at |-> "begin", cancelled |-> FALSE, dialog |-> d, targets |-> batch, next |-> 1,
                   worker |-> <<>>, reports |-> <<>>]
           emptied == [dialog[d] EXCEPT !.reports = <<>>, !.selected = 0]
<1>1. /\ analysis \in [Http!Runs -> Analyses] /\ httpSlot \in Http!Runs \cup {0}
      /\ opened \in 0..MaxDialogs /\ results \in Seq(Http!Events) /\ dialog \in [Http!Dialogs -> Shown]
      /\ Http!RunsInOrder
      /\ \A r \in Http!Runs : Follows(r)
      /\ \A r \in Http!Runs : Usable(r) => httpSlot = r
      /\ \A i \in DOMAIN results : PostedWell(results[i])
      /\ \A e \in Http!Dialogs : GoodList(dialog[e])
  BY DEF HttpInv
<1>2. Http!Started < MaxAnalyses /\ analysis' = [analysis EXCEPT ![s] = new]
      /\ dialog' = [dialog EXCEPT ![d] = emptied]
  BY Zenon DEF Http!StartIn
<1>3. s \in Http!Runs /\ Http!Started \in Nat /\ s = Http!Started + 1
  BY <1>1, <1>2, StartedRuns, HttpConstants DEF Http!Runs
<1>4. analysis[s].at = "off"
  BY <1>1, <1>3 DEF Http!RunsInOrder
<1>5. new \in Analyses /\ new.at = "begin" /\ new.worker = <<>> /\ new.dialog = d /\ new.next = 1
  <2>1. <<>> \in Seq({"idle", "analyze", "result", "done"}) /\ <<>> \in Seq(Http!Reports)
    BY EmptySeq
  <2>2. d \in Nat
    BY <1>1, HttpConstants
  <2> QED BY <2>1, <2>2 DEF Analyses
<1>6. d \in Http!Dialogs /\ opened' \in 0..MaxDialogs
  BY <1>1, HttpConstants DEF Http!Dialogs
<1>7. emptied \in Shown /\ emptied.reports = <<>> /\ emptied.selected = 0
  <2>1. dialog[d] \in Shown /\ <<>> \in Seq(Http!Reports)
    BY <1>1, <1>6, EmptySeq
  <2> QED BY <2>1 DEF Shown
<1> HIDE DEF s, new, emptied
<1>8. analysis' \in [Http!Runs -> Analyses] /\ analysis'[s] = new
      /\ \A r \in Http!Runs : r # s => analysis'[r] = analysis[r]
  BY <1>1, <1>2, <1>3, <1>5
<1>9. Http!RunsInOrder'
  <2> DEFINE S == {r \in Http!Runs : analysis[r].at # "off"}
             T == {r \in Http!Runs : analysis'[r].at # "off"}
  <2>1. T = S \cup {s} /\ s \notin S
    BY <1>3, <1>4, <1>5, <1>8
  <2>2. S = 1..Http!Started
    BY <1>1, StartedRuns
  <2>3. IsFiniteSet(S) /\ Cardinality(S) = Http!Started
    <3>1. IsFiniteSet(1..Http!Started) /\ Cardinality(1..Http!Started) = Http!Started
      <4>1. \A n \in Nat : IsFiniteSet(1..n) /\ Cardinality(1..n) = n
        <5> TAKE n \in Nat
        <5>1. 1 \in Int /\ n \in Int
          OBVIOUS
        <5>2. IsFiniteSet(1..n) /\ Cardinality(1..n) = IF 1 > n THEN 0 ELSE n - 1 + 1
          BY <5>1, FS_Interval
        <5> QED BY <5>2
      <4> QED BY <1>3, <4>1
    <3> QED BY <2>2, <3>1
  <2> HIDE DEF S, T
  <2>4. Cardinality(T) = s
    BY <1>3, <2>1, <2>3, FS_AddElement
  <2>5. Http!Started' = s
    BY <2>4, HttpSets DEF Http!Started, T
  <2>6. \A r \in Http!Runs : r \in T <=> r <= s
    <3>1. \A r \in Http!Runs : r \in 1..Http!Started <=> r <= Http!Started
      BY <1>3 DEF Http!Runs
    <3>2. \A r \in Http!Runs : r <= s <=> (r <= Http!Started \/ r = s)
      BY <1>3 DEF Http!Runs
    <3> QED BY <2>1, <2>2, <3>1, <3>2
  <2>7. \A r \in Http!Runs : analysis'[r].at # "off" => analysis'[r].dialog \in 1..opened'
    <3>1. \A k \in 1..opened : k \in 1..opened'
      BY <1>1, HttpConstants
    <3> QED BY <1>1, <1>5, <1>8, <3>1 DEF Http!RunsInOrder
  <2> QED BY <2>5, <2>6, <2>7 DEF Http!RunsInOrder, T
<1>10. \A r \in Http!Runs : Follows(r)'
  <2> TAKE r \in Http!Runs
  <2>1. CASE r = s
    <3>1. Http!Busy(r)' = {}
      BY <1>5, <1>8, <2>1 DEF Http!Busy
    <3>2. Http!Cardinality(Http!Busy(r))' <= FetchesAtOnce
      BY <3>1, FS_EmptySet, HttpSets, HttpConstants
    <3> QED BY <1>5, <1>8, <2>1, <3>1, <3>2 DEF Follows
  <2>2. CASE r # s
    BY <1>1, <1>8, <2>2, KeptFollows DEF Kept
  <2> QED BY <2>1, <2>2
<1>11. (\A r \in Http!Runs : Usable(r) => httpSlot = r)'
  BY <1>1, <1>5, <1>8 DEF Usable
<1>12. (\A i \in DOMAIN results : PostedWell(results[i]))'
  <2>1. \A i \in DOMAIN results : results[i] \in Http!Events /\ results[i].run \in Http!Runs
    BY <1>1 DEF Http!Events
  <2>2. \A i \in DOMAIN results : results[i].run # s
    BY <1>1, <1>4 DEF PostedWell
  <2> QED BY <1>1, <1>8, <2>1, <2>2 DEF PostedWell
<1>13. dialog' \in [Http!Dialogs -> Shown] /\ (\A e \in Http!Dialogs : GoodList(dialog[e]))'
  <2>1. GoodList(emptied)
    BY <1>7 DEF GoodList, Http!Coherent, Http!IsInjective, Http!Listed
  <2> QED BY <1>1, <1>2, <1>6, <1>7, <2>1
<1> QED BY <1>1, <1>6, <1>8, <1>9, <1>10, <1>11, <1>12, <1>13 DEF HttpInv

LEMMA HttpOpens ==
  ASSUME HttpInv, Http!OpenDialog PROVE HttpInv'
<1>1. opened \in 0..MaxDialogs
  BY DEF HttpInv
<1>2. opened < MaxDialogs /\ opened' = opened + 1 /\ UNCHANGED <<httpSlot, results>>
      /\ Http!StartIn(opened + 1, dialog[opened + 1], <<Endpoint>>)
  BY Zenon DEF Http!OpenDialog
<1>3. opened + 1 \in 1..opened' /\ opened' \in opened..MaxDialogs /\ <<Endpoint>> \in Seq(Http!AllUrls)
  BY <1>1, <1>2, HttpConstants
<1> QED BY <1>2, <1>3, HttpStarts

LEMMA HttpStartsAgain ==
  ASSUME HttpInv, NEW d \in Http!Dialogs, NEW batch \in EndpointLists, Http!StartAnalysis(d, batch) PROVE HttpInv'
<1>1. opened \in 0..MaxDialogs
  BY DEF HttpInv
<1>2. d <= opened /\ UNCHANGED <<httpSlot, opened, results>> /\ Http!StartIn(d, dialog[d], batch)
  BY Zenon DEF Http!StartAnalysis
<1>3. d \in 1..opened' /\ opened' \in opened..MaxDialogs /\ batch \in Seq(Http!AllUrls)
  BY <1>1, <1>2, HttpConstants DEF Http!Dialogs
<1> QED BY <1>2, <1>3, HttpStarts

\* A step of a dialog only.
LEMMA HttpQuiet ==
  ASSUME HttpInv, UNCHANGED <<analysis, httpSlot, opened>>, results' \in Seq(Http!Events),
         \A i \in DOMAIN results' : \E j \in DOMAIN results : results'[i] = results[j],
         dialog' \in [Http!Dialogs -> Shown], (\A d \in Http!Dialogs : GoodList(dialog[d]))'
  PROVE HttpInv'
<1>1. \A r \in Http!Runs : Kept(r)
  BY DEF Kept
<1>2. analysis \in [Http!Runs -> Analyses] /\ \A r \in Http!Runs : Follows(r)
  BY DEF HttpInv
<1>3. \A r \in Http!Runs : Follows(r)'
  BY <1>1, <1>2, KeptFollows
<1>4. (\A i \in DOMAIN results : PostedWell(results[i]))'
  BY DEF HttpInv, PostedWell
<1>5. Http!RunsInOrder' /\ (\A r \in Http!Runs : Usable(r) => httpSlot = r)'
  BY DEF HttpInv, Http!RunsInOrder, Http!Started, Usable
<1> QED BY <1>3, <1>4, <1>5 DEF HttpInv

\* Another row is selected: its pane goes with it.
LEMMA HttpSelects ==
  ASSUME HttpInv, NEW d \in Http!Dialogs, NEW i, Http!Select(d, i) PROVE HttpInv'
<1> DEFINE chosen == [dialog[d] EXCEPT !.selected = i, !.pane = dialog[d].reports[i].url]
<1>1. i \in DOMAIN dialog[d].reports /\ UNCHANGED <<analysis, httpSlot, opened, results>>
      /\ dialog' = [dialog EXCEPT ![d] = chosen]
  <2>1. i \in DOMAIN dialog[d].reports /\ UNCHANGED <<analysis, httpSlot, opened, results>>
        /\ dialog' = [dialog EXCEPT ![d].selected = i, ![d].pane = dialog[d].reports[i].url]
    BY Zenon DEF Http!Select
  <2>2. dialog \in [Http!Dialogs -> Shown]
    BY DEF HttpInv
  <2> QED BY <2>1, <2>2
<1>2. dialog \in [Http!Dialogs -> Shown] /\ dialog[d] \in Shown /\ GoodList(dialog[d])
      /\ \A e \in Http!Dialogs : GoodList(dialog[e])
  BY DEF HttpInv
<1>3. dialog[d].reports \in Seq(Http!Reports) /\ i \in Nat
      /\ dialog[d].reports[i].url \in Http!AllUrls
  BY <1>1, <1>2 DEF Shown, GoodList, Http!Honest
<1>4. chosen \in Shown /\ chosen.reports = dialog[d].reports /\ chosen.selected = i
      /\ chosen.pane = dialog[d].reports[i].url
  BY <1>2, <1>3 DEF Shown
<1> HIDE DEF chosen
<1>5. GoodList(chosen)
  <2>1. dialog[d].reports # <<>>
    BY <1>1, EmptySeq
  <2> QED BY <1>1, <1>2, <1>4, <2>1 DEF GoodList, Http!Coherent
<1>6. dialog' \in [Http!Dialogs -> Shown] /\ (\A e \in Http!Dialogs : GoodList(dialog[e]))'
  BY <1>1, <1>2, <1>4, <1>5
<1>7. results' \in Seq(Http!Events) /\ \A k \in DOMAIN results' : \E j \in DOMAIN results : results'[k] = results[j]
  BY <1>1 DEF HttpInv
<1> QED BY <1>1, <1>6, <1>7, HttpQuiet

\* What arrives is listed: a result in the newest dialog, a batch in its own.
LEMMA HttpDelivers ==
  ASSUME HttpInv, Http!Deliver PROVE HttpInv'
<1> DEFINE e == Head(results)
<1>1. results # <<>> /\ results' = Tail(results) /\ UNCHANGED <<analysis, httpSlot, opened>>
      /\ dialog' = CASE e.what = "result" -> [dialog EXCEPT ![opened] = Http!WithResult(@, e.report)]
                     [] e.what = "batch" -> [dialog EXCEPT ![analysis[e.run].dialog] = Http!WithBatch(@, e.reports)]
  BY Zenon DEF Http!Deliver
<1>2. /\ analysis \in [Http!Runs -> Analyses] /\ opened \in 0..MaxDialogs /\ results \in Seq(Http!Events)
      /\ dialog \in [Http!Dialogs -> Shown] /\ Http!RunsInOrder
      /\ \A i \in DOMAIN results : PostedWell(results[i])
      /\ \A d \in Http!Dialogs : GoodList(dialog[d])
  BY DEF HttpInv
<1>3. e \in Http!Events /\ PostedWell(e)
  <2>1. Len(results) \in Nat /\ Len(results) # 0 /\ DOMAIN results = 1..Len(results) /\ e = results[1]
    BY <1>1, <1>2, EmptySeq
  <2>2. 1 \in DOMAIN results
    BY <2>1
  <2> QED BY <1>2, <2>1, <2>2
<1>4. results' \in Seq(Http!Events) /\ \A i \in DOMAIN results' : \E j \in DOMAIN results : results'[i] = results[j]
  <2>1. /\ results' \in Seq(Http!Events) /\ Len(results') = Len(results) - 1 /\ Len(results) \in Nat
        /\ \A i \in 1..Len(results') : results'[i] = results[i + 1]
    BY <1>1, <1>2, HeadTailProperties
  <2>2. DOMAIN results' = 1..Len(results') /\ DOMAIN results = 1..Len(results)
    BY <1>2, <2>1
  <2>3. \A i \in 1..Len(results') : i + 1 \in 1..Len(results)
    BY <2>1
  <2> QED BY <2>1, <2>2, <2>3
<1> HIDE DEF e
<1>5. e.run \in Http!Runs /\ analysis[e.run].dialog \in 1..opened
  BY <1>2, <1>3 DEF PostedWell, Http!RunsInOrder, Http!Events
<1>6. opened \in Http!Dialogs /\ analysis[e.run].dialog \in Http!Dialogs
  BY <1>2, <1>5, HttpConstants DEF Http!Dialogs
<1>7. dialog' \in [Http!Dialogs -> Shown] /\ (\A d \in Http!Dialogs : GoodList(dialog[d]))'
  <2>1. CASE e.what = "result"
    <3>1. e.report \in Http!Reports /\ Http!Honest(e.report)
      BY <1>3, <2>1 DEF PostedWell, Http!Events
    <3>2. dialog' = [dialog EXCEPT ![opened] = Http!WithResult(dialog[opened], e.report)]
      BY <1>1, <1>6, <2>1
    <3>3. GoodList(Http!WithResult(dialog[opened], e.report))
      BY <1>2, <1>6, <3>1, ResultIsListed
    <3>4. Http!WithResult(dialog[opened], e.report) \in Shown
      BY <3>3 DEF GoodList
    <3> QED BY <1>2, <1>6, <3>2, <3>3, <3>4
  <2>2. CASE e.what = "batch"
    <3> DEFINE d == analysis[e.run].dialog
    <3>1. e.reports \in Seq(Http!Reports) /\ Http!IsInjective(Http!Listed(e.reports))
          /\ \A k \in DOMAIN e.reports : Http!Honest(e.reports[k])
      BY <1>3, <2>2 DEF PostedWell, Http!Events
    <3>2. dialog' = [dialog EXCEPT ![d] = Http!WithBatch(dialog[d], e.reports)]
      BY <1>1, <1>6, <2>2
    <3>3. GoodList(Http!WithBatch(dialog[d], e.reports))
      BY <1>2, <1>6, <3>1, BatchIsListed
    <3>4. Http!WithBatch(dialog[d], e.reports) \in Shown
      BY <3>3 DEF GoodList
    <3> HIDE DEF d
    <3>5. d \in Http!Dialogs
      BY <1>6 DEF d
    <3> QED BY <1>2, <3>2, <3>3, <3>4, <3>5
  <2>3. e.what = "result" \/ e.what = "batch"
    BY <1>3 DEF Http!Events
  <2> QED BY <2>1, <2>2, <2>3
<1> QED BY <1>1, <1>4, <1>7, HttpQuiet

\* CancelSlot only ever cancels.
LEMMA SlotCancelled ==
  ASSUME HttpInv
  PROVE /\ Http!CancelSlot \in [Http!Runs -> Analyses]
        /\ \A q \in Http!Runs :
             /\ Http!CancelSlot[q].at = analysis[q].at /\ Http!CancelSlot[q].dialog = analysis[q].dialog
             /\ Http!CancelSlot[q].targets = analysis[q].targets /\ Http!CancelSlot[q].next = analysis[q].next
             /\ Http!CancelSlot[q].worker = analysis[q].worker /\ Http!CancelSlot[q].reports = analysis[q].reports
             /\ analysis[q].cancelled => Http!CancelSlot[q].cancelled
             /\ ~Http!CancelSlot[q].cancelled => q # httpSlot /\ ~analysis[q].cancelled
<1>1. analysis \in [Http!Runs -> Analyses] /\ httpSlot \in Http!Runs \cup {0}
  BY DEF HttpInv
<1>2. CASE httpSlot = 0
  <2>1. 0 \notin Http!Runs
    BY DEF Http!Runs
  <2> QED BY <1>1, <1>2, <2>1 DEF Http!CancelSlot
<1>3. CASE httpSlot # 0
  <2>1. Http!CancelSlot = [analysis EXCEPT ![httpSlot].cancelled = TRUE] /\ httpSlot \in Http!Runs
    BY <1>1, <1>3 DEF Http!CancelSlot
  <2> QED BY <1>1, <2>1 DEF Analyses
<1> QED BY <1>2, <1>3

LEMMA HttpCancels ==
  ASSUME HttpInv, Http!CancelAnalysis PROVE HttpInv'
<1>1. httpSlot # 0 /\ analysis' = Http!CancelSlot /\ UNCHANGED <<httpSlot, dialog, opened, results>>
  BY Zenon DEF Http!CancelAnalysis
<1>2. httpSlot \in Http!Runs /\ analysis' \in [Http!Runs -> Analyses] /\ httpSlot' \in Http!Runs \cup {0}
  BY <1>1, SlotCancelled DEF HttpInv
<1>3. \A q \in Http!Runs : Kept(q)
  BY <1>1, SlotCancelled DEF Kept
<1>4. \A q \in Http!Runs : Usable(q)' => httpSlot' = q
  BY <1>1, SlotCancelled DEF HttpInv, Usable
<1> QED BY <1>1, <1>2, <1>3, <1>4, RunStep

\* AnalyzeEndpoints begins: the one before is cancelled, and nothing is fetched yet.
LEMMA HttpBegins ==
  ASSUME HttpInv, NEW r \in Http!Runs, Http!Begin(r) PROVE HttpInv'
<1> DEFINE targets == Http!Normalized(analysis[r].targets)
           waiting == [i \in DOMAIN targets |-> "idle"]
           empty == [i \in DOMAIN targets |-> Http!NoReport]
<1>1. /\ analysis[r].at = "begin" /\ httpSlot' = r /\ UNCHANGED <<dialog, opened, results>>
      /\ analysis' = [Http!CancelSlot EXCEPT ![r].at = "loop", ![r].targets = targets,
                        ![r].worker = waiting, ![r].reports = empty]
  BY Zenon DEF Http!Begin, Http!At
<1>2. analysis \in [Http!Runs -> Analyses] /\ Follows(r) /\ \A q \in Http!Runs : Usable(q) => httpSlot = q
  BY DEF HttpInv
<1>3. /\ targets \in Seq(Http!AllUrls) /\ Http!IsInjective(targets) /\ Len(targets) <= MaxEndpoints
  BY <1>2, AnalysisFields, NormalizedOnce
<1>4. Len(targets) \in Nat /\ DOMAIN targets = 1..Len(targets)
  BY <1>3
<1>5. Http!NoReport \in Http!Reports
  BY DEF Http!NoReport, Http!Reports
<1>6. /\ waiting \in Seq({"idle", "analyze", "result", "done"}) /\ DOMAIN waiting = DOMAIN targets
      /\ empty \in Seq(Http!Reports) /\ DOMAIN empty = DOMAIN targets
      /\ \A i \in DOMAIN targets : waiting[i] = "idle" /\ empty[i] = Http!NoReport
  <2> HIDE DEF targets
  <2>1. waiting \in [1..Len(targets) -> {"idle", "analyze", "result", "done"}] /\ empty \in [1..Len(targets) -> Http!Reports]
    BY <1>4, <1>5
  <2> QED BY <1>4, <2>1
<1> HIDE DEF targets, waiting, empty
<1>7. /\ analysis' \in [Http!Runs -> Analyses] /\ \A q \in Http!Runs \ {r} : analysis'[q] = Http!CancelSlot[q]
      /\ analysis'[r].at = "loop" /\ analysis'[r].dialog = analysis[r].dialog /\ analysis'[r].targets = targets
      /\ analysis'[r].next = 1 /\ analysis'[r].worker = waiting /\ analysis'[r].reports = empty
  <2>1. Http!CancelSlot \in [Http!Runs -> Analyses] /\ Http!CancelSlot[r].dialog = analysis[r].dialog
        /\ Http!CancelSlot[r].next = 1
    BY <1>1, <1>2, SlotCancelled DEF Follows
  <2> DEFINE before == Http!CancelSlot
             now1 == [before[r] EXCEPT !.at = "loop", !.targets = targets, !.worker = waiting, !.reports = empty]
  <2>2. analysis' = [before EXCEPT ![r].at = "loop", ![r].targets = targets, ![r].worker = waiting, ![r].reports = empty]
    BY <1>1
  <2>3. before \in [Http!Runs -> Analyses] /\ before[r].dialog = analysis[r].dialog /\ before[r].next = 1
    BY <2>1
  <2> HIDE DEF before
  <2>4. analysis' = [before EXCEPT ![r] = now1]
    BY <2>2, <2>3 DEF Analyses
  <2>5. now1 \in Analyses /\ now1.at = "loop" /\ now1.dialog = analysis[r].dialog /\ now1.targets = targets
        /\ now1.next = 1 /\ now1.worker = waiting /\ now1.reports = empty
    BY <1>3, <1>6, <2>3 DEF Analyses
  <2> HIDE DEF now1
  <2>6. analysis' \in [Http!Runs -> Analyses] /\ analysis'[r] = now1 /\ \A q \in Http!Runs \ {r} : analysis'[q] = before[q]
    BY <2>3, <2>4, <2>5
  <2> QED BY <2>5, <2>6 DEF before
<1>8. \A q \in Http!Runs \ {r} : Kept(q)
  BY <1>7, SlotCancelled DEF Kept
<1>9. \A q \in Http!Runs : Usable(q)' => httpSlot' = q
  BY <1>1, <1>2, <1>7, SlotCancelled DEF Usable
<1>10. Http!Prepared(analysis'[r])
  <2>1. \A i \in 1..Len(targets) : i >= 1
    BY <1>4
  <2>2. 1 \in 1..(Len(targets) + 1)
    BY <1>4
  <2> QED BY <1>3, <1>4, <1>6, <1>7, <2>1, <2>2 DEF Http!Prepared
<1>11. Follows(r)'
  <2>1. Http!Busy(r)' = {}
    BY <1>6, <1>7 DEF Http!Busy
  <2>2. Http!Cardinality(Http!Busy(r))' <= FetchesAtOnce
    BY <2>1, FS_EmptySet, HttpSets, HttpConstants
  <2> QED BY <1>7, <1>10, <2>1, <2>2 DEF Follows
<1> QED BY <1>1, <1>7, <1>8, <1>9, <1>10, <1>11, RunStep

\* The loop over the endpoints looks at the context.
LEMMA HttpLoops ==
  ASSUME HttpInv, NEW r \in Http!Runs, Http!LoopGoesOn(r) PROVE HttpInv'
<1>1. analysis[r].at = "loop" /\ UNCHANGED <<httpSlot, dialog, opened, results>>
      /\ analysis' = [analysis EXCEPT ![r].at = IF analysis[r].next <= Len(analysis[r].targets) /\ ~analysis[r].cancelled
                                                THEN "place" ELSE "join"]
  BY Zenon DEF Http!LoopGoesOn, Http!At
<1>2. analysis \in [Http!Runs -> Analyses] /\ Follows(r) /\ httpSlot \in Http!Runs \cup {0}
      /\ \A q \in Http!Runs : Usable(q) => httpSlot = q
  BY DEF HttpInv
<1>3. /\ analysis' \in [Http!Runs -> Analyses] /\ \A q \in Http!Runs \ {r} : analysis'[q] = analysis[q]
      /\ analysis'[r].at = IF analysis[r].next <= Len(analysis[r].targets) /\ ~analysis[r].cancelled THEN "place" ELSE "join"
      /\ analysis'[r].dialog = analysis[r].dialog /\ analysis'[r].targets = analysis[r].targets
      /\ analysis'[r].next = analysis[r].next /\ analysis'[r].worker = analysis[r].worker
      /\ analysis'[r].reports = analysis[r].reports /\ analysis'[r].cancelled = analysis[r].cancelled
  BY <1>1, <1>2 DEF Analyses
<1>4. \A q \in Http!Runs : Usable(q)' => Usable(q)
  BY <1>1, <1>3 DEF Usable
<1>5. Http!Prepared(analysis'[r]) /\ analysis[r].next \in 1..(Len(analysis[r].targets) + 1)
  BY <1>1, <1>2, <1>3 DEF Follows, Http!Prepared
<1>6. Follows(r)'
  <2>1. Http!Busy(r)' = Http!Busy(r)
    BY <1>3 DEF Http!Busy
  <2>2. Http!Cardinality(Http!Busy(r))' <= FetchesAtOnce
    BY <1>2, <2>1 DEF Follows
  <2>3. Len(analysis[r].targets) \in Nat
    BY <1>2, AnalysisFields
  <2> QED BY <1>3, <1>5, <2>2, <2>3 DEF Follows
<1>7. \A q \in Http!Runs \ {r} : Kept(q)
  BY <1>3 DEF Kept
<1>8. analysis[r].at \notin {"off", "back"} /\ analysis'[r].at # "off"
  BY <1>1, <1>3
<1> QED BY <1>1, <1>2, <1>3, <1>4, <1>6, <1>7, <1>8, RunStep

\* A worker is started for the next endpoint.
LEMMA HttpSpawns ==
  ASSUME HttpInv, NEW r \in Http!Runs, Http!Spawn(r) PROVE HttpInv'
<1> DEFINE k == analysis[r].next
<1>1. analysis[r].at = "place" /\ Http!Cardinality(Http!Busy(r)) < FetchesAtOnce
      /\ UNCHANGED <<httpSlot, dialog, opened, results>>
      /\ analysis' = [analysis EXCEPT ![r].at = "loop", ![r].next = @ + 1, ![r].worker[analysis[r].next] = "analyze"]
  BY Zenon DEF Http!Spawn, Http!At
<1>2. analysis \in [Http!Runs -> Analyses] /\ Follows(r) /\ httpSlot \in Http!Runs \cup {0}
      /\ \A q \in Http!Runs : Usable(q) => httpSlot = q
  BY DEF HttpInv
<1>3. Http!Prepared(analysis[r]) /\ k <= Len(analysis[r].targets)
  BY <1>1, <1>2 DEF Follows
<1>4. /\ Len(analysis[r].targets) \in Nat /\ k \in 1..Len(analysis[r].targets)
      /\ DOMAIN analysis[r].targets = 1..Len(analysis[r].targets)
      /\ DOMAIN analysis[r].worker = 1..Len(analysis[r].targets) /\ analysis[r].worker[k] = "idle"
      /\ analysis[r].worker \in Seq({"idle", "analyze", "result", "done"})
  <2>1. Len(analysis[r].targets) \in Nat /\ DOMAIN analysis[r].targets = 1..Len(analysis[r].targets)
        /\ analysis[r].worker \in Seq({"idle", "analyze", "result", "done"})
    BY <1>2, AnalysisFields
  <2>2. k \in 1..Len(analysis[r].targets)
    BY <1>3, <2>1 DEF Http!Prepared
  <2> QED BY <1>3, <2>1, <2>2 DEF Http!Prepared
<1>5. /\ analysis' \in [Http!Runs -> Analyses] /\ \A q \in Http!Runs \ {r} : analysis'[q] = analysis[q]
      /\ analysis'[r].at = "loop" /\ analysis'[r].dialog = analysis[r].dialog /\ analysis'[r].targets = analysis[r].targets
      /\ analysis'[r].next = k + 1 /\ analysis'[r].worker = [analysis[r].worker EXCEPT ![k] = "analyze"]
      /\ analysis'[r].reports = analysis[r].reports /\ analysis'[r].cancelled = analysis[r].cancelled
  <2>1. analysis[r] \in Analyses /\ k + 1 \in Nat
    BY <1>2, <1>4
  <2>2. [analysis[r].worker EXCEPT ![k] = "analyze"] \in Seq({"idle", "analyze", "result", "done"})
    BY <1>4
  <2>3. analysis' = [analysis EXCEPT ![r] = [analysis[r] EXCEPT !.at = "loop", !.next = k + 1,
                                              !.worker = [analysis[r].worker EXCEPT ![k] = "analyze"]]]
    BY <1>1, <1>2, <2>1 DEF Analyses
  <2> HIDE DEF k
  <2> QED BY <1>2, <2>1, <2>2, <2>3 DEF Analyses
<1> DEFINE worker1 == analysis'[r].worker
<1>6. DOMAIN worker1 = 1..Len(analysis[r].targets) /\ worker1[k] = "analyze"
      /\ \A i \in 1..Len(analysis[r].targets) : i # k => worker1[i] = analysis[r].worker[i]
  BY <1>4, <1>5
<1>7. Http!Prepared(analysis'[r])
  <2>1. k + 1 \in 1..(Len(analysis[r].targets) + 1)
    BY <1>4
  <2>2. \A i \in 1..Len(analysis[r].targets) :
          /\ worker1[i] = "idle" <=> i >= k + 1
          /\ IF worker1[i] \in {"idle", "analyze"} THEN analysis[r].reports[i] = Http!NoReport
             ELSE analysis[r].reports[i].url = analysis[r].targets[i] /\ Http!Honest(analysis[r].reports[i])
    BY <1>3, <1>4, <1>6 DEF Http!Prepared
  <2> HIDE DEF k
  <2> QED BY <1>3, <1>4, <1>5, <1>6, <2>1, <2>2 DEF Http!Prepared
<1>8. Follows(r)'
  <2>1. Http!Busy(r)' = Http!Busy(r) \cup {k} /\ k \notin Http!Busy(r)
    BY <1>4, <1>6 DEF Http!Busy
  <2>2. IsFiniteSet(Http!Busy(r)) /\ Http!Cardinality(Http!Busy(r)) \in Nat
    BY <1>2, AnalysisFields
  <2>3. Http!Cardinality(Http!Busy(r) \cup {k}) = Http!Cardinality(Http!Busy(r)) + 1
    BY <2>1, <2>2, FS_AddElement, HttpSets
  <2>4. Http!Cardinality(Http!Busy(r))' <= FetchesAtOnce
    BY <1>1, <2>1, <2>2, <2>3, HttpConstants
  <2> QED BY <1>5, <1>7, <2>4 DEF Follows
<1>9. \A q \in Http!Runs : Usable(q)' => Usable(q)
  BY <1>1, <1>5 DEF Usable
<1>10. \A q \in Http!Runs \ {r} : Kept(q)
  BY <1>5 DEF Kept
<1>11. analysis[r].at \notin {"off", "back"} /\ analysis'[r].at # "off"
  BY <1>1, <1>5
<1> QED BY <1>1, <1>2, <1>5, <1>8, <1>9, <1>10, <1>11, RunStep

\* A worker at work belongs to an analysis that is neither new nor back.
LEMMA WorkerFacts ==
  ASSUME HttpInv, NEW r \in Http!Runs, NEW i, NEW at \in {"analyze", "result"}, Http!Worker(r, i, at)
  PROVE /\ analysis \in [Http!Runs -> Analyses] /\ Follows(r) /\ httpSlot \in Http!Runs \cup {0}
        /\ \A q \in Http!Runs : Usable(q) => httpSlot = q
        /\ analysis[r].at \notin {"off", "begin", "back"} /\ Http!Prepared(analysis[r])
        /\ DOMAIN analysis[r].targets = 1..Len(analysis[r].targets)
        /\ DOMAIN analysis[r].worker = 1..Len(analysis[r].targets)
        /\ DOMAIN analysis[r].reports = 1..Len(analysis[r].targets)
        /\ i \in 1..Len(analysis[r].targets) /\ analysis[r].worker[i] = at /\ i \in Http!Busy(r)
        /\ analysis[r].targets[i] \in Http!AllUrls /\ analysis[r].reports[i] \in Http!Reports
<1>1. analysis \in [Http!Runs -> Analyses] /\ Follows(r) /\ httpSlot \in Http!Runs \cup {0}
      /\ \A q \in Http!Runs : Usable(q) => httpSlot = q
  BY DEF HttpInv
<1>2. i \in DOMAIN analysis[r].worker /\ analysis[r].worker[i] = at /\ i \in Http!Busy(r)
  BY DEF Http!Worker, Http!Busy
<1>3. analysis[r].worker # <<>>
  BY <1>2, EmptySeq
<1>4. analysis[r].at \notin {"off", "begin", "back"} /\ Http!Prepared(analysis[r])
  BY <1>1, <1>2, <1>3 DEF Follows
<1>5. analysis[r].targets \in Seq(Http!AllUrls) /\ analysis[r].reports \in Seq(Http!Reports)
      /\ DOMAIN analysis[r].targets = 1..Len(analysis[r].targets)
  BY <1>1, AnalysisFields
<1> QED BY <1>1, <1>2, <1>4, <1>5 DEF Http!Prepared

LEMMA HttpAnalyzes ==
  ASSUME HttpInv, NEW r \in Http!Runs, NEW i, NEW answers \in BOOLEAN, Http!Analyzed(r, i, answers) PROVE HttpInv'
<1> DEFINE a == analysis[r]
           report == Http!Analyze(a.targets[i], answers)
           reports1 == [a.reports EXCEPT ![i] = report]
           worker1 == [a.worker EXCEPT ![i] = "result"]
<1>1. Http!Worker(r, i, "analyze") /\ UNCHANGED <<httpSlot, dialog, opened, results>>
      /\ analysis' = [analysis EXCEPT ![r].reports[i] = report, ![r].worker[i] = "result"]
  BY Zenon DEF Http!Analyzed
<1>2. /\ analysis \in [Http!Runs -> Analyses] /\ Follows(r) /\ httpSlot \in Http!Runs \cup {0}
      /\ \A q \in Http!Runs : Usable(q) => httpSlot = q
      /\ a.at \notin {"off", "begin", "back"} /\ Http!Prepared(a)
      /\ DOMAIN a.targets = 1..Len(a.targets) /\ DOMAIN a.worker = 1..Len(a.targets)
      /\ DOMAIN a.reports = 1..Len(a.targets)
      /\ i \in 1..Len(a.targets) /\ a.worker[i] = "analyze" /\ i \in Http!Busy(r)
      /\ a.targets[i] \in Http!AllUrls
  BY <1>1, WorkerFacts
<1>3. report \in Http!Reports /\ report.url = a.targets[i] /\ Http!Honest(report)
  BY <1>2, AnalyzeIsHonest
<1> HIDE DEF report
<1>4. /\ analysis' \in [Http!Runs -> Analyses] /\ \A q \in Http!Runs \ {r} : analysis'[q] = analysis[q]
      /\ analysis'[r].at = a.at /\ analysis'[r].dialog = a.dialog /\ analysis'[r].targets = a.targets
      /\ analysis'[r].next = a.next /\ analysis'[r].cancelled = a.cancelled
      /\ analysis'[r].worker = worker1 /\ analysis'[r].reports = reports1
  <2>1. a \in Analyses
    BY <1>2
  <2>2. worker1 \in Seq({"idle", "analyze", "result", "done"}) /\ reports1 \in Seq(Http!Reports)
    BY <1>2, <1>3, <2>1 DEF Analyses
  <2>3. analysis' = [analysis EXCEPT ![r] = [a EXCEPT !.reports = reports1, !.worker = worker1]]
    BY <1>1, <1>2, <2>1 DEF Analyses
  <2> HIDE DEF reports1, worker1
  <2> QED BY <1>2, <2>1, <2>2, <2>3 DEF Analyses
<1>5. /\ DOMAIN worker1 = 1..Len(a.targets) /\ DOMAIN reports1 = 1..Len(a.targets)
      /\ worker1[i] = "result" /\ reports1[i] = report
      /\ \A k \in 1..Len(a.targets) : k # i => worker1[k] = a.worker[k] /\ reports1[k] = a.reports[k]
  BY <1>2
<1> HIDE DEF worker1, reports1
<1>6. Http!Prepared(analysis'[r])
  <2>1. \A k \in 1..Len(a.targets) :
          /\ worker1[k] = "idle" <=> k >= a.next
          /\ IF worker1[k] \in {"idle", "analyze"} THEN reports1[k] = Http!NoReport
             ELSE reports1[k].url = a.targets[k] /\ Http!Honest(reports1[k])
    BY <1>2, <1>3, <1>5 DEF Http!Prepared
  <2> HIDE DEF a
  <2> QED BY <1>2, <1>4, <1>5, <2>1 DEF Http!Prepared
<1>7. Follows(r)'
  <2>1. Http!Busy(r)' = Http!Busy(r)
    BY <1>2, <1>4, <1>5 DEF Http!Busy
  <2>2. Http!Cardinality(Http!Busy(r))' <= FetchesAtOnce
    BY <1>2, <2>1 DEF Follows
  <2> QED BY <1>2, <1>4, <1>6, <2>2 DEF Follows
<1>8. \A q \in Http!Runs : Usable(q)' => Usable(q)
  BY <1>4 DEF Usable
<1>9. \A q \in Http!Runs \ {r} : Kept(q)
  BY <1>4 DEF Kept
<1> QED BY <1>1, <1>2, <1>4, <1>7, <1>8, <1>9, RunStep

\* The report of a worker that is through goes out.
LEMMA HttpEmits ==
  ASSUME HttpInv, NEW r \in Http!Runs, NEW i, Http!EmitResult(r, i) PROVE HttpInv'
<1> DEFINE a == analysis[r]
           worker1 == [a.worker EXCEPT ![i] = "done"]
<1>0. PICK e : e = [what |-> "result", run |-> r, report |-> a.reports[i]]
  OBVIOUS
<1>1. Http!Worker(r, i, "result") /\ UNCHANGED <<httpSlot, dialog, opened>>
      /\ analysis' = [analysis EXCEPT ![r].worker[i] = "done"] /\ results' = Append(results, e)
  BY <1>0, Zenon DEF Http!EmitResult
<1>2. /\ analysis \in [Http!Runs -> Analyses] /\ Follows(r) /\ httpSlot \in Http!Runs \cup {0}
      /\ \A q \in Http!Runs : Usable(q) => httpSlot = q
      /\ a.at \notin {"off", "begin", "back"} /\ Http!Prepared(a)
      /\ DOMAIN a.targets = 1..Len(a.targets) /\ DOMAIN a.worker = 1..Len(a.targets)
      /\ DOMAIN a.reports = 1..Len(a.targets)
      /\ i \in 1..Len(a.targets) /\ a.worker[i] = "result" /\ i \in Http!Busy(r)
      /\ a.reports[i] \in Http!Reports
  BY <1>1, WorkerFacts
<1>3. Http!Honest(a.reports[i])
  BY <1>2 DEF Http!Prepared
<1>4. /\ analysis' \in [Http!Runs -> Analyses] /\ \A q \in Http!Runs \ {r} : analysis'[q] = analysis[q]
      /\ analysis'[r].at = a.at /\ analysis'[r].dialog = a.dialog /\ analysis'[r].targets = a.targets
      /\ analysis'[r].next = a.next /\ analysis'[r].cancelled = a.cancelled
      /\ analysis'[r].worker = worker1 /\ analysis'[r].reports = a.reports
  <2>1. a \in Analyses
    BY <1>2
  <2>2. worker1 \in Seq({"idle", "analyze", "result", "done"})
    BY <1>2, <2>1 DEF Analyses
  <2>3. analysis' = [analysis EXCEPT ![r] = [a EXCEPT !.worker = worker1]]
    BY <1>1, <1>2, <2>1 DEF Analyses
  <2> HIDE DEF worker1
  <2> QED BY <1>2, <2>1, <2>2, <2>3 DEF Analyses
<1>5. /\ DOMAIN worker1 = 1..Len(a.targets) /\ worker1[i] = "done"
      /\ \A k \in 1..Len(a.targets) : k # i => worker1[k] = a.worker[k]
  BY <1>2
<1> HIDE DEF worker1
<1>6. Http!Prepared(analysis'[r])
  <2>1. \A k \in 1..Len(a.targets) :
          /\ worker1[k] = "idle" <=> k >= a.next
          /\ IF worker1[k] \in {"idle", "analyze"} THEN a.reports[k] = Http!NoReport
             ELSE a.reports[k].url = a.targets[k] /\ Http!Honest(a.reports[k])
    BY <1>2, <1>5 DEF Http!Prepared
  <2> HIDE DEF a
  <2> QED BY <1>2, <1>4, <1>5, <2>1 DEF Http!Prepared
<1>7. Follows(r)'
  <2>1. Http!Busy(r)' \subseteq Http!Busy(r)
    BY <1>2, <1>4, <1>5 DEF Http!Busy
  <2>2. IsFiniteSet(Http!Busy(r)) /\ Http!Cardinality(Http!Busy(r)) \in Nat
    BY <1>2, AnalysisFields
  <2>3. \A T \in SUBSET Http!Busy(r) : Http!Cardinality(T) <= Http!Cardinality(Http!Busy(r)) /\ Http!Cardinality(T) \in Nat
    BY <2>2, FS_Subset, FS_CardinalityType, HttpSets
  <2>4. Http!Cardinality(Http!Busy(r))' <= FetchesAtOnce
    BY <1>2, <2>1, <2>2, <2>3, HttpConstants DEF Follows
  <2> QED BY <1>2, <1>4, <1>6, <2>4 DEF Follows
<1>8. e \in Http!Events /\ PostedWell(e)'
  <2>1. e \in Http!Events /\ e.what = "result" /\ e.run = r /\ e.report = a.reports[i]
    BY <1>0, <1>2 DEF Http!Events
  <2> QED BY <1>2, <1>3, <1>4, <2>1 DEF PostedWell
<1>9. \A q \in Http!Runs : Usable(q)' => Usable(q)
  BY <1>4 DEF Usable
<1>10. \A q \in Http!Runs \ {r} : Kept(q)
  BY <1>4 DEF Kept
<1> QED BY <1>1, <1>2, <1>4, <1>7, <1>8, <1>9, <1>10, RunStep

\* All workers are through: what they reported goes out, and the slot is free.
LEMMA HttpReturns ==
  ASSUME HttpInv, NEW r \in Http!Runs, Http!Return(r) PROVE HttpInv'
<1> DEFINE a == analysis[r]
           list == Http!Gathered(a.reports)
<1>0. PICK e : e = [what |-> "batch", run |-> r, reports |-> list]
  OBVIOUS
<1>1. a.at = "join" /\ Http!Busy(r) = {} /\ UNCHANGED <<dialog, opened>>
      /\ httpSlot' = (IF httpSlot = r THEN 0 ELSE httpSlot) /\ results' = Append(results, e)
      /\ analysis' = [analysis EXCEPT ![r].at = "back"]
  BY <1>0, Zenon DEF Http!Return, Http!At
<1>2. analysis \in [Http!Runs -> Analyses] /\ Follows(r) /\ httpSlot \in Http!Runs \cup {0}
      /\ \A q \in Http!Runs : Usable(q) => httpSlot = q
  BY DEF HttpInv
<1>3. Http!Prepared(a) /\ (~a.cancelled => a.next = Len(a.targets) + 1)
  BY <1>1, <1>2 DEF Follows
<1>4. /\ a.targets \in Seq(Http!AllUrls) /\ a.reports \in Seq(Http!Reports) /\ Len(a.targets) \in Nat
      /\ a.worker \in Seq({"idle", "analyze", "result", "done"})
      /\ DOMAIN a.targets = 1..Len(a.targets) /\ Len(a.reports) = Len(a.targets)
      /\ DOMAIN a.reports = 1..Len(a.targets) /\ DOMAIN a.worker = 1..Len(a.targets)
  <2>1. /\ a.targets \in Seq(Http!AllUrls) /\ a.reports \in Seq(Http!Reports)
        /\ Len(a.targets) \in Nat /\ Len(a.reports) \in Nat
        /\ a.worker \in Seq({"idle", "analyze", "result", "done"})
        /\ DOMAIN a.targets = 1..Len(a.targets) /\ DOMAIN a.reports = 1..Len(a.reports)
    BY <1>2, AnalysisFields
  <2>2. 1..Len(a.reports) = 1..Len(a.targets) /\ DOMAIN a.worker = 1..Len(a.targets)
    BY <1>3, <2>1 DEF Http!Prepared
  <2>3. Len(a.reports) = Len(a.targets)
    BY <2>1, <2>2
  <2> QED BY <2>1, <2>2, <2>3
<1>5. \A i \in 1..Len(a.targets) :
        IF a.worker[i] = "done" THEN /\ Http!Filled(a.reports[i]) /\ a.reports[i].url = a.targets[i]
                                     /\ Http!Honest(a.reports[i])
        ELSE ~Http!Filled(a.reports[i]) /\ i >= a.next
  <2> TAKE i \in 1..Len(a.targets)
  <2>1. a.worker[i] \in {"idle", "done"}
    BY <1>1, <1>4 DEF Http!Busy
  <2>2. CASE a.worker[i] = "idle"
    <3>1. a.reports[i] = Http!NoReport /\ i >= a.next
      BY <1>3, <1>4, <2>2 DEF Http!Prepared
    <3> QED BY <2>2, <3>1 DEF Http!NoReport, Http!Filled
  <2>3. CASE a.worker[i] = "done"
    <3>1. a.reports[i].url = a.targets[i] /\ Http!Honest(a.reports[i]) /\ a.targets[i] \in Http!AllUrls
      BY <1>3, <1>4, <2>3 DEF Http!Prepared
    <3>2. a.targets[i] # "none"
      BY <3>1, HttpConstants
    <3> QED BY <2>3, <3>1, <3>2 DEF Http!Filled
  <2> QED BY <2>1, <2>2, <2>3
<1>6. list \in Seq(Http!Reports) /\ GatheredOf(list, a.reports, Len(a.reports))
  <2>1. \A i, j \in 1..Len(a.targets) : a.targets[i] = a.targets[j] => i = j
    BY <1>3, <1>4 DEF Http!Prepared, Http!IsInjective
  <2>2. \A i, j \in 1..Len(a.reports) :
          Http!Filled(a.reports[i]) /\ Http!Filled(a.reports[j]) /\ a.reports[i].url = a.reports[j].url => i = j
    <3> TAKE i, j \in 1..Len(a.reports)
    <3> HAVE Http!Filled(a.reports[i]) /\ Http!Filled(a.reports[j]) /\ a.reports[i].url = a.reports[j].url
    <3>1. a.reports[i].url = a.targets[i] /\ a.reports[j].url = a.targets[j]
      BY <1>4, <1>5
    <3> QED BY <1>4, <2>1, <3>1
  <2> HIDE DEF a
  <2> QED BY <1>4, <2>2, GatheredReports
<1>7. /\ analysis' \in [Http!Runs -> Analyses] /\ \A q \in Http!Runs \ {r} : analysis'[q] = analysis[q]
      /\ analysis'[r].at = "back" /\ analysis'[r].dialog = a.dialog /\ analysis'[r].targets = a.targets
      /\ analysis'[r].next = a.next /\ analysis'[r].cancelled = a.cancelled
      /\ analysis'[r].worker = a.worker /\ analysis'[r].reports = a.reports
  BY <1>1, <1>2 DEF Analyses
<1> HIDE DEF list
<1>8. Http!IsInjective(Http!Listed(list)) /\ \A k \in DOMAIN list : Http!Honest(list[k])
  <2>1. Http!IsInjective(Http!Listed(list))
    BY <1>6, ListedOnce DEF GatheredOf
  <2>2. \A k \in 1..Len(list) : \E j \in 1..Len(a.targets) : list[k] = a.reports[j] /\ Http!Filled(a.reports[j])
    BY <1>4, <1>6 DEF GatheredOf
  <2>3. \A k \in 1..Len(list) : Http!Honest(list[k])
    BY <1>5, <2>2
  <2> QED BY <1>6, <2>1, <2>3
<1>9. ASSUME ~a.cancelled PROVE Http!Listed(list) = a.targets
  <2>1. \A i \in 1..Len(a.reports) : Http!Filled(a.reports[i]) /\ a.reports[i].url = a.targets[i]
    BY <1>3, <1>4, <1>5, <1>9
  <2>2. Len(list) = Len(a.targets) /\ \A i \in 1..Len(a.targets) : list[i] = a.reports[i]
    BY <1>4, <1>6, <2>1 DEF GatheredOf
  <2>3. DOMAIN list = 1..Len(a.targets) /\ \A i \in 1..Len(a.targets) : list[i].url = a.targets[i]
    BY <1>4, <1>6, <2>1, <2>2
  <2>4. Http!Listed(list) = [i \in 1..Len(a.targets) |-> a.targets[i]]
    BY <2>3 DEF Http!Listed
  <2>5. a.targets = [i \in 1..Len(a.targets) |-> a.targets[i]]
    BY <1>4
  <2> QED BY <2>4, <2>5
<1>10. e \in Http!Events /\ PostedWell(e)'
  <2>1. e \in Http!Events /\ e.what = "batch" /\ e.run = r /\ e.reports = list
    BY <1>0, <1>6 DEF Http!Events
  <2> QED BY <1>7, <1>8, <1>9, <2>1 DEF PostedWell
<1>11. Follows(r)'
  <2>1. Http!Busy(r)' = {}
    BY <1>1, <1>7 DEF Http!Busy
  <2>2. Http!Cardinality(Http!Busy(r))' <= FetchesAtOnce
    BY <2>1, FS_EmptySet, HttpSets, HttpConstants
  <2>3. Http!Prepared(analysis'[r])
    BY <1>3, <1>7 DEF Http!Prepared
  <2> QED BY <1>3, <1>7, <2>1, <2>2, <2>3 DEF Follows
<1>12. \A q \in Http!Runs : Usable(q)' => httpSlot' = q
  BY <1>1, <1>2, <1>7 DEF Usable
<1>13. \A q \in Http!Runs \ {r} : Kept(q)
  BY <1>7 DEF Kept
<1>14. httpSlot' \in Http!Runs \cup {0}
  BY <1>1, <1>2
<1> QED BY <1>1, <1>7, <1>10, <1>11, <1>12, <1>13, <1>14, RunStep

LEMMA HttpStep ==
  ASSUME HttpInv, [Http!Next]_(Http!vars) PROVE HttpInv'
<1>1. CASE Http!User
  BY <1>1, HttpOpens, HttpCancels, HttpStartsAgain, HttpSelects DEF Http!User
<1>2. CASE Http!Deliver
  BY <1>2, HttpDelivers
<1>3. ASSUME NEW r \in Http!Runs, Http!Analysis(r) PROVE HttpInv'
  BY <1>3, HttpBegins, HttpLoops, HttpSpawns, HttpReturns, HttpEmits, HttpAnalyzes DEF Http!Analysis
<1>4. CASE UNCHANGED Http!vars
  <2>1. UNCHANGED <<analysis, httpSlot, dialog, opened, results>>
    BY <1>4 DEF Http!vars
  <2>2. results \in Seq(Http!Events) /\ dialog \in [Http!Dialogs -> Shown] /\ \A d \in Http!Dialogs : GoodList(dialog[d])
    BY DEF HttpInv
  <2>3. \A i \in DOMAIN results' : \E j \in DOMAIN results : results'[i] = results[j]
    BY <2>1
  <2> QED BY <2>1, <2>2, <2>3, HttpQuiet
<1> QED BY <1>1, <1>2, <1>3, <1>4 DEF Http!Next

\* Only the analysis in the slot fetches on a usable context, within its places.
LEMMA FetchesAreFew == ASSUME HttpInv PROVE Http!LiveFetchesBounded
<1> DEFINE P == {p \in Http!Runs \X (1..MaxEndpoints) : Http!Live(p[1]) /\ p[2] \in Http!Busy(p[1])}
<1>1. analysis \in [Http!Runs -> Analyses] /\ httpSlot \in Http!Runs \cup {0}
      /\ \A r \in Http!Runs : Follows(r) /\ (Usable(r) => httpSlot = r)
  BY DEF HttpInv
<1>2. ASSUME NEW r \in Http!Runs, Http!Live(r), NEW i \in Http!Busy(r) PROVE httpSlot = r
  <2>1. analysis[r].worker # <<>>
    BY EmptySeq DEF Http!Busy
  <2>2. analysis[r].at \in {"off", "begin", "loop", "place", "join", "back"}
    BY <1>1 DEF Analyses
  <2>3. Usable(r)
    BY <1>1, <1>2, <2>1, <2>2 DEF Follows, Usable, Http!Live
  <2> QED BY <1>1, <2>3
<1>3. \A p \in P : p = <<httpSlot, p[2]>> /\ p[2] \in Http!Busy(httpSlot) /\ httpSlot \in Http!Runs
  BY <1>2
<1>4. CASE P = {}
  <2>1. Http!Cardinality(P) = 0
    BY <1>4, FS_EmptySet, HttpSets
  <2> QED BY <2>1, HttpConstants DEF Http!LiveFetchesBounded
<1>5. CASE P # {}
  <2>1. httpSlot \in Http!Runs
    BY <1>3, <1>5
  <2>2. P \subseteq {httpSlot} \X Http!Busy(httpSlot)
    BY <1>3
  <2>3. IsFiniteSet(Http!Busy(httpSlot)) /\ Http!Cardinality(Http!Busy(httpSlot)) \in Nat
        /\ Http!Cardinality(Http!Busy(httpSlot)) <= FetchesAtOnce
    BY <1>1, <2>1, AnalysisFields DEF Follows
  <2> DEFINE places == Http!Busy(httpSlot)
  <2> HIDE DEF P, places
  <2>4. IsFiniteSet({httpSlot}) /\ Cardinality({httpSlot}) = 1 /\ IsFiniteSet(places) /\ Cardinality(places) \in Nat
    BY <2>3, FS_Singleton, HttpSets DEF places
  <2>5. IsFiniteSet({httpSlot} \X places) /\ Cardinality({httpSlot} \X places) = 1 * Cardinality(places)
    BY <2>4, FS_Product
  <2>6. IsFiniteSet(P) /\ Cardinality(P) <= Cardinality({httpSlot} \X places) /\ Cardinality(P) \in Nat
    <3>1. P \subseteq {httpSlot} \X places
      BY <2>2 DEF places
    <3> QED BY <2>5, <3>1, FS_Subset, FS_CardinalityType
  <2>7. Cardinality(P) <= FetchesAtOnce
    BY <2>3, <2>4, <2>5, <2>6, HttpSets, HttpConstants DEF places
  <2> QED BY <2>7, HttpSets DEF Http!LiveFetchesBounded, P
<1> QED BY <1>4, <1>5

LEMMA HttpPromise == ASSUME HttpInv PROVE ListsAreCoherent
<1>1. Http!IInv
  BY HttpParts
<1>2. Http!BestGradeIsEarned
  BY <1>1 DEF Http!IInv, Http!ShownAreHonest, Http!Honest, Http!BestGradeIsEarned
<1> QED BY <1>1, <1>2, FetchesAreFew DEF ListsAreCoherent, Http!IInv

\* However many analyses and dialogs, in whatever order they are started, cancelled
\* and heard of, for any endpoints and answers: a dialog lists a URL once and its
\* panes are about the selected row, no best grade hides a failed check, an analysis
\* left alone reports on each endpoint in order, and only one of them fetches.
THEOREM EndpointListsStayTrue == Http!Spec => []ListsAreCoherent
<1>1. Http!Init => HttpInv
  BY HttpInit
<1>2. HttpInv /\ [Http!Next]_(Http!vars) => HttpInv'
  BY HttpStep
<1>3. HttpInv => ListsAreCoherent
  BY HttpPromise
<1> QED BY <1>1, <1>2, <1>3, PTL DEF Http!Spec
=============================================================================
