---------------------------- MODULE TraceOpsProofs ----------------------------
(***************************************************************************)
(* Trace operations, for any number of them, of targets, of slots and of   *)
(* hops: the app uses its canceler as Canceler prescribes, so no more than *)
(* Limit traces run on a usable context; "scan complete" finds every       *)
(* target settled; a location is written into the row of its hop.          *)
(***************************************************************************)
EXTENDS TraceOps, FiniteSetTheorems, WellFoundedInduction, TLAPS

OpsP == INSTANCE CancelerProofs

USE ScanAssumption

Unbegun == {"new", "launched"}
Early == Unbegun \cup {"preparing", "discovered"}
Final == {"returning", "ended", "over"}

\* Target ids are positive, 0 is the single-trace view; there are finitely many.
LEMMA TargetFacts == 0 \notin Targets /\ Targets \subseteq TargetIds /\ IsFiniteSet(TargetIds)
<1>1. Cardinality(Targets) \in Nat
  BY FS_CardinalityType
<1>2. IsFiniteSet({0} \cup Targets)
  BY FS_AddElement, {0} \cup Targets = Targets \cup {0}
<1> QED BY <1>1, <1>2 DEF TargetIds

-----------------------------------------------------------------------------
(* The queue.                                                              *)

\* What the first closures of the queue will have done, a longer queue will have
\* done as well.
LEMMA QueueGrows ==
  ASSUME queue \in Seq(Closures), NEW e \in Closures, queue' = Append(queue, e),
         UNCHANGED <<settled, hops>>
  PROVE  /\ queue' \in Seq(Closures) /\ Len(queue) \in Nat /\ Len(queue') = Len(queue) + 1
         /\ \A n \in 1..Len(queue) : queue'[n] = queue[n]
         /\ queue'[Len(queue) + 1] = e
         /\ \A n \in 0..Len(queue), m \in Nat, t \in TargetIds :
              n <= m /\ SettledBy(n, t) => SettledBy(m, t)'
         /\ \A n \in 0..Len(queue), m \in Nat, r \in Runs, t \in TargetIds, i \in Items :
              n <= m /\ RowBy(n, r, t, i) => RowBy(m, r, t, i)'
<1>1. /\ queue' \in Seq(Closures) /\ Len(queue) \in Nat /\ Len(queue') = Len(queue) + 1
      /\ \A n \in 1..Len(queue) : queue'[n] = queue[n]
      /\ queue'[Len(queue) + 1] = e
  OBVIOUS
<1>2. ASSUME NEW n \in 0..Len(queue), NEW m \in Nat, NEW t \in TargetIds,
             n <= m, SettledBy(n, t)
      PROVE  SettledBy(m, t)'
  BY <1>1, <1>2 DEF SettledBy
<1>3. ASSUME NEW n \in 0..Len(queue), NEW m \in Nat, NEW r \in Runs, NEW t \in TargetIds,
             NEW i \in Items, n <= m, RowBy(n, r, t, i)
      PROVE  RowBy(m, r, t, i)'
  BY <1>1, <1>3 DEF RowBy, HasRow, Event
<1> QED BY <1>1, <1>2, <1>3

\* The GUI thread takes a closure: what it was to do is done.
LEMMA QueueShrinks ==
  ASSUME TypeOK, Handle
  PROVE  /\ Head(queue) \in Closures /\ Head(queue) = queue[1]
         /\ queue' \in Seq(Closures) /\ Len(queue) \in Nat /\ Len(queue') = Len(queue) - 1
         /\ Len(queue) > 0
         /\ \A n \in 1..Len(queue') : queue'[n] = queue[n + 1]
<1>1. queue \in Seq(Closures) /\ queue # <<>> /\ queue' = Tail(queue)
  BY DEF TypeOK, Handle
<1> QED BY <1>1
\* A closure names its run and its target, and a hop's closure its item.
LEMMA ClosureFields ==
  ASSUME NEW e \in Closures
  PROVE  /\ e.run \in Runs /\ e.target \in TargetIds
         /\ e.ev \in ItemEvents => e.item \in Items
         /\ e = [ev |-> e.ev, run |-> e.run, target |-> e.target, item |-> e.item]
BY DEF Closures, ItemEvents

\* onHop adds the row of its hop, onGeo fills one in: no row is lost.
LEMMA RowsStay ==
  ASSUME TypeOK, Handle
  PROVE  /\ \A r \in Runs, t \in TargetIds, i \in Items :
              HasRow(r, t, i) \/ queue[1] = Event("hop", r, t, i) => HasRow(r, t, i)'
         /\ hops' \in [TargetIds -> Seq(Rows)]
<1> DEFINE e == Head(queue)
           rows == hops[e.target]
<1>1. e = queue[1] /\ e.target \in TargetIds /\ e.run \in Runs /\ (e.ev = "hop" => e.item \in Items)
  BY QueueShrinks, ClosureFields DEF ItemEvents
<1>2. hops \in [TargetIds -> Seq(Rows)] /\ rows \in Seq(Rows)
  BY <1>1 DEF TypeOK
<1>3. \/ UNCHANGED hops /\ e.ev # "hop"
      \/ /\ e.ev = "hop"
         /\ hops' = [hops EXCEPT ![e.target] =
                       Append(rows, [hop |-> e.item, run |-> e.run, geo |-> NoRun])]
      \/ e.ev # "hop" /\ \E k : hops' = [hops EXCEPT ![e.target][k].geo = e.run]
  <2>1. CASE OnHop(e)
    BY <2>1 DEF OnHop
  <2>2. CASE OnGeo(e)
    BY <2>2 DEF OnGeo
  <2>3. CASE OnTarget(e) \/ OnDone(e) \/ OnError(e) \/ OnFinished(e) \/ OnSubdomains(e)
    BY <2>3 DEF OnTarget, OnDone, OnError, OnFinished, OnSubdomains, view
  <2> QED BY <2>1, <2>2, <2>3 DEF Handle
<1> HIDE DEF e
<1>4. ASSUME NEW r, NEW t, NEW i, e.ev # "hop"
      PROVE  queue[1] # Event("hop", r, t, i)
  BY <1>1, <1>4 DEF Event
<1>5. ASSUME NEW r, NEW t, NEW i, queue[1] = Event("hop", r, t, i)
      PROVE  r = e.run /\ t = e.target /\ i = e.item
  BY <1>1, <1>5 DEF Event
<1>6. ASSUME NEW new \in Seq(Rows), hops' = [hops EXCEPT ![e.target] = new],
             \A n \in DOMAIN rows : /\ n \in DOMAIN new
                                    /\ new[n].hop = rows[n].hop /\ new[n].run = rows[n].run,
             e.ev = "hop" => \E n \in DOMAIN new : new[n].hop = e.item /\ new[n].run = e.run
      PROVE  /\ \A r \in Runs, t \in TargetIds, i \in Items :
                  HasRow(r, t, i) \/ queue[1] = Event("hop", r, t, i) => HasRow(r, t, i)'
             /\ hops' \in [TargetIds -> Seq(Rows)]
  <2>1. hops'[e.target] = new /\ \A t \in TargetIds : t # e.target => hops'[t] = hops[t]
    BY <1>1, <1>2, <1>6
  <2>2. \A r \in Runs, t \in TargetIds, i \in Items : HasRow(r, t, i) => HasRow(r, t, i)'
    BY <1>6, <2>1 DEF HasRow
  <2>3. ASSUME NEW r \in Runs, NEW t \in TargetIds, NEW i \in Items,
               queue[1] = Event("hop", r, t, i)
        PROVE  HasRow(r, t, i)'
    <3>1. e.ev = "hop" /\ r = e.run /\ t = e.target /\ i = e.item
      BY <1>4, <1>5, <2>3
    <3> QED BY <1>6, <2>1, <3>1 DEF HasRow
  <2>4. hops' \in [TargetIds -> Seq(Rows)]
    BY <1>1, <1>2, <1>6
  <2> QED BY <2>2, <2>3, <2>4
<1> HIDE DEF rows
<1>7. CASE UNCHANGED hops /\ e.ev # "hop"
  <2>1. \A r, t, i : HasRow(r, t, i) => HasRow(r, t, i)'
    BY <1>7 DEF HasRow
  <2> QED BY <1>2, <1>4, <1>7, <2>1
<1>8. CASE /\ e.ev = "hop"
           /\ hops' = [hops EXCEPT ![e.target] =
                         Append(rows, [hop |-> e.item, run |-> e.run, geo |-> NoRun])]
  <2> DEFINE row == [hop |-> e.item, run |-> e.run, geo |-> NoRun]
             new == Append(rows, row)
  <2>1. row \in Rows /\ row.hop = e.item /\ row.run = e.run
    BY <1>1, <1>8 DEF Rows
  <2>2. new \in Seq(Rows) /\ Len(rows) + 1 \in DOMAIN new /\ new[Len(rows) + 1] = row
    BY <1>2, <2>1
  <2>3. \A k \in DOMAIN rows : k \in DOMAIN new /\ new[k] = rows[k]
    BY <1>2, <2>1
  <2>4. hops' = [hops EXCEPT ![e.target] = new]
    BY <1>8
  <2> HIDE DEF row, new
  <2> QED BY <1>6, <1>8, <2>1, <2>2, <2>3, <2>4
<1>9. ASSUME NEW k, hops' = [hops EXCEPT ![e.target][k].geo = e.run], e.ev # "hop"
      PROVE  /\ \A r \in Runs, t \in TargetIds, i \in Items :
                  HasRow(r, t, i) \/ queue[1] = Event("hop", r, t, i) => HasRow(r, t, i)'
             /\ hops' \in [TargetIds -> Seq(Rows)]
  <2> DEFINE new == [rows EXCEPT ![k].geo = e.run]
  <2>1. new = [n \in DOMAIN rows |-> new[n]] /\ \A n \in DOMAIN rows : n # k => new[n] = rows[n]
    BY <1>2
  <2>2. k \in DOMAIN rows => new[k] = [rows[k] EXCEPT !.geo = e.run]
    BY <1>2
  <2>3. \A n \in DOMAIN rows : rows[n] \in Rows
    BY <1>2
  <2>4. hops' = [hops EXCEPT ![e.target] = new]
    BY <1>9 DEF rows
  <2> HIDE DEF new
  <2>5. \A n \in DOMAIN rows : /\ new[n].hop = rows[n].hop /\ new[n].run = rows[n].run
                               /\ new[n] \in Rows
    BY <1>1, <2>1, <2>2, <2>3 DEF Rows
  <2>6. new \in Seq(Rows)
    <3>1. DOMAIN rows = 1..Len(rows) /\ Len(rows) \in Nat
      BY <1>2
    <3>2. new \in [1..Len(rows) -> Rows]
      BY <2>1, <2>5, <3>1
    <3> QED BY <3>1, <3>2
  <2> QED BY <1>6, <1>9, <2>1, <2>4, <2>5, <2>6
<1>10. QED
  BY <1>3, <1>7, <1>8, <1>9 DEF rows

\* A handled done or error settles its target, and nothing is unsettled.
LEMMA SettledStays ==
  ASSUME TypeOK, Handle
  PROVE  /\ settled \subseteq settled' /\ settled' \subseteq shown' /\ shown' \subseteq TargetIds
         /\ \A t \in Targets : queue[1].ev \in {"done", "error"} /\ queue[1].target = t => t \in settled'
<1> DEFINE e == Head(queue)
<1>1. e = queue[1] /\ e.target \in TargetIds
  BY QueueShrinks, ClosureFields
<1>2. settled \subseteq shown /\ shown \subseteq TargetIds /\ 0 \notin Targets
  BY TargetFacts DEF TypeOK
<1>3. CASE OnDone(e) \/ OnError(e)
  BY <1>1, <1>2, <1>3 DEF OnDone, OnError, EnsureTrace
<1>4. CASE OnHop(e) \/ OnGeo(e) \/ OnTarget(e) \/ OnFinished(e) \/ OnSubdomains(e)
  BY <1>1, <1>2, <1>4 DEF OnHop, OnGeo, OnTarget, OnFinished, OnSubdomains, EnsureTrace, view
<1> QED BY <1>3, <1>4 DEF Handle

-----------------------------------------------------------------------------
(* The conjuncts about the queue and the view, for the steps that post at  *)
(* most one closure and leave the view alone.                              *)

\* Runs and traces only move on.
MovesOn ==
  \A r \in Runs :
    /\ stage'[r] \in Unbegun => stage[r] \in Unbegun
    /\ stage'[r] \in Early => stage[r] \in Early /\ trace'[r] = trace[r] /\ look'[r] = look[r]
    /\ stage[r] \in Final => stage'[r] \in Final
    /\ \A t \in TargetIds : trace[r][t] = "none" /\ trace'[r][t] # "none" => stage[r] \notin Final

NewlySettled(r, t) == trace'[r][t] = "settled" /\ trace[r][t] # "settled"
NewlyLooking(r, t, i) ==
  look'[r][t][i] \in {"lookup", "ready"} /\ look[r][t][i] \notin {"lookup", "ready"}

Ordered == NothingEarly /\ SettledReported /\ ScanDoneLast /\ LooksHaveRows /\ LocationsFollow

\* NothingEarly, for one run.
LEMMA NothingYet ==
  ASSUME NothingEarly, NEW r \in Runs
  PROVE  /\ stage[r] \in Early => \A t \in TargetIds : trace[r][t] = "none"
                                                    /\ \A i \in Items : look[r][t][i] = "none"
         /\ stage[r] \in Unbegun => \A n \in DOMAIN queue : queue[n].run # r
BY DEF NothingEarly, Early, Unbegun

\* A step that posts nothing keeps what the queue promises, if runs only move on
\* and no trace settles and no lookup starts without its closure.
LEMMA QuietKeeps ==
  ASSUME TypeOK, Ordered, MovesOn, UNCHANGED <<queue, settled, hops>>,
         \A r \in Runs : InView(r)' => InView(r),
         \A r \in Runs, t \in Targets : ~NewlySettled(r, t),
         \A r \in Runs, t \in TargetIds, i \in Items : ~NewlyLooking(r, t, i)
  PROVE  Ordered'
<1> USE DEF Ordered
<1>1. /\ \A n, t : SettledBy(n, t)' <=> SettledBy(n, t)
      /\ \A n, r, t, i : RowBy(n, r, t, i)' <=> RowBy(n, r, t, i)
  BY DEF SettledBy, RowBy, HasRow, Event
<1>2. NothingEarly'
  <2> SUFFICES ASSUME NEW r \in Runs
               PROVE  /\ stage'[r] \in Early =>
                           \A t \in TargetIds : trace'[r][t] = "none"
                                              /\ \A i \in Items : look'[r][t][i] = "none"
                      /\ stage'[r] \in Unbegun => \A n \in DOMAIN queue : queue[n].run # r
    BY DEF NothingEarly, Early, Unbegun
  <2>1. /\ stage[r] \in Early => \A t \in TargetIds : trace[r][t] = "none"
                                                    /\ \A i \in Items : look[r][t][i] = "none"
        /\ stage[r] \in Unbegun => \A n \in DOMAIN queue : queue[n].run # r
    BY NothingYet
  <2>2. /\ stage'[r] \in Unbegun => stage[r] \in Unbegun
        /\ stage'[r] \in Early => stage[r] \in Early /\ trace'[r] = trace[r] /\ look'[r] = look[r]
    BY DEF MovesOn
  <2> QED BY <2>1, <2>2
<1>3. SettledReported'
  BY <1>1 DEF SettledReported, NewlySettled
<1>4. ScanDoneLast'
  <2> SUFFICES ASSUME NEW n \in DOMAIN queue, queue[n].ev = "scanDone"
               PROVE  LET r == queue[n].run
                      IN /\ stage'[r] \in Final
                         /\ \/ \A t \in TargetIds : trace'[r][t] = "none"
                            \/ InView(r) => \A t \in Targets : SettledBy(n - 1, t)
    <3>1. \A n \in DOMAIN queue : queue[n].run \in Runs
      BY ClosureFields DEF TypeOK
    <3> QED BY <1>1, <3>1 DEF ScanDoneLast, Final
  <2>1. queue[n].run \in Runs
    BY ClosureFields DEF TypeOK
  <2> QED BY <2>1 DEF ScanDoneLast, MovesOn, Final
<1>5. LooksHaveRows'
  BY <1>1 DEF LooksHaveRows, NewlyLooking
<1>6. LocationsFollow'
  <2>1. \A n \in DOMAIN queue : queue[n].run \in Runs
    BY ClosureFields DEF TypeOK
  <2> QED BY <1>1, <2>1 DEF LocationsFollow
<1> QED BY <1>2, <1>3, <1>4, <1>5, <1>6

\* A step that posts one closure keeps it, if the closure is what it reports:
\* done or error for a trace that settles, the hop for a lookup that starts,
\* scanDone after every target, a location after its hop.
LEMMA PostKeeps ==
  ASSUME TypeOK, Ordered, MovesOn, UNCHANGED <<settled, hops, latest, since>>,
         NEW e \in Closures, Post(e), stage'[e.run] \notin Unbegun,
         \A r \in Runs, t \in Targets :
           NewlySettled(r, t) => e.ev \in {"done", "error"} /\ e.target = t,
         \A r \in Runs, t \in TargetIds, i \in Items :
           NewlyLooking(r, t, i) /\ i > 0 => e = Event("hop", r, t, i),
         e.ev = "scanDone" =>
           /\ stage'[e.run] \in Final
           /\ \/ \A t \in TargetIds : trace'[e.run][t] = "none"
              \/ InView(e.run) => \A t \in Targets : SettledBy(Len(queue), t),
         e.ev = "geo" /\ InView(e.run) => RowBy(Len(queue), e.run, e.target, e.item)
  PROVE  Ordered' /\ queue' \in Seq(Closures)
<1> USE DEF Ordered
<1> PICK L : L = Len(queue)
  OBVIOUS
<1>1. /\ queue' \in Seq(Closures) /\ L \in Nat /\ Len(queue') = L + 1
      /\ \A n \in 1..L : queue'[n] = queue[n]
      /\ queue'[L + 1] = e
      /\ \A n \in 0..L, m \in Nat, t \in TargetIds : n <= m /\ SettledBy(n, t) => SettledBy(m, t)'
      /\ \A n \in 0..L, m \in Nat, r \in Runs, t \in TargetIds, i \in Items :
           n <= m /\ RowBy(n, r, t, i) => RowBy(m, r, t, i)'
  BY QueueGrows DEF TypeOK, Post
<1>2. \A r : InView(r)' <=> InView(r)
  BY DEF InView
<1>3. DOMAIN queue' = 1..(L + 1) /\ DOMAIN queue = 1..L /\ queue \in Seq(Closures)
  BY <1>1 DEF TypeOK
<1>4. \A n \in 1..L : queue[n].run \in Runs /\ queue[n].target \in TargetIds
                      /\ (queue[n].ev = "geo" => queue[n].item \in Items)
  BY <1>3, ClosureFields DEF ItemEvents
<1>5. e.run \in Runs /\ e.target \in TargetIds /\ (e.ev = "geo" => e.item \in Items)
  BY ClosureFields DEF ItemEvents
<1>6. NothingEarly'
  BY <1>1, <1>3, <1>4, <1>5 DEF NothingEarly, MovesOn, Early, Unbegun
<1>7. SettledReported'
  <2> SUFFICES ASSUME NEW r \in Runs, NEW t \in Targets, InView(r), trace'[r][t] = "settled"
               PROVE  SettledBy(L + 1, t)'
    BY <1>1, <1>2 DEF SettledReported
  <2>1. CASE NewlySettled(r, t)
    BY <1>1, <2>1 DEF SettledBy
  <2>2. CASE ~NewlySettled(r, t)
    <3>1. SettledBy(L, t)
      BY <2>2 DEF SettledReported, NewlySettled
    <3> QED BY <1>1, <3>1, TargetFacts
  <2> QED BY <2>1, <2>2
<1>8. ScanDoneLast'
  <2> SUFFICES ASSUME NEW n \in 1..(L + 1), queue'[n].ev = "scanDone"
               PROVE  LET r == queue'[n].run
                      IN /\ stage'[r] \in Final
                         /\ \/ \A t \in TargetIds : trace'[r][t] = "none"
                            \/ InView(r) => \A t \in Targets : SettledBy(n - 1, t)'
    BY <1>2, <1>3 DEF ScanDoneLast, Final
  <2>1. CASE n = L + 1
    BY <1>1, <2>1, TargetFacts
  <2>2. CASE n \in 1..L
    <3> DEFINE r == queue[n].run
    <3>1. r \in Runs /\ queue'[n] = queue[n] /\ n - 1 \in 0..L /\ n - 1 \in Nat
      BY <1>1, <1>4, <2>2
    <3>2. /\ stage[r] \in Final
          /\ \/ \A t \in TargetIds : trace[r][t] = "none"
             \/ InView(r) => \A t \in Targets : SettledBy(n - 1, t)
      BY <1>3, <2>2, <3>1 DEF ScanDoneLast, Final
    <3> HIDE DEF r
    <3>3. stage'[r] \in Final /\ \A t \in TargetIds : trace[r][t] = "none" => trace'[r][t] = "none"
      BY <3>1, <3>2 DEF MovesOn
    <3>4. \A t \in Targets : SettledBy(n - 1, t) => SettledBy(n - 1, t)'
      BY <1>1, <3>1, TargetFacts
    <3> QED BY <3>1, <3>2, <3>3, <3>4 DEF r
  <2> QED BY <1>1, <2>1, <2>2
<1>9. LooksHaveRows'
  <2> SUFFICES ASSUME NEW r \in Runs, NEW t \in TargetIds, NEW i \in Items, InView(r), i > 0,
                      look'[r][t][i] \in {"lookup", "ready"}
               PROVE  RowBy(L + 1, r, t, i)'
    BY <1>1, <1>2 DEF LooksHaveRows
  <2>1. CASE NewlyLooking(r, t, i)
    BY <1>1, <2>1 DEF RowBy, Event
  <2>2. CASE ~NewlyLooking(r, t, i)
    <3>1. RowBy(L, r, t, i)
      BY <2>2 DEF LooksHaveRows, NewlyLooking
    <3> QED BY <1>1, <3>1
  <2> QED BY <2>1, <2>2
<1>10. LocationsFollow'
  <2> SUFFICES ASSUME NEW n \in 1..(L + 1), NEW k \in Nat, NEW r, NEW t, NEW i,
                      queue'[n].ev = "geo", k = n - 1, InView(r),
                      r = queue'[n].run, t = queue'[n].target, i = queue'[n].item
               PROVE  RowBy(k, r, t, i)'
    <3>1. \A n \in 1..(L + 1) : n - 1 \in Nat
      BY <1>1
    <3> QED BY <1>2, <1>3, <3>1 DEF LocationsFollow
  <2>1. r \in Runs /\ t \in TargetIds /\ i \in Items
    BY <1>1, <1>4, <1>5
  <2>2. CASE n = L + 1
    BY <1>1, <2>1, <2>2
  <2>3. CASE n \in 1..L
    <3>1. RowBy(k, r, t, i)
      BY <1>1, <1>3, <2>3 DEF LocationsFollow
    <3> QED BY <1>1, <2>1, <2>3, <3>1
  <2> QED BY <1>1, <2>2, <2>3
<1> QED BY <1>1, <1>6, <1>7, <1>8, <1>9, <1>10

-----------------------------------------------------------------------------
(* The other conjuncts.                                                    *)

\* One traceroute changes, the others stay.
LEMMA TracePut ==
  ASSUME TypeOK, NEW r \in Runs, NEW t \in TargetIds, NEW v \in {"running", "settled"},
         trace' = [trace EXCEPT ![r][t] = v]
  PROVE  /\ trace' \in [Runs -> [TargetIds -> {"none", "running", "settled"}]]
         /\ \A p \in Runs, u \in TargetIds :
              trace'[p][u] = IF p = r /\ u = t THEN v ELSE trace[p][u]
         /\ \A p \in Runs : p # r => trace'[p] = trace[p]
BY DEF TypeOK

\* The slots of the semaphore: none is taken, or one that was free.
LEMMA SlotsKept ==
  ASSUME SlotsBounded, \A r \in Runs : Running(r)' \subseteq Running(r)
  PROVE  SlotsBounded'
<1>1. ASSUME NEW r \in Runs PROVE Cardinality(Running(r)') <= Limit
  <2>1. Running(r) \subseteq TargetIds
    BY DEF Running
  <2>2. IsFiniteSet(Running(r)) /\ Cardinality(Running(r)') <= Cardinality(Running(r))
    BY <2>1, FS_Subset, TargetFacts
  <2>3. Cardinality(Running(r)) \in Nat /\ Cardinality(Running(r)') \in Nat
    BY <2>2, FS_Subset, FS_CardinalityType
  <2> QED BY <2>2, <2>3 DEF SlotsBounded
<1> QED BY <1>1 DEF SlotsBounded

LEMMA RunningPut ==
  ASSUME TypeOK, NEW r \in Runs, NEW t \in TargetIds, trace' = [trace EXCEPT ![r][t] = "running"]
  PROVE  /\ Running(r)' = Running(r) \cup {t}
         /\ \A p \in Runs : p # r => Running(p)' = Running(p)
<1>1. \A u \in TargetIds : trace'[r][u] = "running" <=> trace[r][u] = "running" \/ u = t
  <2>1. \A u \in TargetIds : trace'[r][u] = IF u = t THEN "running" ELSE trace[r][u]
    BY DEF TypeOK
  <2> QED BY <2>1
<1>2. \A p \in Runs : p # r => trace'[p] = trace[p]
  BY TracePut
<1> QED BY <1>1, <1>2 DEF Running

LEMMA SlotTaken ==
  ASSUME SlotsBounded, NEW r \in Runs, NEW t \in TargetIds, Cardinality(Running(r)) < Limit,
         Running(r)' = Running(r) \cup {t},
         \A p \in Runs : p # r => Running(p)' = Running(p)
  PROVE  SlotsBounded'
<1>1. IsFiniteSet(Running(r))
  BY FS_Subset, TargetFacts DEF Running
<1>2. /\ IsFiniteSet(Running(r) \cup {t})
      /\ Cardinality(Running(r) \cup {t}) =
           IF t \in Running(r) THEN Cardinality(Running(r)) ELSE Cardinality(Running(r)) + 1
  BY <1>1, FS_AddElement
<1>3. Cardinality(Running(r)) \in Nat /\ Cardinality(Running(r) \cup {t}) \in Nat
  BY <1>1, <1>2, FS_CardinalityType
<1>4. Cardinality(Running(r)') <= Limit
  BY <1>2, <1>3
<1> QED BY <1>4 DEF SlotsBounded

\* What the canceler's operations store keeps its type.
LEMMA OpsTypes ==
  ASSUME Ops!CancelerTypeOK, NEW r \in Runs,
         Ops!Begin(r) \/ Ops!EndCancel(r) \/ Ops!EndClear(r) \/ Ops!Stop
  PROVE  Ops!CancelerTypeOK'
<1>1. CASE Ops!Begin(r)
  BY <1>1 DEF Ops!CancelerTypeOK, Ops!Begin, Ops!CtxAfterCancel
<1>2. CASE Ops!EndCancel(r)
  BY <1>2 DEF Ops!CancelerTypeOK, Ops!EndCancel, Ops!CtxAfterCancel
<1>3. CASE Ops!EndClear(r)
  BY <1>3 DEF Ops!CancelerTypeOK, Ops!EndClear
<1>4. CASE Ops!Stop
  BY <1>4 DEF Ops!CancelerTypeOK, Ops!Stop, Ops!CtxAfterCancel
<1> QED BY <1>1, <1>2, <1>3, <1>4

-----------------------------------------------------------------------------
(* GUI thread.                                                             *)

\* A new operation takes over the view: nothing of its own has been posted yet,
\* and what the old ones post is no longer in view.
LEMMA StartKeeps ==
  ASSUME IInv, NEW r \in Runs, NEW k \in Kinds, Start(r, k)
  PROVE  IInv'
<1> USE DEF IInv, Start, ClearTraces, StartOp, ops
<1>1. TypeOK'
  <2>1. Ops!CancelerTypeOK'
    BY DEF TypeOK, Ops!CancelerTypeOK
  <2>2. hops' \in [TargetIds -> Seq(Rows)]
    OBVIOUS
  <2>3. haveSubs' \in BOOLEAN /\ busy' \in BOOLEAN /\ cancelOn' \in BOOLEAN
    BY DEF TypeOK
  <2> QED BY <2>1, <2>2, <2>3 DEF TypeOK
<1>2. stage[r] = "new" /\ stage' = [stage EXCEPT ![r] = "launched"] /\ latest' = r
  OBVIOUS
<1>3. /\ \A n \in DOMAIN queue : queue[n].run # r
      /\ \A t \in TargetIds : trace[r][t] = "none" /\ \A i \in Items : look[r][t][i] = "none"
  BY <1>2 DEF NothingEarly
<1>4. NothingEarly'
  BY <1>2, <1>3 DEF TypeOK, NothingEarly
<1>5. SettledReported' /\ LooksHaveRows'
  BY <1>3, TargetFacts DEF SettledReported, LooksHaveRows, InView
<1>6. LocationsFollow'
  BY <1>3 DEF LocationsFollow, InView
<1>7. ScanDoneLast'
  <2> SUFFICES ASSUME NEW n \in DOMAIN queue, queue[n].ev = "scanDone"
               PROVE  /\ stage'[queue[n].run] \in Final
                      /\ ~InView(queue[n].run)'
    BY DEF ScanDoneLast, Final
  <2>1. queue[n].run \in Runs /\ queue[n].run # r
    BY <1>3, ClosureFields DEF TypeOK
  <2> QED BY <1>2, <2>1 DEF TypeOK, ScanDoneLast, InView, Final
<1>8. SlotsBounded'
  BY SlotsKept DEF Running
<1>9. CleanStays'
  BY DEF CleanStays
<1> QED BY <1>1, <1>4, <1>5, <1>6, <1>7, <1>8, <1>9

\* Cancel leaves the view alone, and cannot bring back one that was cleaned.
LEMMA CancelKeeps ==
  ASSUME IInv, Cancel
  PROVE  IInv'
<1> USE DEF IInv, Cancel, FinishOp
<1>1. TypeOK'
  <2>1. Ops!CancelerTypeOK' /\ abandoned' \subseteq Runs
    <3>1. CASE fn = NoRun
      BY <3>1 DEF TypeOK, Ops!CancelerTypeOK, StopOps, ops
    <3>2. CASE fn # NoRun
      <4>1. fn \in Runs /\ Ops!Stop /\ abandoned' = abandoned \cup {fn}
        BY <3>2 DEF TypeOK, Ops!CancelerTypeOK, StopOps
      <4> QED BY <4>1, OpsTypes DEF TypeOK
    <3> QED BY <3>1, <3>2
  <2> QED BY <2>1 DEF TypeOK, backend, view
<1>2. Ordered'
  <2>1. MovesOn
    BY DEF MovesOn, backend
  <2>2. \A r \in Runs : InView(r)' => InView(r)
    BY DEF CleanStays, InView
  <2> QED BY <2>1, <2>2, QuietKeeps DEF Ordered, NewlySettled, NewlyLooking, backend, view
<1>3. SlotsBounded'
  BY SlotsKept DEF Running, backend
<1>4. CleanStays'
  BY DEF CleanStays
<1> QED BY <1>1, <1>2, <1>3, <1>4 DEF Ordered

\* After Clean no run is in view.
LEMMA CleanKeeps ==
  ASSUME IInv, Clean
  PROVE  IInv'
<1> USE DEF IInv, Clean, FinishOp, ClearTraces
<1>1. TypeOK'
  <2>1. Ops!CancelerTypeOK' /\ abandoned' \subseteq Runs
    <3>1. CASE fn = NoRun
      BY <3>1 DEF TypeOK, Ops!CancelerTypeOK, StopOps, ops
    <3>2. CASE fn # NoRun
      <4>1. fn \in Runs /\ Ops!Stop /\ abandoned' = abandoned \cup {fn}
        BY <3>2 DEF TypeOK, Ops!CancelerTypeOK, StopOps
      <4> QED BY <4>1, OpsTypes DEF TypeOK
    <3> QED BY <3>1, <3>2
  <2>2. hops' \in [TargetIds -> Seq(Rows)]
    OBVIOUS
  <2>3. haveSubs' = FALSE /\ busy' = FALSE /\ cancelOn' = FALSE
    OBVIOUS
  <2>4. haveSubs' \in BOOLEAN /\ busy' \in BOOLEAN /\ cancelOn' \in BOOLEAN
    BY <2>3
  <2> QED BY <2>1, <2>2, <2>4 DEF TypeOK, backend
<1>2. \A r : ~InView(r)'
  BY DEF InView
<1>3. NothingEarly'
  BY DEF NothingEarly, backend
<1>4. SettledReported' /\ LooksHaveRows' /\ LocationsFollow'
  BY <1>2 DEF SettledReported, LooksHaveRows, LocationsFollow
<1>5. ScanDoneLast'
  BY <1>2 DEF ScanDoneLast, backend
<1>6. SlotsBounded'
  BY SlotsKept DEF Running, backend
<1>7. CleanStays'
  BY DEF CleanStays
<1> QED BY <1>1, <1>3, <1>4, <1>5, <1>6, <1>7

-----------------------------------------------------------------------------
(* The operation goroutine.                                                *)

\* A single trace takes the one slot it needs, a scan none yet.
LEMMA BeginOpKeeps ==
  ASSUME IInv, NEW r \in Runs, BeginOp(r)
  PROVE  IInv'
<1> USE DEF IInv, BeginOp, gui, view
<1>1. \A t \in TargetIds : trace[r][t] = "none"
  BY DEF NothingEarly
<1>2. CASE Single(r)
  <2>1. trace' = [trace EXCEPT ![r][0] = "running"] /\ stage' = [stage EXCEPT ![r] = "tracing"]
    BY <1>2
  <2>2. 0 \in TargetIds
    BY DEF TargetIds
  <2>3. TypeOK'
    BY <2>1, <2>2, TracePut, OpsTypes DEF TypeOK, Ops!CancelerTypeOK
  <2>4. Ordered'
    <3>1. MovesOn
      BY <2>1, <2>2, TracePut DEF TypeOK, MovesOn, Early, Unbegun, Final
    <3>2. \A p \in Runs, t \in Targets : ~NewlySettled(p, t)
      BY <2>1, <2>2, TracePut, TargetFacts DEF NewlySettled
    <3> QED BY <3>1, <3>2, QuietKeeps DEF Ordered, NewlyLooking, InView
  <2>5. SlotsBounded'
    <3>1. Running(r) = {}
      BY <1>1 DEF Running
    <3>2. Running(r)' = Running(r) \cup {0} /\ \A p \in Runs : p # r => Running(p)' = Running(p)
      BY <2>1, <2>2, RunningPut
    <3>3. Cardinality(Running(r)) < Limit
      BY <3>1, FS_EmptySet
    <3> QED BY <2>2, <3>2, <3>3, SlotTaken
  <2> QED BY <2>3, <2>4, <2>5 DEF Ordered, CleanStays
<1>3. CASE ~Single(r)
  <2>1. trace' = trace /\ stage' = [stage EXCEPT ![r] = "preparing"] /\ stage[r] = "launched"
    BY <1>3
  <2>2. TypeOK'
    BY <2>1, OpsTypes DEF TypeOK, Ops!CancelerTypeOK
  <2>3. Ordered'
    <3>1. MovesOn
      BY <2>1 DEF TypeOK, MovesOn, Early, Unbegun, Final
    <3> QED BY <2>1, <3>1, QuietKeeps DEF Ordered, NewlyLooking, NewlySettled, InView
  <2>4. SlotsBounded'
    BY <2>1, SlotsKept DEF Running
  <2> QED BY <2>2, <2>3, <2>4 DEF Ordered, CleanStays
<1> QED BY <1>2, <1>3

\* traceScan takes a free slot for the next target.
LEMMA LaunchKeeps ==
  ASSUME IInv, NEW r \in Runs, NEW t \in Targets, Launch(r, t)
  PROVE  IInv'
<1> USE DEF IInv, Launch, ops, gui, view, history
<1>1. t \in TargetIds /\ trace' = [trace EXCEPT ![r][t] = "running"] /\ stage[r] = "tracing"
  BY TargetFacts
<1>2. TypeOK'
  BY <1>1, TracePut DEF TypeOK, Ops!CancelerTypeOK
<1>3. Ordered'
  <2>1. MovesOn
    BY <1>1, TracePut DEF MovesOn, Early, Unbegun, Final
  <2>2. \A p \in Runs, u \in Targets : ~NewlySettled(p, u)
    BY <1>1, TracePut, TargetFacts DEF NewlySettled
  <2> QED BY <2>1, <2>2, QuietKeeps DEF Ordered, NewlyLooking, InView
<1>4. SlotsBounded'
  <2>1. Running(r)' = Running(r) \cup {t} /\ \A p \in Runs : p # r => Running(p)' = Running(p)
    BY <1>1, RunningPut
  <2> QED BY <1>1, <2>1, SlotTaken
<1> QED BY <1>2, <1>3, <1>4 DEF Ordered, CleanStays

\* The operation goes on and posts nothing.
LEMMA OperationKeeps ==
  ASSUME IInv, NEW r \in Runs, PrepareDone(r) \/ EndCancel(r) \/ EndClear(r)
  PROVE  IInv'
<1> USE DEF IInv, gui, view, history
<1>1. /\ UNCHANGED <<kind, failed, trace, look, queue, gui, history>>
      /\ \/ stage' = stage
         \/ stage[r] \in {"preparing", "discovered"} /\ stage' = [stage EXCEPT ![r] = "tracing"]
         \/ stage[r] = "returning" /\ stage' = [stage EXCEPT ![r] = "ended"]
  BY DEF PrepareDone, EndCancel, EndClear, backend
<1>2. Ops!CancelerTypeOK'
  <2>1. CASE PrepareDone(r)
    BY <2>1 DEF PrepareDone, ops, TypeOK, Ops!CancelerTypeOK
  <2>2. CASE Ops!EndCancel(r) \/ Ops!EndClear(r)
    BY <2>2, OpsTypes DEF TypeOK
  <2> QED BY <2>1, <2>2 DEF EndCancel, EndClear
<1>3. stage' \in [Runs -> {"new", "launched", "preparing", "discovered",
                           "tracing", "returning", "ended", "over"}]
  BY <1>1 DEF TypeOK
<1>4. TypeOK'
  BY <1>1, <1>2, <1>3 DEF TypeOK
<1>5. Ordered'
  <2>1. MovesOn
    BY <1>1 DEF TypeOK, MovesOn, Early, Unbegun, Final
  <2> QED BY <1>1, <2>1, QuietKeeps DEF Ordered, NewlyLooking, NewlySettled, InView
<1>6. SlotsBounded'
  BY <1>1, SlotsKept DEF Running
<1> QED BY <1>1, <1>4, <1>5, <1>6 DEF Ordered, CleanStays

\* The operation posts a closure of its own.
LEMMA ReportKeeps ==
  ASSUME IInv, NEW r \in Runs,
         Discover(r) \/ PrepareFails(r) \/ PrepareCancelled(r) \/ ScanReturns(r) \/ AfterOp(r)
  PROVE  IInv'
<1> USE DEF IInv, gui, view, history
<1>1. /\ UNCHANGED <<ops, kind, trace, look, gui, history>>
      /\ \/ stage[r] \in {"preparing"} /\ stage' = [stage EXCEPT ![r] = "discovered"]
         \/ stage[r] \in {"preparing", "discovered", "tracing"}
              /\ stage' = [stage EXCEPT ![r] = "returning"]
         \/ stage[r] = "ended" /\ stage' = [stage EXCEPT ![r] = "over"]
      /\ failed' \in [Runs -> BOOLEAN]
  BY DEF Discover, PrepareFails, PrepareCancelled, ScanReturns, AfterOp, Return, TypeOK
<1>2. stage' \in [Runs -> {"new", "launched", "preparing", "discovered",
                           "tracing", "returning", "ended", "over"}]
  <2>1. PICK k \in {"discovered", "returning", "over"} : stage' = [stage EXCEPT ![r] = k]
    BY <1>1
  <2> QED BY <2>1 DEF TypeOK
<1>3. MovesOn /\ stage'[r] \notin Unbegun
  BY <1>1 DEF TypeOK, MovesOn, Early, Unbegun, Final
<1>4. Ordered' /\ queue' \in Seq(Closures)
  <2>1. CASE UNCHANGED queue
    BY <1>1, <1>3, <2>1, QuietKeeps DEF Ordered, NewlyLooking, NewlySettled, InView, TypeOK
  <2>2. CASE \E name \in {"subdomains", "error", "afterOp"} : Post(Event(name, r, 0, 0))
    <3>1. PICK name \in {"subdomains", "error", "afterOp"} : Post(Event(name, r, 0, 0))
      BY <2>2
    <3> DEFINE e == Event(name, r, 0, 0)
    <3>2. e \in Closures /\ e.run = r /\ e.ev \notin {"scanDone", "geo"}
      BY DEF Event, Closures, TargetIds
    <3> HIDE DEF e
    <3> QED BY <1>1, <1>3, <3>1, <3>2, PostKeeps
            DEF Ordered, NewlyLooking, NewlySettled, e
  <2>3. CASE Post(Event("scanDone", r, 0, 0)) /\ (PrepareCancelled(r) \/ ScanReturns(r))
    <3> DEFINE e == Event("scanDone", r, 0, 0)
    <3>1. e \in Closures /\ e.run = r /\ e.ev = "scanDone"
      BY DEF Event, Closures, TargetIds
    <3>2. stage'[r] \in Final
      BY <2>3 DEF PrepareCancelled, ScanReturns, Return, TypeOK, Final
    <3>3. \/ \A t \in TargetIds : trace[r][t] = "none"
          \/ InView(r) => \A t \in Targets : SettledBy(Len(queue), t)
      <4>1. CASE PrepareCancelled(r)
        BY <4>1, NothingYet DEF PrepareCancelled, Early
      <4>2. CASE ScanReturns(r)
        BY <4>2 DEF ScanReturns, SettledReported
      <4> QED BY <2>3, <4>1, <4>2
    <3> HIDE DEF e
    <3> QED BY <1>1, <1>3, <2>3, <3>1, <3>2, <3>3, PostKeeps
            DEF Ordered, NewlyLooking, NewlySettled, e
  <2> QED BY <2>1, <2>2, <2>3
          DEF Discover, PrepareFails, PrepareCancelled, ScanReturns, AfterOp
<1>5. TypeOK'
  BY <1>1, <1>2, <1>4 DEF TypeOK, Ops!CancelerTypeOK, ops
<1>6. SlotsBounded'
  BY <1>1, SlotsKept DEF Running
<1> QED BY <1>1, <1>4, <1>5, <1>6 DEF Ordered, CleanStays

-----------------------------------------------------------------------------
(* The traces and the geolocation goroutines.                              *)

\* runTrace's observer: the hop is posted before its lookup starts.
LEMMA EmitKeeps ==
  ASSUME IInv, NEW r \in Runs, NEW t \in TargetIds, NEW i \in Items, NEW responded \in BOOLEAN,
         Emit(r, t, i, responded)
  PROVE  IInv'
<1> USE DEF IInv, gui, view, history
<1> DEFINE e == Event(IF i = 0 THEN "target" ELSE IF responded THEN "hop" ELSE "silent", r, t, i)
           v == IF responded THEN "lookup" ELSE "silent"
<1>1. /\ UNCHANGED <<ops, kind, stage, failed, trace, gui, history>> /\ Post(e)
      /\ look' = [look EXCEPT ![r][t][i] = v] /\ v \in {"silent", "lookup"}
      /\ trace[r][t] = "running"
  BY DEF Emit
<1>2. e \in Closures /\ e.run = r /\ e.ev \notin {"scanDone", "geo"}
  BY DEF Event, Closures, ItemEvents
<1>3. v = "lookup" /\ i > 0 => e = Event("hop", r, t, i)
  BY DEF Event
<1> HIDE DEF e, v
<1>4. stage[r] \notin Early
  BY <1>1, NothingYet
<1>5. /\ \A p \in Runs : p # r => look'[p] = look[p]
      /\ \A p \in Runs, u \in TargetIds, j \in Items :
           NewlyLooking(p, u, j) => p = r /\ u = t /\ j = i /\ v = "lookup"
      /\ look' \in [Runs -> [TargetIds -> [Items ->
                      {"none", "silent", "lookup", "ready", "sent", "dropped"}]]]
  <2>0. TypeOK /\ v \in {"silent", "lookup", "ready", "sent", "dropped"}
        /\ look' = [look EXCEPT ![r][t][i] = v]
    BY <1>1
  <2>1. /\ \A p \in Runs, u \in TargetIds, j \in Items :
               look'[p][u][j] = IF p = r /\ u = t /\ j = i THEN v ELSE look[p][u][j]
        /\ \A p \in Runs : p # r => look'[p] = look[p]
        /\ look' \in [Runs -> [TargetIds -> [Items ->
                        {"none", "silent", "lookup", "ready", "sent", "dropped"}]]]
    <3> HIDE DEF IInv
    <3> QED BY <2>0 DEF TypeOK
  <2> QED BY <1>1, <2>1 DEF NewlyLooking
<1>6. MovesOn
  BY <1>1, <1>4, <1>5 DEF MovesOn, Early
<1>7. Ordered' /\ queue' \in Seq(Closures)
  <2>1. stage'[e.run] \notin Unbegun
    BY <1>1, <1>2, <1>4 DEF Early
  <2>2. \A p \in Runs, u \in Targets : ~NewlySettled(p, u)
    BY <1>1 DEF NewlySettled
  <2>3. \A p \in Runs, u \in TargetIds, j \in Items :
          NewlyLooking(p, u, j) /\ j > 0 => e = Event("hop", p, u, j)
    BY <1>3, <1>5
  <2> QED BY <1>1, <1>2, <1>6, <2>1, <2>2, <2>3, PostKeeps DEF Ordered
<1>8. TypeOK'
  BY <1>1, <1>5, <1>7 DEF TypeOK, Ops!CancelerTypeOK, ops
<1>9. SlotsBounded'
  BY <1>1, SlotsKept DEF Running
<1> QED BY <1>1, <1>7, <1>8, <1>9 DEF Ordered, CleanStays

\* runTrace ends: its done or error is posted in the same step.
LEMMA SettleKeeps ==
  ASSUME IInv, NEW r \in Runs, NEW t \in TargetIds, NEW error \in BOOLEAN, Settle(r, t, error)
  PROVE  IInv'
<1> USE DEF IInv, gui, view, history
<1> DEFINE e == Event(IF error THEN "error" ELSE "done", r, t, 0)
<1>1. /\ UNCHANGED <<ops, kind, look, gui, history>> /\ Post(e)
      /\ trace' = [trace EXCEPT ![r][t] = "settled"]
      /\ trace[r][t] = "running"
      /\ stage' = stage \/ stage' = [stage EXCEPT ![r] = "returning"]
      /\ failed' \in [Runs -> BOOLEAN]
  BY DEF Settle, Return, TypeOK
<1>2. e \in Closures /\ e.run = r /\ e.target = t /\ e.ev \in {"done", "error"}
  BY DEF Event, Closures
<1> HIDE DEF e
<1>3. stage[r] \notin Early
  BY <1>1, NothingYet
<1>4. /\ \A p \in Runs : p # r => trace'[p] = trace[p]
      /\ \A p \in Runs, u \in TargetIds : NewlySettled(p, u) => p = r /\ u = t
      /\ \A p \in Runs, u \in TargetIds : trace[p][u] = "none" => trace'[p][u] = "none"
      /\ \A p \in Runs, u \in TargetIds : trace'[p][u] = "running" => trace[p][u] = "running"
      /\ trace' \in [Runs -> [TargetIds -> {"none", "running", "settled"}]]
  <2>0. TypeOK /\ trace' = [trace EXCEPT ![r][t] = "settled"]
    BY <1>1
  <2>1. /\ \A p \in Runs, u \in TargetIds :
               trace'[p][u] = IF p = r /\ u = t THEN "settled" ELSE trace[p][u]
        /\ \A p \in Runs : p # r => trace'[p] = trace[p]
        /\ trace' \in [Runs -> [TargetIds -> {"none", "running", "settled"}]]
    <3> HIDE DEF IInv
    <3> QED BY <2>0 DEF TypeOK
  <2> QED BY <1>1, <2>1 DEF NewlySettled
<1>5. MovesOn
  BY <1>1, <1>3, <1>4 DEF TypeOK, MovesOn, Early, Unbegun, Final
<1>6. Ordered' /\ queue' \in Seq(Closures)
  <2>1. stage'[e.run] \notin Unbegun
    BY <1>1, <1>2, <1>3 DEF TypeOK, Early, Unbegun
  <2>2. \A p \in Runs, u \in TargetIds, j \in Items : ~NewlyLooking(p, u, j)
    BY <1>1 DEF NewlyLooking
  <2> QED BY <1>1, <1>2, <1>4, <1>5, <2>1, <2>2, TargetFacts, PostKeeps DEF Ordered
<1>7. TypeOK'
  <2>1. stage' \in [Runs -> {"new", "launched", "preparing", "discovered",
                             "tracing", "returning", "ended", "over"}]
    BY <1>1 DEF TypeOK
  <2> QED BY <1>1, <1>4, <1>6, <2>1 DEF TypeOK, Ops!CancelerTypeOK, ops
<1>8. SlotsBounded'
  BY <1>4, SlotsKept DEF Running
<1> QED BY <1>1, <1>6, <1>7, <1>8 DEF Ordered, CleanStays

\* The geolocation goroutines.
LEMMA ResolveKeeps ==
  ASSUME IInv, NEW r \in Runs, NEW t \in TargetIds, NEW i \in Items,
         ResolveOK(r, t, i) \/ ResolveFails(r, t, i)
  PROVE  IInv'
<1> USE DEF IInv, gui, view, history
<1>1. PICK v \in {"ready", "dropped"} : look' = [look EXCEPT ![r][t][i] = v]
  BY DEF ResolveOK, ResolveFails
<1>2. UNCHANGED <<ops, kind, stage, failed, trace, queue, gui, history>> /\ look[r][t][i] = "lookup"
  BY DEF ResolveOK, ResolveFails
<1>3. stage[r] \notin Early
  BY <1>2, NothingYet
<1>4. /\ \A p \in Runs : p # r => look'[p] = look[p]
      /\ \A p \in Runs, u \in TargetIds, j \in Items : ~NewlyLooking(p, u, j)
      /\ look' \in [Runs -> [TargetIds -> [Items ->
                      {"none", "silent", "lookup", "ready", "sent", "dropped"}]]]
  <2>0. TypeOK /\ v \in {"silent", "lookup", "ready", "sent", "dropped"}
        /\ look' = [look EXCEPT ![r][t][i] = v]
    BY <1>1
  <2>1. /\ \A p \in Runs, u \in TargetIds, j \in Items :
               look'[p][u][j] = IF p = r /\ u = t /\ j = i THEN v ELSE look[p][u][j]
        /\ \A p \in Runs : p # r => look'[p] = look[p]
        /\ look' \in [Runs -> [TargetIds -> [Items ->
                        {"none", "silent", "lookup", "ready", "sent", "dropped"}]]]
    <3> HIDE DEF IInv
    <3> QED BY <2>0 DEF TypeOK
  <2> QED BY <1>1, <1>2, <2>1 DEF NewlyLooking
<1>5. MovesOn
  BY <1>2, <1>3, <1>4 DEF MovesOn, Early
<1>6. Ordered'
  BY <1>2, <1>4, <1>5, QuietKeeps DEF Ordered, NewlySettled, InView
<1>7. TypeOK'
  BY <1>2, <1>4 DEF TypeOK, Ops!CancelerTypeOK, ops
<1>8. SlotsBounded'
  BY <1>2, SlotsKept DEF Running
<1> QED BY <1>2, <1>6, <1>7, <1>8 DEF Ordered, CleanStays

LEMMA EmitGeoKeeps ==
  ASSUME IInv, NEW r \in Runs, NEW t \in TargetIds, NEW i \in Items, EmitGeo(r, t, i)
  PROVE  IInv'
<1> USE DEF IInv, gui, view, history
<1> DEFINE e == Event(IF i = 0 THEN "targetGeo" ELSE "geo", r, t, i)
<1>1. /\ UNCHANGED <<ops, kind, stage, failed, trace, gui, history>> /\ Post(e)
      /\ look' = [look EXCEPT ![r][t][i] = "sent"] /\ look[r][t][i] = "ready"
  BY DEF EmitGeo
<1>2. /\ e \in Closures /\ e.run = r /\ e.target = t /\ e.item = i
      /\ e.ev # "scanDone" /\ (e.ev = "geo" => i # 0)
  BY DEF Event, Closures, ItemEvents
<1> HIDE DEF e
<1>3. stage[r] \notin Early
  BY <1>1, NothingYet
<1>4. /\ \A p \in Runs : p # r => look'[p] = look[p]
      /\ \A p \in Runs, u \in TargetIds, j \in Items : ~NewlyLooking(p, u, j)
      /\ look' \in [Runs -> [TargetIds -> [Items ->
                      {"none", "silent", "lookup", "ready", "sent", "dropped"}]]]
  <2>0. TypeOK /\ "sent" \in {"silent", "lookup", "ready", "sent", "dropped"}
        /\ look' = [look EXCEPT ![r][t][i] = "sent"]
    BY <1>1
  <2>1. /\ \A p \in Runs, u \in TargetIds, j \in Items :
               look'[p][u][j] = IF p = r /\ u = t /\ j = i THEN "sent" ELSE look[p][u][j]
        /\ \A p \in Runs : p # r => look'[p] = look[p]
        /\ look' \in [Runs -> [TargetIds -> [Items ->
                        {"none", "silent", "lookup", "ready", "sent", "dropped"}]]]
    <3> HIDE DEF IInv
    <3> QED BY <2>0 DEF TypeOK
  <2> QED BY <1>1, <2>1 DEF NewlyLooking
<1>5. MovesOn
  BY <1>1, <1>3, <1>4 DEF MovesOn, Early
<1>6. Ordered' /\ queue' \in Seq(Closures)
  <2>1. stage'[e.run] \notin Unbegun
    BY <1>1, <1>2, <1>3 DEF Early
  <2>2. e.ev = "geo" /\ InView(e.run) => RowBy(Len(queue), e.run, e.target, e.item)
    BY <1>1, <1>2 DEF LooksHaveRows
  <2>3. \A p \in Runs, u \in Targets : ~NewlySettled(p, u)
    BY <1>1 DEF NewlySettled
  <2> QED BY <1>1, <1>2, <1>4, <1>5, <2>1, <2>2, <2>3, PostKeeps DEF Ordered
<1>7. TypeOK'
  BY <1>1, <1>4, <1>6 DEF TypeOK, Ops!CancelerTypeOK, ops
<1>8. SlotsBounded'
  BY <1>1, SlotsKept DEF Running
<1> QED BY <1>1, <1>6, <1>7, <1>8 DEF Ordered, CleanStays

-----------------------------------------------------------------------------
(* The GUI thread takes the first closure.                                 *)

\* The first closure leaves the queue for the view.
LEMMA HandleKeeps ==
  ASSUME IInv, Handle
  PROVE  IInv'
<1> USE DEF IInv
<1> PICK L : L = Len(queue)
  OBVIOUS
<1>1. UNCHANGED <<ops, backend, history>>
  BY DEF Handle
<1>2. /\ queue' \in Seq(Closures) /\ L \in Nat /\ L > 0 /\ Len(queue') = L - 1
      /\ \A n \in 1..(L - 1) : queue'[n] = queue[n + 1]
      /\ queue \in Seq(Closures) /\ queue[1] = Head(queue)
  BY QueueShrinks DEF TypeOK
<1>3. DOMAIN queue = 1..L /\ DOMAIN queue' = 1..(L - 1)
  BY <1>2
<1>4. \A n \in 1..L : queue[n].run \in Runs /\ queue[n].target \in TargetIds
                      /\ (queue[n].ev = "geo" => queue[n].item \in Items)
  BY <1>3, ClosureFields, <1>2 DEF ItemEvents
<1>5. ASSUME NEW n \in 1..L, NEW m, m = n - 1, NEW t \in Targets, SettledBy(n, t)
      PROVE  SettledBy(m, t)'
  <2>1. CASE t \in settled
    BY <2>1, SettledStays DEF SettledBy
  <2>2. ASSUME NEW k \in 1..n, queue[k].ev \in {"done", "error"}, queue[k].target = t
        PROVE  SettledBy(m, t)'
    <3>1. CASE k = 1
      BY <2>2, <3>1, SettledStays DEF SettledBy
    <3>2. CASE k # 1
      <4>1. k - 1 \in 1..m /\ k - 1 \in 1..(L - 1) /\ (k - 1) + 1 = k
        BY <1>2, <1>5, <3>2
      <4>2. queue'[k - 1] = queue[k]
        BY <1>2, <4>1
      <4> QED BY <2>2, <4>1, <4>2 DEF SettledBy
    <3> QED BY <3>1, <3>2
  <2> QED BY <1>5, <2>1, <2>2 DEF SettledBy
<1>6. ASSUME NEW n \in 1..L, NEW m, m = n - 1, NEW r \in Runs, NEW t \in TargetIds, NEW i \in Items,
             RowBy(n, r, t, i)
      PROVE  RowBy(m, r, t, i)'
  <2>1. CASE HasRow(r, t, i)
    BY <2>1, RowsStay DEF RowBy
  <2>2. ASSUME NEW k \in 1..n, queue[k] = Event("hop", r, t, i)
        PROVE  RowBy(m, r, t, i)'
    <3>1. CASE k = 1
      BY <2>2, <3>1, RowsStay DEF RowBy
    <3>2. CASE k # 1
      <4>1. k - 1 \in 1..m /\ k - 1 \in 1..(L - 1) /\ (k - 1) + 1 = k
        BY <1>2, <1>6, <3>2
      <4>2. queue'[k - 1] = queue[k]
        BY <1>2, <4>1
      <4> QED BY <2>2, <4>1, <4>2 DEF RowBy, Event
    <3> QED BY <3>1, <3>2
  <2> QED BY <1>6, <2>1, <2>2 DEF RowBy
<1>7. \A r : InView(r)' <=> InView(r)
  BY <1>1 DEF InView, history
<1>8. TypeOK'
  <2>1. busy' \in BOOLEAN /\ cancelOn' \in BOOLEAN /\ haveSubs' \in BOOLEAN
    <3> DEFINE e == Head(queue)
    <3>1. /\ busy' = busy \/ busy' = FALSE
          /\ cancelOn' = cancelOn \/ cancelOn' = FALSE
          /\ haveSubs' = haveSubs \/ haveSubs' = TRUE
      BY DEF Handle, OnHop, OnGeo, OnTarget, OnDone, OnError, OnFinished, OnSubdomains,
             FinishOp, view
    <3> QED BY <3>1 DEF TypeOK
  <2> QED BY <1>1, <1>2, <2>1, RowsStay, SettledStays DEF TypeOK, Ops!CancelerTypeOK, ops, backend, history
<1>9. NothingEarly'
  <2> SUFFICES ASSUME NEW r \in Runs, stage[r] \in Unbegun, NEW n \in 1..(L - 1)
               PROVE  queue'[n].run # r
    BY <1>1, <1>3 DEF NothingEarly, backend, Unbegun
  <2> QED BY <1>2, <1>3, NothingYet
<1>10. SettledReported'
  <2> SUFFICES ASSUME NEW r \in Runs, NEW t \in Targets, InView(r), trace[r][t] = "settled",
                      NEW m, m = L - 1
               PROVE  SettledBy(m, t)'
    BY <1>1, <1>2, <1>7 DEF SettledReported, backend
  <2>1. SettledBy(L, t)
    BY DEF SettledReported
  <2> QED BY <1>2, <1>5, <2>1
<1>11. ScanDoneLast'
  <2> SUFFICES ASSUME NEW n \in 1..(L - 1), NEW k \in 1..L, k = n + 1, NEW r,
                      queue[k].ev = "scanDone", r = queue[k].run
               PROVE  /\ stage[r] \in Final
                      /\ \/ \A t \in TargetIds : trace[r][t] = "none"
                         \/ InView(r) => \A t \in Targets : SettledBy(n - 1, t)'
    <3>1. \A n \in 1..(L - 1) : n + 1 \in 1..L
      BY <1>2
    <3> QED BY <1>1, <1>2, <1>3, <1>7, <3>1 DEF ScanDoneLast, backend, Final
  <2>1. /\ stage[r] \in Final
        /\ \/ \A t \in TargetIds : trace[r][t] = "none"
           \/ InView(r) => \A t \in Targets : SettledBy(k - 1, t)
    BY <1>3 DEF ScanDoneLast, Final
  <2>2. n \in 1..L /\ k - 1 = n
    BY <1>2
  <2> QED BY <1>5, <2>1, <2>2
<1>12. LooksHaveRows'
  <2> SUFFICES ASSUME NEW r \in Runs, NEW t \in TargetIds, NEW i \in Items, InView(r), i > 0,
                      look[r][t][i] \in {"lookup", "ready"}, NEW m, m = L - 1
               PROVE  RowBy(m, r, t, i)'
    BY <1>1, <1>2, <1>7 DEF LooksHaveRows, backend
  <2>1. RowBy(L, r, t, i)
    BY DEF LooksHaveRows
  <2> QED BY <1>2, <1>6, <2>1
<1>13. LocationsFollow'
  <2> SUFFICES ASSUME NEW n \in 1..(L - 1), NEW k \in 1..L, k = n + 1, NEW m, m = n - 1,
                      NEW r, NEW t, NEW i, queue[k].ev = "geo", InView(r),
                      r = queue[k].run, t = queue[k].target, i = queue[k].item
               PROVE  RowBy(m, r, t, i)'
    <3>1. \A n \in 1..(L - 1) : n + 1 \in 1..L
      BY <1>2
    <3> QED BY <1>2, <1>3, <1>7, <3>1 DEF LocationsFollow
  <2>1. r \in Runs /\ t \in TargetIds /\ i \in Items
    BY <1>4
  <2>2. n \in 1..L /\ k - 1 = n
    BY <1>2
  <2>3. RowBy(n, r, t, i)
    BY <1>3, <2>2 DEF LocationsFollow
  <2> QED BY <1>6, <2>1, <2>2, <2>3
<1>14. SlotsBounded'
  BY <1>1, SlotsKept DEF Running, backend
<1>15. CleanStays'
  BY <1>1 DEF CleanStays, history, Handle, OnHop, OnGeo, OnTarget, OnDone, OnError, OnFinished,
              OnSubdomains, FinishOp, view
<1> QED BY <1>8, <1>9, <1>10, <1>11, <1>12, <1>13, <1>14, <1>15

-----------------------------------------------------------------------------
\* Every step keeps the invariant.
LEMMA StutterKeeps ==
  ASSUME IInv, UNCHANGED vars
  PROVE  IInv'
<1> USE DEF IInv, vars, ops, backend, gui, view, history
<1>1. Ordered'
  <2>1. MovesOn
    BY DEF MovesOn
  <2> QED BY <2>1, QuietKeeps DEF Ordered, NewlyLooking, NewlySettled, InView
<1>2. TypeOK'
  BY DEF TypeOK, Ops!CancelerTypeOK
<1>3. SlotsBounded'
  BY SlotsKept DEF Running
<1> QED BY <1>1, <1>2, <1>3 DEF Ordered, CleanStays

LEMMA StepKeeps ==
  ASSUME IInv, [Next]_vars
  PROVE  IInv'
<1>1. CASE User
  BY <1>1, StartKeeps, CancelKeeps, CleanKeeps DEF User
<1>2. ASSUME NEW r \in Runs, Operation(r) PROVE IInv'
  BY <1>2, BeginOpKeeps, ReportKeeps, OperationKeeps, LaunchKeeps DEF Operation
<1>3. ASSUME NEW r \in Runs, NEW t \in TargetIds, Traceroute(r, t) PROVE IInv'
  BY <1>3, EmitKeeps, SettleKeeps DEF Traceroute
<1>4. ASSUME NEW r \in Runs, NEW t \in TargetIds, NEW i \in Items, Geolocation(r, t, i) PROVE IInv'
  BY <1>4, ResolveKeeps, EmitGeoKeeps DEF Geolocation
<1>5. CASE UNCHANGED vars
  BY <1>5, StutterKeeps
<1> QED BY <1>1, <1>2, <1>3, <1>4, <1>5, HandleKeeps DEF Next

LEMMA InitKeeps == Init => IInv
<1> SUFFICES ASSUME Init PROVE IInv
  OBVIOUS
<1> USE DEF Init
<1>1. TypeOK
  <2>1. Ops!CancelerTypeOK
    BY DEF Ops!CancelerInit, Ops!CancelerTypeOK
  <2>2. hops \in [TargetIds -> Seq(Rows)] /\ queue \in Seq(Closures)
    OBVIOUS
  <2>3. busy = FALSE /\ cancelOn = FALSE /\ haveSubs = FALSE
    OBVIOUS
  <2>4. busy \in BOOLEAN /\ cancelOn \in BOOLEAN /\ haveSubs \in BOOLEAN
    BY <2>3
  <2>5. failed \in [Runs -> BOOLEAN]
    OBVIOUS
  <2> QED BY <2>1, <2>2, <2>4, <2>5 DEF TypeOK
<1>2. NothingEarly /\ SettledReported /\ ScanDoneLast /\ LooksHaveRows /\ LocationsFollow
  BY TargetFacts DEF NothingEarly, SettledReported, ScanDoneLast, LooksHaveRows, LocationsFollow
<1>3. SlotsBounded
  <2>1. \A r \in Runs : Running(r) = {}
    BY DEF Running
  <2>2. Cardinality({}) <= Limit
    BY FS_EmptySet
  <2> QED BY <2>1, <2>2 DEF SlotsBounded
<1>4. CleanStays
  BY DEF CleanStays
<1> QED BY <1>1, <1>2, <1>3, <1>4 DEF IInv

\* IInv holds in every reachable state: every variable keeps its type, a slot is
\* held by a running trace only, and the queue delivers in the order in which it
\* was filled, whatever the GUI has handled so far.
THEOREM Invariance == Spec => []IInv
<1>1. IInv /\ [Next]_vars => IInv'
  BY StepKeeps
<1> QED BY InitKeeps, <1>1, PTL DEF Spec

-----------------------------------------------------------------------------
\* Whatever the user clicks, the shared canceler sees begin, the two halves of end
\* and stop, nothing else.
LEMMA StepIsOps ==
  ASSUME [Next]_vars
  PROVE  [Ops!CancelerNext]_(Ops!cancelerVars)
<1> USE DEF Ops!cancelerVars, ops
<1>1. CASE User
  BY <1>1 DEF User, Start, Cancel, Clean, StopOps, Ops!CancelerNext
<1>2. ASSUME NEW r \in Runs, Operation(r) PROVE [Ops!CancelerNext]_(Ops!cancelerVars)
  BY <1>2 DEF Operation, BeginOp, Discover, PrepareFails, PrepareCancelled, PrepareDone, ScanReturns,
              EndCancel, EndClear, AfterOp, Launch, Ops!CancelerNext
<1>3. ASSUME NEW r \in Runs, NEW t \in TargetIds, Traceroute(r, t) PROVE [Ops!CancelerNext]_(Ops!cancelerVars)
  BY <1>3 DEF Traceroute, Emit, Settle
<1>4. ASSUME NEW r \in Runs, NEW t \in TargetIds, NEW i \in Items, Geolocation(r, t, i)
      PROVE  [Ops!CancelerNext]_(Ops!cancelerVars)
  BY <1>4 DEF Geolocation, ResolveOK, ResolveFails, EmitGeo
<1>5. CASE Handle \/ UNCHANGED vars
  BY <1>5 DEF Handle, vars
<1> QED BY <1>1, <1>2, <1>3, <1>4, <1>5 DEF Next

LEMMA UsesCanceler == Spec => Ops!CancelerSpec
<1>1. Init => Ops!CancelerInit
  BY DEF Init
<1>2. [Next]_vars => [Ops!CancelerNext]_(Ops!cancelerVars)
  BY StepIsOps
<1> QED BY <1>1, <1>2, PTL DEF Spec, Ops!CancelerSpec

\* So what CancelerProofs shows of the canceler holds here.
LEMMA OneLive == Ops!CancelerSpec => []Ops!SingleLive
<1>1. Ops!CancelerInit => OpsP!CancelerInit
  BY DEF Ops!CancelerInit, OpsP!CancelerInit
<1>2. [Ops!CancelerNext]_(Ops!cancelerVars) => [OpsP!CancelerNext]_(OpsP!cancelerVars)
  BY DEF Ops!CancelerNext, OpsP!CancelerNext, Ops!cancelerVars, OpsP!cancelerVars, Ops!Begin, OpsP!Begin, Ops!Stop, OpsP!Stop,
         Ops!EndCancel, OpsP!EndCancel, Ops!EndClear, OpsP!EndClear,
         Ops!CtxAfterCancel, OpsP!CtxAfterCancel
<1>3. OpsP!SingleLive => Ops!SingleLive
  BY DEF Ops!SingleLive, OpsP!SingleLive
<1>4. OpsP!CancelerSpec => []OpsP!SingleLive
  BY OpsP!OneLiveRun
<1> QED BY <1>1, <1>2, <1>3, <1>4, PTL DEF Ops!CancelerSpec, OpsP!CancelerSpec

LEMMA LiveTraces == IInv /\ Ops!SingleLive => LiveTracesBounded
<1> SUFFICES ASSUME IInv, Ops!SingleLive PROVE LiveTracesBounded
  OBVIOUS
<1> DEFINE T == {p \in Runs \X TargetIds : Live(p[1]) /\ p[2] \in Running(p[1])}
<1>1. CASE T = {}
  BY <1>1, FS_EmptySet DEF LiveTracesBounded, IInv
<1>2. CASE T # {}
  <2>1. PICK r \in Runs : Live(r)
    BY <1>2
  <2>2. \A p \in T : p = <<r, p[2]>> /\ p[2] \in Running(r)
    BY <2>1 DEF Ops!SingleLive, Live
  <2>3. IsFiniteSet(Running(r)) /\ Cardinality(Running(r)) \in Nat /\ Cardinality(Running(r)) <= Limit
    BY FS_Subset, FS_CardinalityType, TargetFacts DEF Running, IInv, SlotsBounded
  <2> DEFINE f == [p \in T |-> p[2]]
  <2>4. f \in Injection(T, Running(r))
    BY <2>2 DEF Injection, IsInjective
  <2> HIDE DEF T, f
  <2>5. IsFiniteSet(T) /\ Cardinality(T) <= Cardinality(Running(r))
    BY <2>3, <2>4, FS_Injection
  <2>6. Cardinality(T) \in Nat
    BY <2>5, FS_CardinalityType
  <2>7. Cardinality(T) <= Limit
    BY <2>3, <2>5, <2>6
  <2> QED BY <2>7 DEF T, LiveTracesBounded, IInv
<1> QED BY <1>1, <1>2

\* scanConcurrency (src/app.go) bounds the traceroutes with a usable context over
\* all runs together, since begin cancels the run it replaces.
THEOREM FewTracesLive == Spec => []LiveTracesBounded
BY Invariance, UsesCanceler, OneLive, LiveTraces, PTL

-----------------------------------------------------------------------------
\* "Scan complete" in the status bar: every target is settled by then.
THEOREM CompleteIsSettled == Spec => CompleteMeansSettled
<1>1. ASSUME IInv, Handles("scanDone"),
             InView(Head(queue).run),
             Running(Head(queue).run)
               \cup {t \in Targets : trace[Head(queue).run][t] = "settled"} # {}
      PROVE  Targets \subseteq settled
  <2> DEFINE r == Head(queue).run
  <2>1. queue \in Seq(Closures) /\ queue # <<>> /\ Head(queue).ev = "scanDone"
    BY <1>1 DEF IInv, TypeOK, Handles
  <2>2. 1 \in DOMAIN queue /\ queue[1] = Head(queue)
    BY <2>1
  <2>3. \E t \in TargetIds : trace[r][t] # "none"
    BY <1>1, TargetFacts DEF Running
  <2>4. \A t \in Targets : SettledBy(1 - 1, t)
    BY <1>1, <2>1, <2>2, <2>3 DEF IInv, ScanDoneLast
  <2> QED BY <2>4 DEF SettledBy
<1>2. ASSUME IInv, Next, Handles("scanDone") PROVE settled \subseteq settled'
  <2>1. CASE Handle
    BY <1>2, <2>1, SettledStays DEF IInv
  <2>3. ~ \E r \in Runs, k \in Kinds : Start(r, k)
    BY <1>2 DEF Start, Handles, IInv, TypeOK
  <2>4. ~Clean
    BY <1>2 DEF Clean, Handles, IInv, TypeOK
  <2>2. CASE Cancel
    BY <2>2 DEF Cancel, view
  <2>6. CASE \E r \in Runs : Operation(r)
    BY <2>6 DEF Operation, BeginOp, Discover, PrepareFails, PrepareCancelled, PrepareDone,
                ScanReturns, EndCancel, EndClear, AfterOp, Launch, gui, view
  <2>7. CASE \E r \in Runs, t \in TargetIds : Traceroute(r, t)
    BY <2>7 DEF Traceroute, Emit, Settle, gui, view
  <2>8. CASE \E r \in Runs, t \in TargetIds, i \in Items : Geolocation(r, t, i)
    BY <2>8 DEF Geolocation, ResolveOK, ResolveFails, EmitGeo, gui, view
  <2> QED BY <1>2, <2>1, <2>2, <2>3, <2>4, <2>6, <2>7, <2>8 DEF Next, User
<1>3. IInv /\ [Next]_vars =>
        [ Handles("scanDone") =>
            LET r == Head(queue).run
            IN InView(r) /\ Running(r) \cup {t \in Targets : trace[r][t] = "settled"} # {}
                 => Targets \subseteq settled' ]_vars
  BY <1>1, <1>2
<1> QED BY <1>3, Invariance, PTL DEF Spec, CompleteMeansSettled

\* Only the GUI thread takes closures from the queue.
LEMMA OnlyHandleTakes ==
  ASSUME TypeOK, Next, queue # <<>>, queue' = Tail(queue)
  PROVE  Handle
<1>0. /\ Len(queue) \in Nat /\ Len(queue') = Len(queue) - 1
      /\ Len(queue') # Len(queue) /\ Len(queue') # Len(queue) + 1
  BY DEF TypeOK
<1>1. \A e : ~Post(e)
  <2> SUFFICES ASSUME NEW e, queue' = Append(queue, e) PROVE FALSE
    BY DEF Post
  <2>1. queue \in Seq(Closures \cup {e})
    BY DEF TypeOK
  <2>2. Len(Append(queue, e)) = Len(queue) + 1
    BY <2>1
  <2> QED BY <1>0, <2>2
<1>2. ~User
  BY <1>0 DEF User, Start, Cancel, Clean
<1>3. ASSUME NEW r \in Runs, Operation(r) PROVE FALSE
  BY <1>0, <1>1, <1>3 DEF Operation, BeginOp, Discover, PrepareFails, PrepareCancelled,
       PrepareDone, ScanReturns, EndCancel, EndClear, AfterOp, Launch
<1>4. ASSUME NEW r \in Runs, NEW t \in TargetIds, Traceroute(r, t) PROVE FALSE
  BY <1>1, <1>4 DEF Traceroute, Emit, Settle
<1>5. ASSUME NEW r \in Runs, NEW t \in TargetIds, NEW i \in Items, Geolocation(r, t, i)
      PROVE  FALSE
  BY <1>0, <1>1, <1>5 DEF Geolocation, ResolveOK, ResolveFails, EmitGeo
<1> QED BY <1>2, <1>3, <1>4, <1>5 DEF Next

\* Every set of numbers has a smallest one.
LEMMA LeastOf ==
  ASSUME NEW D \in SUBSET Nat, D # {} PROVE \E d \in D : \A e \in D : d <= e
<1>1. PICK d \in D : \A e \in D : ~(<<e, d>> \in OpToRel(<, Nat))
  BY WFMin, NatLessThanWellFounded
<1>2. \A e \in D : ~(e < d)
  BY <1>1 DEF OpToRel
<1> QED BY <1>2

\* onGeo, with a row of the event's own run and hop and no rival: the first row
\* with the hop's number is one of that run.
LEMMA FirstRowIsOwn ==
  ASSUME TypeOK, NEW e \in Closures, OnGeo(e), HasRow(e.run, e.target, e.item), Rivals(e) = {}
  PROVE  \E n \in DOMAIN hops[e.target] :
           /\ hops[e.target][n].hop = e.item /\ hops[e.target][n].run = e.run
           /\ hops' = [hops EXCEPT ![e.target][n].geo = e.run]
<1> DEFINE row == hops[e.target]
           match == {n \in DOMAIN row : row[n].hop = e.item}
           First(n) == n \in match /\ \A m \in match : n <= m
<1>1. match # {} /\ match \subseteq Nat
  <2>1. row \in Seq(Rows)
    BY ClosureFields DEF TypeOK
  <2> QED BY <2>1 DEF HasRow
<1>2. PICK n \in match : \A m \in match : n <= m
  BY <1>1, LeastOf
<1>3. First(CHOOSE k \in match : \A m \in match : k <= m)
  BY <1>2
<1>4. hops' = [hops EXCEPT ![e.target]
                  [CHOOSE k \in match : \A m \in match : k <= m].geo = e.run]
  BY <1>1 DEF OnGeo
<1>5. PICK k : First(k) /\ hops' = [hops EXCEPT ![e.target][k].geo = e.run]
  BY <1>3, <1>4
<1>6. k \in DOMAIN row /\ row[k].hop = e.item /\ row[k].run = e.run
  BY <1>5 DEF Rivals
<1> QED BY <1>5, <1>6

\* onGeo writes a location of the operation in view into the row of its hop,
\* unless a late row of another run has the same number.
THEOREM LocationsHaveRows == Spec => LocationFindsRow
<1>1. ASSUME IInv, Next, Handles("geo"), InView(Head(queue).run), Rivals(Head(queue)) = {}
      PROVE  LET e == Head(queue)
             IN \E n \in DOMAIN hops[e.target] :
                  /\ hops[e.target][n].hop = e.item /\ hops[e.target][n].run = e.run
                  /\ hops' = [hops EXCEPT ![e.target][n].geo = e.run]
  <2> DEFINE e == Head(queue)
  <2>1. queue \in Seq(Closures) /\ queue # <<>> /\ e.ev = "geo"
    BY <1>1 DEF IInv, TypeOK, Handles
  <2>2. 1 \in DOMAIN queue /\ queue[1] = e /\ e \in Closures
    BY <2>1
  <2>3. RowBy(1 - 1, e.run, e.target, e.item)
    BY <1>1, <2>1, <2>2 DEF IInv, LocationsFollow
  <2>4. HasRow(e.run, e.target, e.item)
    BY <2>3 DEF RowBy
  <2>5. OnGeo(e)
    <3>1. Handle
      BY <1>1, OnlyHandleTakes DEF Handles, IInv
    <3> QED BY <2>1, <3>1 DEF Handle, OnHop, OnGeo, OnTarget, OnDone, OnError, OnFinished, OnSubdomains
  <2> HIDE DEF e
  <2>6. \E n \in DOMAIN hops[e.target] :
          /\ hops[e.target][n].hop = e.item /\ hops[e.target][n].run = e.run
          /\ hops' = [hops EXCEPT ![e.target][n].geo = e.run]
    BY <1>1, <2>2, <2>4, <2>5, FirstRowIsOwn DEF IInv, e
  <2> QED BY <2>6 DEF e
<1>2. IInv /\ [Next]_vars =>
        [ Handles("geo") /\ InView(Head(queue).run) /\ Rivals(Head(queue)) = {} =>
            LET e == Head(queue)
            IN \E n \in DOMAIN hops[e.target] :
                 /\ hops[e.target][n].hop = e.item /\ hops[e.target][n].run = e.run
                 /\ hops' = [hops EXCEPT ![e.target][n].geo = e.run] ]_vars
  BY <1>1
<1> QED BY <1>2, Invariance, PTL DEF Spec, LocationFindsRow
===============================================================================
