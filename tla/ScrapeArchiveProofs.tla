------------------------ MODULE ScrapeArchiveProofs ------------------------
(***************************************************************************)
(* For any number of callbacks, items, contents and jobs, and whatever     *)
(* fails, is deleted or is killed: rows have their files, counters agree   *)
(* with rows, and what was deleted after its crawl stays deleted.          *)
(***************************************************************************)
EXTENDS ScrapeArchive, FiniteSetTheorems, TLAPS

USE ArchiveAssumption DEF JobIds, Unsaved

LEMMA Numbers ==
  ASSUME TypeOK
  PROVE  /\ lastId \in Nat /\ job \in Nat /\ counted \in Nat /\ announced \in Int
         /\ deleter.id \in Nat /\ deleter.step \in 0..4
BY DEF TypeOK, Deleters

\* What happened to a job or to its writes is not forgotten.
Remembers == /\ \A j \in JobIds : Touched(j) => Touched(j)'
             /\ \A j \in JobIds : Faulty(j) => Faulty(j)'

LEMMA FaultsGrow ==
  ASSUME TypeOK, UNCHANGED faults \/ Fails
  PROVE  faults' \in Seq(0..MaxJobs) /\ \A j \in JobIds : Faulty(j) => Faulty(j)'
<1>1. faults \in Seq(0..MaxJobs) /\ job \in 0..MaxJobs
  BY DEF TypeOK
<1>2. CASE UNCHANGED faults
  BY <1>1, <1>2 DEF Faulty
<1>3. CASE Fails
  <2>1. faults' = Append(faults, job)
    BY <1>3 DEF Fails
  <2>2. /\ DOMAIN faults = 1..Len(faults) /\ Len(faults) \in Nat
        /\ DOMAIN faults' = 1..(Len(faults) + 1) /\ faults' \in Seq(0..MaxJobs)
        /\ \A n \in 1..Len(faults) : faults'[n] = faults[n]
        /\ faults'[Len(faults) + 1] = job
    BY <1>1, <2>1
  <2>3. QED
    BY <2>2 DEF Faulty
<1>4. QED
  BY <1>2, <1>3

\* After a failed write the crawl counts as faulty.
LEMMA FaultMarked ==
  ASSUME TypeOK, Fails, NEW j, j = job PROVE Faulty(j)'
<1>1. faults \in Seq(0..MaxJobs) /\ j \in 0..MaxJobs /\ faults' = Append(faults, j)
  BY DEF TypeOK, Fails
<1>2. Len(faults) + 1 \in DOMAIN faults' /\ faults'[Len(faults) + 1] = j
  BY <1>1
<1>3. QED
  BY <1>2 DEF Faulty

LEMMA TouchedKept ==
  ASSUME UNCHANGED <<deleter, deletions>>
  PROVE  \A j \in JobIds : Touched(j)' <=> Touched(j)
BY DEF Touched

\* deleteJob ends: the deletion goes on record.
LEMMA TouchedRecorded ==
  ASSUME NEW ok \in BOOLEAN, Deleted(ok)
  PROVE  \A j \in JobIds : Touched(j)' <=> Touched(j)
<1>1. deleter'.id = 0
  BY DEF Deleted, NoDeletion
<1>2. PICK d : d = [id |-> deleter.id, live |-> deleter.live, ok |-> ok]
  OBVIOUS
<1>3. deletions' = deletions \cup {d} /\ d.id = deleter.id
  BY <1>2 DEF Deleted
<1>4. QED
  BY <1>1, <1>3 DEF Touched

\* A callback moves on.
LEMMA Moves ==
  ASSUME TypeOK, NEW w \in Workers, NEW place \in {"write", "insert", "bump"}, Goto(w, place)
  PROVE  /\ saver' \in [Workers -> Callbacks]
         /\ saver'[w].at = place /\ saver'[w].item = saver[w].item /\ saver'[w].file = saver[w].file
         /\ \A v \in Workers : v # w => saver'[v] = saver[v]
BY DEF TypeOK, Goto, Callbacks

\* A callback returns.
LEMMA Rests ==
  ASSUME TypeOK, NEW w \in Workers, Goto(w, "idle")
  PROVE  /\ saver' \in [Workers -> Callbacks]
         /\ saver'[w].at = "idle"
         /\ \A v \in Workers : v # w => saver'[v] = saver[v]
<1>1. Resting \in Callbacks /\ Resting.at = "idle"
  BY DEF Resting, Callbacks
<1>2. QED
  BY <1>1 DEF TypeOK, Goto

-----------------------------------------------------------------------------
(* What keeps each part of the invariant.                                  *)

LEMMA KeepsFiles ==
  ASSUME IInv, Remembers, UNCHANGED <<rows, files>> PROVE RowsHaveFiles'
BY DEF IInv, ArchiveHonest, TypeOK, RowsHaveFiles, Remembers

LEMMA KeepsHonest ==
  ASSUME IInv, Remembers, UNCHANGED <<jobs, rows>> PROVE CountersHonest'
<1>1. \A j : RowsOf(j)' = RowsOf(j)
  BY DEF RowsOf
<1>2. \A r \in jobs : r.id \in JobIds
  BY DEF IInv, ArchiveHonest, TypeOK, IdsApart
<1>3. QED
  BY <1>1, <1>2 DEF IInv, ArchiveHonest, CountersHonest, Remembers

LEMMA KeepsStored ==
  ASSUME IInv, Remembers, UNCHANGED <<announced, job, lastId, rows>> PROVE AnnouncedIsStored'
<1>1. lastId > 0 => lastId \in JobIds
  BY DEF IInv, ArchiveHonest, TypeOK
<1>2. RowsOf(lastId)' = RowsOf(lastId)
  BY DEF RowsOf
<1>3. QED
  BY <1>1, <1>2 DEF IInv, ArchiveHonest, AnnouncedIsStored, Remembers

LEMMA KeepsItems ==
  ASSUME IInv, UNCHANGED <<saver, pending, rows, job>> PROVE ItemsOnce' /\ CrawlOver'
BY DEF IInv, ItemsOnce, CrawlOver, RowsOf

LEMMA KeepsCounters ==
  ASSUME IInv, Remembers, UNCHANGED <<saver, rows, job, counted, jobs>>, ctx' = "live" => ctx = "live"
  PROVE  CountersFollow'
<1> SUFFICES ASSUME job # 0, ~Touched(job)'
             PROVE  CountersFollow'
  BY DEF CountersFollow
<1>1. job \in JobIds
  BY DEF IInv, ArchiveHonest, TypeOK
<1>2. Bumping' = Bumping /\ RowsOf(job)' = RowsOf(job) /\ Row(job)' = Row(job)
  BY DEF Bumping, RowsOf, Row
<1>3. ~Touched(job) /\ (Faulty(job) => Faulty(job)')
  BY <1>1 DEF Remembers
<1>4. QED
  BY <1>2, <1>3 DEF IInv, CountersFollow, Live

LEMMA KeepsFollowing ==
  ASSUME IInv, Remembers, UNCHANGED <<saver, job, files>> PROVE FilesFollow'
<1>1. ASSUME NEW w \in Workers, saver[w].at # "idle" PROVE job \in JobIds
  BY <1>1 DEF IInv, ArchiveHonest, TypeOK, CrawlOver
<1>2. QED
  BY <1>1 DEF IInv, FilesFollow, Remembers

LEMMA KeepsDeletions ==
  ASSUME IInv, UNCHANGED <<deleter, deletions, job, rows, jobs>> PROVE DeletionsFollow'
BY DEF IInv, DeletionsFollow, RowsOf, Row

LEMMA KeepsOthers ==
  ASSUME IInv
  PROVE  /\ UNCHANGED <<jobs, lastId>> => IdsApart'
         /\ UNCHANGED rows => BodiesNamed'
         /\ UNCHANGED <<lastId, files>> => Unborn'
BY DEF IInv, IdsApart, BodiesNamed, Unborn

-----------------------------------------------------------------------------
(* The crawl.                                                              *)

LEMMA BeginJobIInv ==
  ASSUME IInv, NEW found \in Finds, BeginJob(found) PROVE IInv'
<1>1. /\ UNCHANGED <<rows, files, deleter, faults, deletions>>
      /\ lastId' = lastId + 1 /\ job' = lastId + 1 /\ lastId' \in JobIds
      /\ counted' = 0 /\ announced' = -1 /\ ctx' = "live" /\ pending' = found
      /\ saver' = [w \in Workers |-> Resting] /\ late' = late \cup ({job} \ {0})
      /\ lastId \in Nat /\ deleter.id \in Nat
  BY Numbers DEF BeginJob, IInv, ArchiveHonest, TypeOK
<1>2. PICK n : n = [id |-> lastId + 1, status |-> "running", items |-> 0]
  OBVIOUS
<1>3. /\ jobs' = jobs \cup {n} /\ n \in JobRows
      /\ n.id = lastId + 1 /\ n.status = "running" /\ n.items = 0
  BY <1>1, <1>2 DEF BeginJob, JobRows
<1>6. saver' \in [Workers -> Callbacks] /\ \A w \in Workers : saver'[w].at = "idle"
  <2>1. Resting \in Callbacks /\ Resting.at = "idle"
    BY DEF Resting, Callbacks
  <2>2. QED
    BY <1>1, <2>1
<1>21. late' \subseteq 1..(lastId' - 1)
  BY <1>1 DEF IInv, ArchiveHonest, TypeOK
<1>4. TypeOK'
  BY <1>1, <1>3, <1>6, <1>21 DEF IInv, ArchiveHonest, TypeOK
<1>5. Remembers
  BY <1>1 DEF Remembers, Touched, Faulty
<1>7. \A r \in rows : r.job # lastId + 1 /\ r.job # 0
  BY <1>1, Numbers DEF IInv, ArchiveHonest, TypeOK
<1>8. \A r \in jobs : r.id \in 1..lastId
  BY DEF IInv, IdsApart
<1>9. \A j : RowsOf(j)' = RowsOf(j)
  BY <1>1 DEF RowsOf
<1>10. RowsOf(n.id) = {} /\ RowsOf(lastId + 1) = {}
  BY <1>3, <1>7 DEF RowsOf
<1>20. Cardinality({}) = 0
  BY FS_EmptySet
<1>11. CountersHonest'
  <2> SUFFICES ASSUME NEW q \in jobs', ~Touched(q.id)'
               PROVE  /\ q.items <= Cardinality(RowsOf(q.id))
                      /\ q.status = "done" /\ ~Faulty(q.id)' => q.items = Cardinality(RowsOf(q.id))
    BY <1>9 DEF CountersHonest
  <2>1. CASE q = n
    <3>1. RowsOf(q.id) = {} /\ q.items = 0 /\ q.status # "done"
      BY <1>3, <1>10, <2>1
    <3>2. Cardinality(RowsOf(q.id)) = 0
      BY <1>20, <3>1
    <3>3. QED
      BY <3>1, <3>2
  <2>2. CASE q \in jobs
    <3>1. q.id \in JobIds
      BY <1>1, <1>8, <2>2
    <3>2. ~Touched(q.id) /\ (Faulty(q.id) => Faulty(q.id)')
      BY <1>5, <3>1 DEF Remembers
    <3>3. QED
      BY <2>2, <3>2 DEF IInv, ArchiveHonest, CountersHonest
  <2>3. QED
    BY <1>3, <2>1, <2>2
<1>12. AnnouncedIsStored' /\ RowsHaveFiles'
  BY <1>1, <1>5, KeepsFiles DEF AnnouncedIsStored
<1>13. CrawlOver' /\ ItemsOnce'
  <2>1. RowsOf(job)' = {}
    BY <1>1, <1>7 DEF RowsOf
  <2>2. QED
    BY <1>1, <1>6, <2>1 DEF CrawlOver, ItemsOnce
<1>14. IdsApart'
  BY <1>1, <1>3, <1>8 DEF IInv, IdsApart
<1>15. CountersFollow'
  <2>1. Bumping' = {}
    BY <1>1, <1>6 DEF Bumping
  <2>2. RowsOf(job)' = {}
    BY <1>1, <1>10, <1>7 DEF RowsOf
  <2>3. \A r \in Row(job)' : r = n
    BY <1>1, <1>3, <1>8 DEF Row
  <2>4. (Cardinality(RowsOf(job)) = counted + Cardinality(Bumping))'
    <3>1. Cardinality(RowsOf(job)') = 0 /\ Cardinality(Bumping') = 0
      BY <1>20, <2>1, <2>2
    <3>2. QED
      BY <1>1, <3>1
  <2>5. \A r \in Row(job)' : r.status = "running" /\ r.items = 0
    BY <1>3, <2>3
  <2>6. QED
    BY <1>1, <2>4, <2>5 DEF CountersFollow
<1>16. FilesFollow' /\ BodiesNamed'
  BY <1>1, <1>6, KeepsOthers DEF FilesFollow
<1>17. Unborn'
  BY <1>1 DEF IInv, ArchiveHonest, TypeOK, Unborn
<1>18. DeletionsFollow'
  <2>1. \A j \in 0..lastId : Row(j)' = Row(j)
    BY <1>1, <1>3 DEF Row
  <2>2. deleter.id \in 0..lastId /\ \A d \in deletions : d.id \in 0..lastId
    BY <1>1 DEF IInv, ArchiveHonest, TypeOK
  <2>3. \A j \in 0..lastId : j # job'
    BY <1>1
  <2>4. QED
    BY <1>1, <1>9, <2>1, <2>2, <2>3 DEF IInv, DeletionsFollow
<1>19. QED
  BY <1>4, <1>11, <1>12, <1>13, <1>14, <1>15, <1>16, <1>17, <1>18 DEF IInv, ArchiveHonest

LEMMA CancelIInv == ASSUME IInv, Cancel PROVE IInv'
<1> USE DEF Cancel, database
<1>1. TypeOK'
  BY DEF IInv, ArchiveHonest, TypeOK
<1>2. Remembers
  BY DEF Remembers, Touched, Faulty
<1>3. QED
  BY <1>1, <1>2, KeepsFiles, KeepsHonest, KeepsStored, KeepsItems, KeepsCounters, KeepsFollowing,
     KeepsDeletions, KeepsOthers DEF IInv, ArchiveHonest

LEMMA FinishJobIInv ==
  ASSUME IInv, NEW ok \in BOOLEAN, FinishJob(ok) PROVE IInv'
<1>1. /\ UNCHANGED <<lastId, rows, files, late, saver, deleter, deletions>>
      /\ announced' = counted /\ ctx' = "none" /\ job' = 0 /\ pending' = {} /\ counted' = 0
      /\ job \in JobIds /\ job = lastId
      /\ \A w \in Workers : saver[w].at = "idle"
  BY DEF FinishJob, IInv, ArchiveHonest, TypeOK
<1>2. UNCHANGED faults \/ Fails
  BY DEF FinishJob
<1>3. Remembers
  BY <1>1, <1>2, FaultsGrow DEF Remembers, Touched, IInv, ArchiveHonest
<1>4. ASSUME NEW q \in jobs'
      PROVE  /\ q \in JobRows
             /\ \E r \in jobs : /\ q.id = r.id /\ q.items = r.items
                                /\ q = r \/ (r.id = job /\ (q.status = "done" => Live))
                                /\ r.id # job => q = r
  <2>1. jobs \subseteq JobRows
    BY DEF IInv, ArchiveHonest, TypeOK
  <2>2. CASE ok
    <3>1. PICK r \in jobs :
            q = IF r.id = job THEN [r EXCEPT !.status = IF Live THEN "done" ELSE "cancelled"] ELSE r
      BY <2>2 DEF FinishJob
    <3>2. QED
      BY <2>1, <3>1 DEF JobRows
  <2>3. CASE ~ok
    BY <2>1, <2>3 DEF FinishJob
  <2>4. QED
    BY <2>2, <2>3
<1>5. TypeOK'
  BY <1>1, <1>2, <1>4, FaultsGrow DEF IInv, ArchiveHonest, TypeOK
<1>6. Bumping = {} /\ Cardinality({}) = 0 /\ \A j : RowsOf(j)' = RowsOf(j)
  BY <1>1, FS_EmptySet DEF Bumping, RowsOf
<1>7. counted \in Nat
  BY DEF IInv, ArchiveHonest, TypeOK
<1>8. ~Touched(job) => Cardinality(RowsOf(job)) = counted
  BY <1>1, <1>6, <1>7 DEF IInv, CountersFollow
<1>9. CountersHonest'
  <2> SUFFICES ASSUME NEW q \in jobs', ~Touched(q.id)'
               PROVE  /\ q.items <= Cardinality(RowsOf(q.id))
                      /\ q.status = "done" /\ ~Faulty(q.id)' => q.items = Cardinality(RowsOf(q.id))
    BY <1>6 DEF CountersHonest
  <2>1. PICK r \in jobs : /\ q.id = r.id /\ q.items = r.items
                          /\ q = r \/ (r.id = job /\ (q.status = "done" => Live))
                          /\ r.id # job => q = r
    BY <1>4
  <2>2. r.id \in JobIds /\ ~Touched(r.id)
    BY <1>3, <2>1 DEF Remembers, IInv, ArchiveHonest, TypeOK, IdsApart
  <2>3. CASE r.id = job
    <3>1. /\ r.status = "running" /\ r.items <= counted
          /\ Live /\ ~Faulty(job) => r.items = counted
      <4>1. r \in Row(job) /\ ~Touched(job) /\ job # 0
        BY <1>1, <2>1, <2>2, <2>3 DEF Row
      <4>2. QED
        BY <4>1 DEF IInv, CountersFollow
    <3>2. Faulty(job) => Faulty(q.id)'
      BY <1>1, <1>3, <2>1, <2>3 DEF Remembers
    <3>3. q.status = "done" => Live
      BY <2>1, <3>1
    <3>4. QED
      BY <1>8, <2>1, <2>2, <2>3, <3>1, <3>2, <3>3
  <2>4. CASE r.id # job
    BY <1>3, <2>1, <2>2, <2>4 DEF IInv, ArchiveHonest, CountersHonest, Remembers
  <2>5. QED
    BY <2>3, <2>4
<1>10. AnnouncedIsStored'
  BY <1>1, <1>3, <1>6, <1>8 DEF AnnouncedIsStored, Remembers
<1>11. RowsHaveFiles' /\ BodiesNamed' /\ Unborn'
  BY <1>1, <1>3, KeepsFiles, KeepsOthers
<1>12. CrawlOver' /\ CountersFollow' /\ FilesFollow'
  BY <1>1 DEF CrawlOver, CountersFollow, FilesFollow
<1>13. ItemsOnce'
  BY <1>1 DEF IInv, ArchiveHonest, TypeOK, ItemsOnce, RowsOf
<1>14. IdsApart'
  <2>1. \A q \in jobs' : q.id \in 1..lastId'
    BY <1>1, <1>4 DEF IInv, IdsApart
  <2>2. ASSUME NEW p \in jobs', NEW q \in jobs', p.id = q.id PROVE p = q
    <3>1. CASE ok
      <4>1. PICK r \in jobs :
              p = IF r.id = job THEN [r EXCEPT !.status = IF Live THEN "done" ELSE "cancelled"] ELSE r
        BY <3>1 DEF FinishJob
      <4>2. PICK s \in jobs :
              q = IF s.id = job THEN [s EXCEPT !.status = IF Live THEN "done" ELSE "cancelled"] ELSE s
        BY <3>1 DEF FinishJob
      <4>3. r.id = p.id /\ s.id = q.id
        BY <4>1, <4>2 DEF IInv, ArchiveHonest, TypeOK, JobRows
      <4>4. r = s
        BY <2>2, <4>3 DEF IInv, IdsApart
      <4>5. QED
        BY <4>1, <4>2, <4>4
    <3>2. CASE ~ok
      BY <2>2, <3>2 DEF FinishJob, IInv, IdsApart
    <3>3. QED
      BY <3>1, <3>2
  <2>3. QED
    BY <2>1, <2>2 DEF IdsApart
<1>15. DeletionsFollow'
  <2>1. \A j : Row(j) = {} => Row(j)' = {}
    BY <1>4 DEF Row
  <2>2. QED
    <3>1. \A d \in deletions : d.id # 0
      BY DEF IInv, ArchiveHonest, TypeOK
    <3>2. QED
      BY <1>1, <1>6, <2>1, <3>1 DEF IInv, DeletionsFollow
<1>16. QED
  BY <1>5, <1>9, <1>10, <1>11, <1>12, <1>13, <1>14, <1>15 DEF IInv, ArchiveHonest

-----------------------------------------------------------------------------
(* The callbacks.                                                          *)

LEMMA SaveBeginsIInv ==
  ASSUME IInv, NEW w \in Workers, NEW i \in Items, SaveBegins(w, i) PROVE IInv'
<1> DEFINE b == Body[i]
<1>1. /\ UNCHANGED <<lastId, jobs, rows, files, job, ctx, late, counted, announced, deleter, faults, deletions>>
      /\ job \in JobIds /\ job = lastId /\ saver[w].at = "idle"
      /\ i \in pending /\ pending' = pending \ {i}
  BY DEF SaveBegins, Looks, database, IInv, ArchiveHonest, TypeOK
<1>2. \/ /\ saver' = [saver EXCEPT ![w] = [at |-> "insert", item |-> i, file |-> FALSE]]
         /\ b = NoBody
      \/ /\ saver' = [saver EXCEPT ![w] = [at |-> "insert", item |-> i, file |-> TRUE]]
         /\ b # NoBody /\ files[job][b] # "none"
      \/ /\ saver' = [saver EXCEPT ![w] = [at |-> "create", item |-> i, file |-> FALSE]]
         /\ b # NoBody
  BY <1>1 DEF SaveBegins, Looks
<1>3. b # NoBody => b \in Bodies
  OBVIOUS
<1>4. /\ saver' \in [Workers -> Callbacks] /\ saver'[w].item = i
      /\ saver'[w].at \in {"create", "insert"}
      /\ \A v \in Workers : v # w => saver'[v] = saver[v]
  <2>1. PICK c \in Callbacks : /\ saver' = [saver EXCEPT ![w] = c]
                              /\ c.item = i /\ c.at \in {"create", "insert"}
    <3>1. PICK c : /\ saver' = [saver EXCEPT ![w] = c]
                   /\ \/ c = [at |-> "insert", item |-> i, file |-> FALSE]
                      \/ c = [at |-> "insert", item |-> i, file |-> TRUE]
                      \/ c = [at |-> "create", item |-> i, file |-> FALSE]
      BY <1>2
    <3>2. c \in Callbacks /\ c.item = i /\ c.at \in {"create", "insert"}
      <4>1. CASE c = [at |-> "insert", item |-> i, file |-> FALSE]
        BY <4>1 DEF Callbacks
      <4>2. CASE c = [at |-> "insert", item |-> i, file |-> TRUE]
        BY <4>2 DEF Callbacks
      <4>3. CASE c = [at |-> "create", item |-> i, file |-> FALSE]
        BY <4>3 DEF Callbacks
      <4>4. QED
        BY <3>1, <4>1, <4>2, <4>3
    <3>3. QED
      BY <3>1, <3>2
  <2>2. QED
    BY <2>1 DEF IInv, ArchiveHonest, TypeOK
<1>6. Remembers
  BY <1>1 DEF Remembers, Touched, Faulty
<1>7. TypeOK'
  BY <1>1, <1>4 DEF IInv, ArchiveHonest, TypeOK
<1>8. CountersHonest' /\ AnnouncedIsStored' /\ IdsApart' /\ BodiesNamed' /\ DeletionsFollow'
  BY <1>1, <1>6, KeepsHonest, KeepsStored, KeepsOthers, KeepsDeletions
<1>9. RowsHaveFiles' /\ Unborn'
  BY <1>1, <1>6, KeepsFiles, KeepsOthers
<1>10. CrawlOver' /\ ItemsOnce'
  <2>1. CrawlOver'
    BY <1>1 DEF CrawlOver
  <2>2. \A v \in Workers : v # w /\ saver[v].at # "idle" => saver[v].item # i
    BY <1>1 DEF IInv, ItemsOnce
  <2>3. \A r \in RowsOf(job) : r.item # i
    BY <1>1 DEF IInv, ItemsOnce
  <2>4. RowsOf(job)' = RowsOf(job)
    BY <1>1 DEF RowsOf
  <2>5. \A v \in Workers : saver'[v].at # "idle" => saver'[v].item \notin pending'
    BY <1>1, <1>4 DEF IInv, ItemsOnce
  <2>6. ASSUME NEW u \in Workers, NEW v \in Workers, saver'[u].at # "idle", saver'[v].at # "idle",
               saver'[u].item = saver'[v].item
        PROVE  u = v
    BY <1>4, <2>2, <2>6 DEF IInv, ItemsOnce
  <2>7. ASSUME NEW r \in RowsOf(job), NEW v \in Workers, saver'[v].at \in Unsaved
        PROVE  r.item \notin pending' /\ saver'[v].item # r.item
    BY <1>1, <1>4, <2>3, <2>7 DEF IInv, ItemsOnce
  <2>8. \A r \in RowsOf(job) : r.item \notin pending'
    BY <1>1 DEF IInv, ItemsOnce
  <2>9. QED
    BY <2>1, <2>4, <2>5, <2>6, <2>7, <2>8 DEF ItemsOnce
<1>11. CountersFollow'
  <2>1. Bumping' = Bumping
    BY <1>1, <1>4 DEF Bumping
  <2>2. \A j : RowsOf(j)' = RowsOf(j) /\ Row(j)' = Row(j)
    BY <1>1 DEF RowsOf, Row
  <2>3. Touched(job)' <=> Touched(job)
    BY <1>1 DEF Touched
  <2>4. Faulty(job)' <=> Faulty(job)
    BY <1>1 DEF Faulty
  <2>5. QED
    BY <1>1, <2>1, <2>2, <2>3, <2>4 DEF IInv, CountersFollow, Live
<1>12. FilesFollow'
  <2> DEFINE Named(v) == saver'[v].at = "write" \/ (saver'[v].at = "insert" /\ saver'[v].file)
  <2> SUFFICES ASSUME NEW v \in Workers, saver'[v].at = "create" \/ Named(v)
               PROVE  /\ Body[saver'[v].item] # NoBody
                      /\ Named(v) => Touched(job)' \/ files'[job][Body[saver'[v].item]] # "none"
    BY <1>1 DEF FilesFollow
  <2>1. CASE v = w
    BY <1>1, <1>2, <2>1 DEF IInv, ArchiveHonest, TypeOK
  <2>2. CASE v # w
    BY <1>1, <1>4, <1>6, <2>2 DEF IInv, FilesFollow, Remembers
  <2>3. QED
    BY <2>1, <2>2
<1>14. QED
  BY <1>7, <1>8, <1>9, <1>10, <1>11, <1>12 DEF IInv, ArchiveHonest

\* Steps of a callback that leave the items where they are.
LEMMA ItemsStay ==
  ASSUME IInv, NEW w \in Workers, saver[w].at # "idle", UNCHANGED <<pending, job, rows>>,
         saver'[w].at = "idle" \/ saver'[w].item = saver[w].item,
         saver'[w].at \in Unsaved => saver[w].at \in Unsaved,
         \A v \in Workers : v # w => saver'[v] = saver[v]
  PROVE  ItemsOnce' /\ CrawlOver'
<1>1. job # 0
  BY DEF IInv, CrawlOver
<1>2. RowsOf(job)' = RowsOf(job)
  BY DEF RowsOf
<1>3. \A v \in Workers : saver'[v].at # "idle" => saver[v].at # "idle" /\ saver'[v].item = saver[v].item
  OBVIOUS
<1>4. \A v \in Workers : saver'[v].at \in Unsaved => saver[v].at \in Unsaved
  OBVIOUS
<1>5. QED
  BY <1>1, <1>2, <1>3, <1>4 DEF IInv, ItemsOnce, CrawlOver

\* A callback goes on with the file of its item, which no row names yet.
LEMMA FileStepIInv ==
  ASSUME IInv, NEW w \in Workers, saver[w].at \in {"create", "write"},
         UNCHANGED <<lastId, jobs, rows, job, ctx, late, pending, counted, announced, deleter, deletions>>,
         UNCHANGED faults \/ Fails,
         saver' \in [Workers -> Callbacks], saver'[w].item = saver[w].item,
         saver'[w].at \in {"write", "insert"},
         \A v \in Workers : v # w => saver'[v] = saver[v],
         files' \in [JobIds -> [Bodies -> {"none", "part", "whole"}]],
         \A j \in JobIds : j # job => files'[j] = files[j],
         \A j \in JobIds, c \in Bodies : files[j][c] # "none" => files'[j][c] # "none",
         saver'[w].at = "write" \/ saver'[w].file =>
           Touched(job)' \/ files'[job][Body[saver[w].item]] # "none"
  PROVE  IInv'
<1>1. TypeOK /\ saver[w] \in Callbacks
  BY DEF IInv, ArchiveHonest, TypeOK
<1>3. job \in JobIds /\ job = lastId
  BY <1>1 DEF IInv, TypeOK, CrawlOver
<1>6. Remembers
  BY FaultsGrow, <1>1 DEF Remembers, Touched
<1>7. TypeOK'
  BY <1>1, FaultsGrow DEF TypeOK
<1>8. CountersHonest' /\ AnnouncedIsStored' /\ IdsApart' /\ BodiesNamed' /\ DeletionsFollow'
  BY <1>6, KeepsHonest, KeepsStored, KeepsOthers, KeepsDeletions
<1>9. RowsHaveFiles'
  <2> SUFFICES ASSUME NEW r \in rows, r.file, ~Touched(r.job)'
               PROVE  files'[r.job][Body[r.item]] # "none"
    BY DEF RowsHaveFiles
  <2>1. r.job \in JobIds /\ r.item \in Items /\ Body[r.item] \in Bodies
    BY DEF IInv, ArchiveHonest, TypeOK, BodiesNamed
  <2>2. files[r.job][Body[r.item]] # "none"
    BY <1>6, <2>1 DEF Remembers, IInv, ArchiveHonest, RowsHaveFiles
  <2>3. QED
    BY <2>1, <2>2
<1>10. ItemsOnce' /\ CrawlOver'
  BY ItemsStay
<1>11. CountersFollow'
  <2>1. Bumping' = Bumping
    BY DEF Bumping
  <2>2. \A j : RowsOf(j)' = RowsOf(j) /\ Row(j)' = Row(j)
    BY DEF RowsOf, Row
  <2>3. (Touched(job) => Touched(job)') /\ (Faulty(job) => Faulty(job)')
    BY <1>3, <1>6 DEF Remembers
  <2>4. QED
    BY <2>1, <2>2, <2>3 DEF IInv, CountersFollow, Live
<1>12. FilesFollow'
  <2> DEFINE Named(v) == saver'[v].at = "write" \/ (saver'[v].at = "insert" /\ saver'[v].file)
  <2> SUFFICES ASSUME NEW v \in Workers, saver'[v].at = "create" \/ Named(v)
               PROVE  /\ Body[saver'[v].item] # NoBody
                      /\ Named(v) => Touched(job)' \/ files'[job][Body[saver'[v].item]] # "none"
    BY DEF FilesFollow
  <2>1. saver[v].item \in Items
    BY <1>1 DEF TypeOK, Callbacks
  <2>2. CASE v = w
    BY <2>2 DEF IInv, FilesFollow
  <2>3. CASE v # w
    <3>1. /\ Body[saver[v].item] # NoBody
          /\ Named(v) => Touched(job) \/ files[job][Body[saver[v].item]] # "none"
      BY <2>3 DEF IInv, FilesFollow
    <3>2. Body[saver[v].item] \in Bodies
      BY <2>1, <3>1
    <3>3. QED
      BY <1>3, <1>6, <2>3, <3>1, <3>2 DEF Remembers
  <2>4. QED
    BY <2>2, <2>3
<1>13. Unborn'
  <2>1. \A j \in JobIds : j > lastId => files'[j] = files[j]
    BY <1>3
  <2>2. QED
    BY <2>1 DEF IInv, Unborn
<1>14. QED
  BY <1>7, <1>8, <1>9, <1>10, <1>11, <1>12, <1>13 DEF IInv, ArchiveHonest

LEMMA CreateFileIInv ==
  ASSUME IInv, NEW w \in Workers, CreateFile(w) PROVE IInv'
<1>1. /\ UNCHANGED <<lastId, jobs, rows, job, ctx, late, pending, counted, announced, deleter, faults, deletions>>
      /\ saver[w].at = "create" /\ TypeOK /\ Goto(w, "write")
      /\ files' = [files EXCEPT ![job][Body[saver[w].item]] = "part"]
  BY DEF CreateFile, database, IInv, ArchiveHonest
<1>2. job \in JobIds /\ Body[saver[w].item] \in Bodies
  BY <1>1 DEF IInv, TypeOK, CrawlOver, FilesFollow, Callbacks
<1>3. /\ files' \in [JobIds -> [Bodies -> {"none", "part", "whole"}]]
      /\ \A j \in JobIds : j # job => files'[j] = files[j]
      /\ \A j \in JobIds, c \in Bodies : files[j][c] # "none" => files'[j][c] # "none"
      /\ files'[job][Body[saver[w].item]] # "none"
  BY <1>1, <1>2 DEF TypeOK
<1>4. /\ saver' \in [Workers -> Callbacks] /\ saver'[w].item = saver[w].item /\ saver'[w].at = "write"
      /\ \A v \in Workers : v # w => saver'[v] = saver[v]
  BY <1>1, Moves
<1>5. QED
  BY <1>1, <1>3, <1>4, FileStepIInv

LEMMA WriteEndsIInv ==
  ASSUME IInv, NEW w \in Workers, NEW ok \in BOOLEAN, WriteEnds(w, ok) PROVE IInv'
<1>1. /\ UNCHANGED <<lastId, jobs, rows, job, ctx, late, pending, counted, announced, deleter, deletions>>
      /\ saver[w].at \in {"create", "write"}
      /\ ok => saver[w].at = "write"
      /\ saver[w] \in Callbacks /\ TypeOK
      /\ saver' = [saver EXCEPT ![w].at = "insert", ![w].file = ok]
      /\ UNCHANGED faults \/ Fails
  BY DEF WriteEnds, database, IInv, ArchiveHonest, TypeOK
<1>2. /\ saver' \in [Workers -> Callbacks] /\ saver'[w].item = saver[w].item
      /\ saver'[w].at = "insert" /\ saver'[w].file = ok
      /\ \A v \in Workers : v # w => saver'[v] = saver[v]
  BY <1>1 DEF TypeOK, Callbacks
<1>3. job \in JobIds /\ Body[saver[w].item] \in Bodies
  BY <1>1 DEF IInv, TypeOK, CrawlOver, FilesFollow, Callbacks
<1>4. /\ files' \in [JobIds -> [Bodies -> {"none", "part", "whole"}]]
      /\ \A j \in JobIds : j # job => files'[j] = files[j]
      /\ \A j \in JobIds, c \in Bodies : files[j][c] # "none" => files'[j][c] # "none"
  BY <1>1, <1>3 DEF WriteEnds, TypeOK
<1>5. ok => Touched(job)' \/ files'[job][Body[saver[w].item]] # "none"
  <2>1. Touched(job)' <=> Touched(job)
    BY <1>1 DEF Touched
  <2>2. ok => Touched(job) \/ files[job][Body[saver[w].item]] # "none"
    BY <1>1 DEF IInv, FilesFollow
  <2>3. QED
    BY <1>3, <1>4, <2>1, <2>2
<1>6. QED
  BY <1>1, <1>2, <1>4, <1>5, FileStepIInv

LEMMA InsertIInv ==
  ASSUME IInv, NEW w \in Workers, NEW ok \in BOOLEAN, Insert(w, ok) PROVE IInv'
<1>1. /\ UNCHANGED <<lastId, jobs, files, job, ctx, late, pending, counted, announced, deleter, deletions>>
      /\ saver[w].at = "insert" /\ saver[w] \in Callbacks /\ saver[w].item \in Items
      /\ UNCHANGED faults \/ Fails
  BY DEF Insert, Outcome, IInv, ArchiveHonest, TypeOK, Callbacks
<1>2. /\ saver' \in [Workers -> Callbacks]
      /\ \A v \in Workers : v # w => saver'[v] = saver[v]
      /\ saver'[w].at = IF ok THEN "bump" ELSE "idle"
      /\ ok => saver'[w].item = saver[w].item
  BY Moves, Rests DEF Insert, IInv, ArchiveHonest
<1>3. job \in JobIds /\ job = lastId /\ job # 0
  BY <1>1 DEF IInv, ArchiveHonest, TypeOK, CrawlOver
<1>4. Remembers
  BY <1>1, FaultsGrow DEF Remembers, Touched, IInv, ArchiveHonest
<1>5. CrawlOver' /\ IdsApart' /\ Unborn'
  BY <1>1, <1>3, KeepsOthers DEF CrawlOver
<1>6. FilesFollow'
  <2>1. \A v \in Workers : saver'[v].at \in Unsaved => saver'[v] = saver[v]
    BY <1>2
  <2>2. Touched(job) => Touched(job)'
    BY <1>1 DEF Touched
  <2>3. QED
    BY <1>1, <2>1, <2>2 DEF IInv, FilesFollow
<1>7. CASE ~ok
  <2>1. rows' = rows
    BY <1>7 DEF Insert
  <2>2. TypeOK'
    BY <1>1, <1>2, <2>1, FaultsGrow DEF IInv, ArchiveHonest, TypeOK
  <2>3. CountersHonest' /\ AnnouncedIsStored' /\ RowsHaveFiles' /\ BodiesNamed' /\ DeletionsFollow'
    BY <1>1, <1>4, <2>1, KeepsHonest, KeepsStored, KeepsFiles, KeepsOthers, KeepsDeletions
  <2>4. ItemsOnce'
    BY <1>1, <1>2, <1>7, <2>1, ItemsStay
  <2>5. CountersFollow'
    <3>1. Bumping' = Bumping
      BY <1>1, <1>2, <1>7 DEF Bumping
    <3>2. \A j : RowsOf(j)' = RowsOf(j) /\ Row(j)' = Row(j)
      BY <1>1, <2>1 DEF RowsOf, Row
    <3>3. (Touched(job) => Touched(job)') /\ (Faulty(job) => Faulty(job)')
      BY <1>1, <1>3, <1>4 DEF Remembers
    <3>4. QED
      BY <1>1, <3>1, <3>2, <3>3 DEF IInv, CountersFollow, Live
  <2>6. QED
    BY <1>5, <1>6, <2>2, <2>3, <2>4, <2>5 DEF IInv, ArchiveHonest
<1>8. CASE ok
  <2>1. PICK x : x = [job |-> job, item |-> saver[w].item, file |-> saver[w].file]
    OBVIOUS
  <2>2. rows' = rows \cup {x} /\ x.job = job /\ x.item = saver[w].item /\ x.file = saver[w].file
    BY <1>8, <2>1 DEF Insert
  <2>3. faults' = faults
    BY <1>8 DEF Insert, Outcome
  <2>4. x \notin rows
    BY <1>1, <2>2 DEF IInv, ItemsOnce, RowsOf
  <2>5. IsFiniteSet(rows) /\ IsFiniteSet(rows')
    BY <2>2, FS_AddElement DEF IInv, ArchiveHonest, TypeOK
  <2>6. TypeOK'
    BY <1>1, <1>2, <1>3, <2>2, <2>3, <2>5 DEF IInv, ArchiveHonest, TypeOK
  <2>7. /\ RowsOf(job)' = RowsOf(job) \cup {x} /\ x \notin RowsOf(job)
        /\ \A j : j # job => RowsOf(j)' = RowsOf(j)
        /\ \A j : Row(j)' = Row(j)
    BY <1>1, <2>2, <2>4 DEF RowsOf, Row
  <2>8. IsFiniteSet(RowsOf(job)) /\ Cardinality(RowsOf(job)) \in Nat
    BY <2>5, FS_Subset, FS_CardinalityType DEF RowsOf
  <2>9. Cardinality(RowsOf(job)') = Cardinality(RowsOf(job)) + 1
    <3>1. Cardinality(RowsOf(job) \cup {x}) = Cardinality(RowsOf(job)) + 1
      BY <2>7, <2>8, FS_AddElement, Zenon
    <3>2. QED
      BY <2>7, <3>1
  <2>10. Cardinality(Bumping') = Cardinality(Bumping) + 1 /\ Cardinality(Bumping) \in Nat
    <3>1. Bumping' = Bumping \cup {w} /\ w \notin Bumping
      BY <1>1, <1>2, <1>8 DEF Bumping
    <3>2. IsFiniteSet(Bumping)
      BY FS_Subset DEF Bumping
    <3>3. QED
      BY <3>1, <3>2, FS_AddElement, FS_CardinalityType
  <2>11. (Touched(job)' <=> Touched(job)) /\ (Faulty(job)' <=> Faulty(job))
    BY <1>1, <2>3 DEF Touched, Faulty
  <2>12. counted \in Nat /\ jobs \subseteq JobRows
    BY DEF IInv, ArchiveHonest, TypeOK
  <2>13. CountersFollow'
    <3>1. ASSUME ~Touched(job)
          PROVE  /\ Cardinality(RowsOf(job)) = counted + Cardinality(Bumping)
                 /\ \A r \in Row(job) :
                      /\ r.status = "running" /\ r.items <= counted
                      /\ Live /\ ~Faulty(job) => r.items = counted
      BY <1>3, <3>1 DEF IInv, CountersFollow
    <3>2. ~Touched(job) => Cardinality(RowsOf(job)') = counted + Cardinality(Bumping')
      BY <2>8, <2>9, <2>10, <2>12, <3>1
    <3>3. QED
      BY <1>1, <2>7, <2>11, <3>1, <3>2 DEF CountersFollow, Live
  <2>14. CountersHonest'
    <3> SUFFICES ASSUME NEW q \in jobs, ~Touched(q.id)'
                 PROVE  /\ q.items <= Cardinality(RowsOf(q.id)')
                        /\ q.status = "done" /\ ~Faulty(q.id)' => q.items = Cardinality(RowsOf(q.id)')
      BY <1>1 DEF CountersHonest
    <3>1. q.id \in JobIds /\ q.items \in Nat
      BY <2>12 DEF JobRows
    <3>2. CASE q.id = job
      <4>1. ~Touched(job) /\ q \in Row(job) /\ RowsOf(q.id)' = RowsOf(job)'
        BY <1>1, <3>2 DEF Row, RowsOf, Touched
      <4>2. q.status = "running" /\ q.items <= counted /\ Cardinality(RowsOf(job)) = counted + Cardinality(Bumping)
        BY <1>3, <4>1 DEF IInv, CountersFollow
      <4>3. QED
        BY <2>8, <2>9, <2>10, <2>12, <3>1, <4>1, <4>2
    <3>3. CASE q.id # job
      BY <1>4, <2>7, <3>1, <3>3 DEF IInv, ArchiveHonest, CountersHonest, Remembers
    <3>4. QED
      BY <3>2, <3>3
  <2>15. RowsHaveFiles' /\ BodiesNamed'
    <3>1. ASSUME x.file
          PROVE  Body[x.item] # NoBody /\ (~Touched(job)' => files[job][Body[x.item]] # "none")
      BY <1>1, <2>2, <2>11, <3>1 DEF IInv, FilesFollow
    <3>2. ASSUME NEW r \in rows, r.file
          PROVE  Body[r.item] # NoBody /\ (~Touched(r.job)' => files[r.job][Body[r.item]] # "none")
      <4>1. r.job \in JobIds
        BY DEF IInv, ArchiveHonest, TypeOK
      <4>2. QED
        BY <1>4, <3>2, <4>1 DEF IInv, ArchiveHonest, RowsHaveFiles, BodiesNamed, Remembers
    <3>3. QED
      BY <1>1, <2>2, <3>1, <3>2 DEF RowsHaveFiles, BodiesNamed
  <2>16. AnnouncedIsStored'
    BY <1>1, <1>3 DEF AnnouncedIsStored
  <2>17. ItemsOnce'
    <3>1. \A v \in Workers : saver'[v].at # "idle" => saver[v].at # "idle" /\ saver'[v].item = saver[v].item
      BY <1>1, <1>2, <1>8
    <3>2. \A v \in Workers : saver'[v].at \in Unsaved => v # w /\ saver'[v] = saver[v]
      BY <1>2, <1>8
    <3>3. x.item \notin pending
      BY <1>1, <2>2 DEF IInv, ItemsOnce
    <3>4. \A v \in Workers : saver'[v].at \in Unsaved => saver'[v].item # x.item
      BY <1>1, <2>2, <3>2 DEF IInv, ItemsOnce
    <3>5. ASSUME NEW r \in RowsOf(job)
          PROVE  /\ r.item \notin pending
                 /\ \A v \in Workers : saver'[v].at \in Unsaved => saver'[v].item # r.item
      BY <3>2 DEF IInv, ItemsOnce
    <3>6. QED
      BY <1>1, <2>7, <3>1, <3>3, <3>4, <3>5 DEF IInv, ItemsOnce
  <2>18. DeletionsFollow'
    <3>1. \A j : RowsOf(j) = {} /\ j # job => RowsOf(j)' = {}
      BY <2>7
    <3>2. QED
      BY <1>1, <2>7, <3>1 DEF IInv, DeletionsFollow
  <2>19. QED
    BY <1>5, <1>6, <2>6, <2>13, <2>14, <2>15, <2>16, <2>17, <2>18 DEF IInv, ArchiveHonest
<1>9. QED
  BY <1>7, <1>8

LEMMA BumpIInv ==
  ASSUME IInv, NEW w \in Workers, NEW ok \in BOOLEAN, Bump(w, ok) PROVE IInv'
<1> DEFINE Grown(q, r) == /\ q.id = r.id /\ q.status = r.status
                          /\ r.id = job => q.items = IF ok THEN r.items + 1 ELSE r.items
                          /\ r.id # job => q = r
<1>1. /\ UNCHANGED <<lastId, rows, files, job, ctx, late, pending, announced, deleter, deletions>>
      /\ saver[w].at = "bump" /\ counted' = counted + 1
      /\ UNCHANGED faults \/ Fails
      /\ ~ok => ~Live \/ Fails
      /\ Goto(w, "idle")
  BY DEF Bump, Outcome
<1>2. /\ saver' \in [Workers -> Callbacks] /\ saver'[w].at = "idle"
      /\ \A v \in Workers : v # w => saver'[v] = saver[v]
  BY <1>1, Rests DEF IInv, ArchiveHonest
<1>3. job \in JobIds /\ job = lastId /\ job # 0
  BY <1>1 DEF IInv, ArchiveHonest, TypeOK, CrawlOver
<1>4. Remembers
  BY <1>1, FaultsGrow DEF Remembers, Touched, IInv, ArchiveHonest
<1>5. counted \in Nat /\ jobs \subseteq JobRows
  BY DEF IInv, ArchiveHonest, TypeOK
<1>6. ASSUME NEW q \in jobs'
      PROVE  q \in JobRows /\ \E r \in jobs : Grown(q, r)
  <2>1. CASE ok
    <3>1. PICK r \in jobs : q = IF r.id = job THEN [r EXCEPT !.items = @ + 1] ELSE r
      BY <2>1 DEF Bump, Counted
    <3>2. QED
      BY <1>5, <2>1, <3>1 DEF JobRows
  <2>2. CASE ~ok
    BY <1>5, <2>2 DEF Bump, Counted
  <2>3. QED
    BY <2>1, <2>2
<1>7. TypeOK'
  BY <1>1, <1>2, <1>5, <1>6, FaultsGrow DEF IInv, ArchiveHonest, TypeOK
<1>8. RowsHaveFiles' /\ AnnouncedIsStored' /\ BodiesNamed' /\ Unborn'
  BY <1>1, <1>4, KeepsFiles, KeepsStored, KeepsOthers
<1>9. ItemsOnce' /\ CrawlOver'
  BY <1>1, <1>2, ItemsStay
<1>10. FilesFollow'
  BY <1>1, <1>2, <1>3, <1>4 DEF IInv, FilesFollow, Remembers
<1>11. \A j : RowsOf(j)' = RowsOf(j) /\ (Row(j) = {} => Row(j)' = {})
  BY <1>1, <1>6 DEF RowsOf, Row
<1>12. DeletionsFollow'
  BY <1>1, <1>11 DEF IInv, DeletionsFollow
<1>13. IdsApart'
  <2>1. \A q \in jobs' : q.id \in 1..lastId'
    BY <1>1, <1>6 DEF IInv, IdsApart
  <2>2. ASSUME NEW p \in jobs', NEW q \in jobs', p.id = q.id PROVE p = q
    <3>1. CASE ok
      <4>1. PICK r \in jobs : p = IF r.id = job THEN [r EXCEPT !.items = @ + 1] ELSE r
        BY <3>1 DEF Bump, Counted
      <4>2. PICK s \in jobs : q = IF s.id = job THEN [s EXCEPT !.items = @ + 1] ELSE s
        BY <3>1 DEF Bump, Counted
      <4>3. r.id = p.id /\ s.id = q.id
        BY <1>5, <4>1, <4>2 DEF JobRows
      <4>4. r = s
        BY <2>2, <4>3 DEF IInv, IdsApart
      <4>5. QED
        BY <4>1, <4>2, <4>4
    <3>2. CASE ~ok
      BY <2>2, <3>2 DEF Bump, Counted, IInv, IdsApart
    <3>3. QED
      BY <3>1, <3>2
  <2>3. QED
    BY <2>1, <2>2 DEF IdsApart
<1>14. /\ Cardinality(Bumping) = Cardinality(Bumping') + 1
       /\ Cardinality(Bumping') \in Nat
  <2>1. Bumping' = Bumping \ {w} /\ w \in Bumping
    BY <1>1, <1>2 DEF Bumping
  <2>2. IsFiniteSet(Bumping) /\ IsFiniteSet(Bumping')
    BY <2>1, FS_Subset DEF Bumping
  <2>3. Cardinality(Bumping \ {w}) = Cardinality(Bumping) - 1
    BY <2>1, <2>2, FS_RemoveElement
  <2>4. QED
    BY <2>1, <2>2, <2>3, FS_CardinalityType
<1>15. ASSUME ~Touched(job)
       PROVE  /\ Cardinality(RowsOf(job)) = counted + Cardinality(Bumping)
              /\ \A r \in Row(job) :
                   /\ r.status = "running" /\ r.items <= counted
                   /\ Live /\ ~Faulty(job) => r.items = counted
  BY <1>3, <1>15 DEF IInv, CountersFollow
<1>16. Touched(job)' <=> Touched(job)
  BY <1>1 DEF Touched
<1>17. Faulty(job) \/ (Live /\ ~ok) => Faulty(job)'
  <2>1. Live /\ ~ok => Faulty(job)'
    BY <1>1, FaultMarked DEF IInv, ArchiveHonest
  <2>2. Faulty(job) => Faulty(job)'
    BY <1>1, <1>3, <1>4 DEF Remembers, Faulty
  <2>3. QED
    BY <2>1, <2>2
<1>18. CountersFollow'
  <2> SUFFICES ASSUME ~Touched(job)
               PROVE  /\ Cardinality(RowsOf(job)') = counted' + Cardinality(Bumping')
                      /\ \A q \in Row(job)' :
                           /\ q.status = "running" /\ q.items <= counted'
                           /\ Live /\ ~Faulty(job)' => q.items = counted'
    BY <1>1, <1>16 DEF CountersFollow, Live
  <2>1. RowsOf(job)' = RowsOf(job)
    BY <1>1 DEF RowsOf
  <2>2. Cardinality(RowsOf(job)') = counted' + Cardinality(Bumping')
    BY <1>1, <1>5, <1>14, <1>15, <2>1
  <2>3. ASSUME NEW q \in Row(job)'
        PROVE  /\ q.status = "running" /\ q.items <= counted'
               /\ Live /\ ~Faulty(job)' => q.items = counted'
    <3>1. q \in jobs' /\ q.id = job
      BY <1>1 DEF Row
    <3>2. PICK r \in jobs : Grown(q, r)
      BY <1>6, <3>1, Zenon
    <3>3. r \in Row(job) /\ r.items \in Nat
      BY <1>5, <3>1, <3>2 DEF Row, JobRows
    <3>4. /\ q.status = "running" /\ r.items <= counted
          /\ Live /\ ~Faulty(job) => r.items = counted
          /\ q.items = IF ok THEN r.items + 1 ELSE r.items
      BY <1>15, <3>1, <3>2, <3>3
    <3>5. Live /\ ~Faulty(job)' => ok /\ ~Faulty(job)
      BY <1>17
    <3>6. QED
      BY <1>1, <1>5, <3>3, <3>4, <3>5
  <2>4. QED
    BY <2>2, <2>3
<1>19. CountersHonest'
  <2> SUFFICES ASSUME NEW q \in jobs', ~Touched(q.id)'
               PROVE  /\ q.items <= Cardinality(RowsOf(q.id))
                      /\ q.status = "done" /\ ~Faulty(q.id)' => q.items = Cardinality(RowsOf(q.id))
    BY <1>11 DEF CountersHonest
  <2>1. PICK r \in jobs : Grown(q, r)
    BY <1>6, Zenon
  <2>2. r.id \in JobIds /\ ~Touched(r.id) /\ r.items \in Nat
    BY <1>4, <1>5, <2>1 DEF Remembers, JobRows
  <2>3. CASE r.id = job
    <3>1. r \in Row(job) /\ ~Touched(job)
      BY <2>2, <2>3 DEF Row
    <3>2. /\ r.status = "running" /\ r.items <= counted
          /\ Cardinality(RowsOf(job)) = counted + Cardinality(Bumping)
      BY <1>15, <3>1
    <3>3. q.id = job /\ q.status = "running" /\ q.items <= counted + 1
      BY <1>5, <2>1, <2>2, <2>3, <3>2
    <3>4. QED
      BY <1>5, <1>14, <2>2, <2>1, <3>2, <3>3
  <2>4. CASE r.id # job
    BY <1>4, <2>1, <2>2, <2>4 DEF IInv, ArchiveHonest, CountersHonest, Remembers
  <2>5. QED
    BY <2>3, <2>4
<1>20. QED
  BY <1>7, <1>8, <1>9, <1>10, <1>12, <1>13, <1>18, <1>19 DEF IInv, ArchiveHonest

-----------------------------------------------------------------------------
(* The crawls that have been evicted: their jobs are not the crawl's.      *)

LEMMA LateWriteIInv ==
  ASSUME IInv, NEW j \in JobIds, NEW b \in Bodies, NEW content \in {"part", "whole"},
         LateWrite(j, b, content)
  PROVE  IInv'
<1>1. /\ UNCHANGED <<lastId, jobs, rows, job, ctx, late, pending, saver, counted, announced, deleter,
                     faults, deletions>>
      /\ j \in late /\ files' = [files EXCEPT ![j][b] = content]
  BY DEF LateWrite, database, crawl
<1>2. /\ files' \in [JobIds -> [Bodies -> {"none", "part", "whole"}]]
      /\ \A k \in JobIds, c \in Bodies : files[k][c] # "none" => files'[k][c] # "none"
      /\ \A k \in JobIds : k > lastId => files'[k] = files[k]
  BY <1>1 DEF IInv, ArchiveHonest, TypeOK
<1>3. Remembers
  BY <1>1 DEF Remembers, Touched, Faulty
<1>4. TypeOK'
  BY <1>1, <1>2 DEF IInv, ArchiveHonest, TypeOK
<1>5. RowsHaveFiles'
  <2> SUFFICES ASSUME NEW r \in rows, r.file, ~Touched(r.job)'
               PROVE  files'[r.job][Body[r.item]] # "none"
    BY <1>1 DEF RowsHaveFiles
  <2>1. r.job \in JobIds /\ r.item \in Items /\ Body[r.item] \in Bodies
    BY DEF IInv, ArchiveHonest, TypeOK, BodiesNamed
  <2>2. files[r.job][Body[r.item]] # "none"
    BY <1>3, <2>1 DEF Remembers, IInv, ArchiveHonest, RowsHaveFiles
  <2>3. QED
    BY <1>2, <2>1, <2>2
<1>6. FilesFollow'
  <2> DEFINE Named(v) == saver[v].at = "write" \/ (saver[v].at = "insert" /\ saver[v].file)
  <2> SUFFICES ASSUME NEW v \in Workers, saver[v].at = "create" \/ Named(v)
               PROVE  /\ Body[saver[v].item] # NoBody
                      /\ Named(v) => Touched(job)' \/ files'[job][Body[saver[v].item]] # "none"
    BY <1>1 DEF FilesFollow
  <2>1. /\ Body[saver[v].item] # NoBody
        /\ Named(v) => Touched(job) \/ files[job][Body[saver[v].item]] # "none"
    BY DEF IInv, FilesFollow
  <2>2. Body[saver[v].item] \in Bodies /\ job \in JobIds
    BY <2>1 DEF IInv, ArchiveHonest, TypeOK, Callbacks, CrawlOver
  <2>3. QED
    BY <1>1, <1>2, <1>3, <2>1, <2>2 DEF Remembers
<1>7. Unborn'
  BY <1>1, <1>2 DEF IInv, Unborn
<1>8. QED
  BY <1>1, <1>3, <1>4, <1>5, <1>6, <1>7, KeepsHonest, KeepsStored, KeepsItems, KeepsCounters,
     KeepsDeletions, KeepsOthers DEF IInv, ArchiveHonest

LEMMA LateFinishIInv ==
  ASSUME IInv, NEW j \in JobIds, NEW ok \in BOOLEAN, LateFinish(j, ok) PROVE IInv'
<1>1. /\ UNCHANGED <<lastId, rows, files, job, ctx, pending, saver, counted, announced, deleter,
                     faults, deletions>>
      /\ j \in late /\ late' = late \ {j} /\ j # job
  BY DEF LateFinish, IInv, ArchiveHonest, TypeOK
<1>2. ASSUME NEW q \in jobs'
      PROVE  /\ q \in JobRows
             /\ \E r \in jobs : /\ q.id = r.id /\ q.items = r.items
                                /\ q = r \/ (r.id = j /\ q = [r EXCEPT !.status = "cancelled"])
                                /\ q.status # "cancelled" => q = r
  <2>1. jobs \subseteq JobRows
    BY DEF IInv, ArchiveHonest, TypeOK
  <2>2. CASE ok
    <3>1. PICK r \in jobs : q = IF r.id = j THEN [r EXCEPT !.status = "cancelled"] ELSE r
      BY <2>2 DEF LateFinish
    <3>2. QED
      BY <2>1, <3>1 DEF JobRows
  <2>3. CASE ~ok
    BY <2>1, <2>3 DEF LateFinish
  <2>4. QED
    BY <2>2, <2>3
<1>3. Remembers /\ \A k : (Touched(k)' <=> Touched(k)) /\ (Faulty(k)' <=> Faulty(k))
  BY <1>1 DEF Remembers, Touched, Faulty
<1>4. TypeOK'
  BY <1>1, <1>2 DEF IInv, ArchiveHonest, TypeOK
<1>5. \A k : RowsOf(k)' = RowsOf(k) /\ (Row(k) = {} => Row(k)' = {})
  BY <1>1, <1>2 DEF RowsOf, Row
<1>6. CountersHonest'
  <2> SUFFICES ASSUME NEW q \in jobs', ~Touched(q.id)'
               PROVE  /\ q.items <= Cardinality(RowsOf(q.id))
                      /\ q.status = "done" /\ ~Faulty(q.id)' => q.items = Cardinality(RowsOf(q.id))
    BY <1>5 DEF CountersHonest
  <2>1. PICK r \in jobs : /\ q.id = r.id /\ q.items = r.items
                          /\ q.status # "cancelled" => q = r
    BY <1>2
  <2>2. QED
    BY <1>3, <2>1 DEF IInv, ArchiveHonest, CountersHonest
<1>7. IdsApart'
  <2>1. \A q \in jobs' : q.id \in 1..lastId'
    BY <1>1, <1>2 DEF IInv, IdsApart
  <2>2. ASSUME NEW p \in jobs', NEW q \in jobs', p.id = q.id PROVE p = q
    <3>1. CASE ok
      <4>1. PICK r \in jobs : p = IF r.id = j THEN [r EXCEPT !.status = "cancelled"] ELSE r
        BY <3>1 DEF LateFinish
      <4>2. PICK s \in jobs : q = IF s.id = j THEN [s EXCEPT !.status = "cancelled"] ELSE s
        BY <3>1 DEF LateFinish
      <4>3. r.id = p.id /\ s.id = q.id
        BY <4>1, <4>2 DEF IInv, ArchiveHonest, TypeOK, JobRows
      <4>4. r = s
        BY <2>2, <4>3 DEF IInv, IdsApart
      <4>5. QED
        BY <4>1, <4>2, <4>4
    <3>2. CASE ~ok
      BY <2>2, <3>2 DEF LateFinish, IInv, IdsApart
    <3>3. QED
      BY <3>1, <3>2
  <2>3. QED
    BY <2>1, <2>2 DEF IdsApart
<1>8. CountersFollow'
  <2>1. \A q \in Row(job)' : q \in Row(job)
    BY <1>1, <1>2 DEF Row
  <2>2. Bumping' = Bumping
    BY <1>1 DEF Bumping
  <2>3. QED
    BY <1>1, <1>3, <1>5, <2>1, <2>2 DEF IInv, CountersFollow, Live
<1>9. DeletionsFollow'
  BY <1>1, <1>5 DEF IInv, DeletionsFollow
<1>10. QED
  BY <1>1, <1>3, <1>4, <1>6, <1>7, <1>8, <1>9, KeepsFiles, KeepsStored, KeepsItems, KeepsFollowing,
     KeepsOthers DEF IInv, ArchiveHonest

-----------------------------------------------------------------------------
(* The deletion and the restart.                                           *)

\* What a statement of deleteJob has to do with: a job of the index, touched.
LEMMA Deleting ==
  ASSUME IInv, deleter.step # 0
  PROVE  /\ deleter.id \in 1..lastId /\ deleter.id \in JobIds /\ Touched(deleter.id)
<1>1. deleter \in Deleters /\ deleter.id <= lastId /\ lastId \in 0..MaxJobs
  BY DEF IInv, ArchiveHonest, TypeOK
<1>2. deleter.id # 0
  BY DEF IInv, DeletionsFollow, NoDeletion
<1>3. QED
  BY <1>1, <1>2 DEF Deleters, Touched

\* The deletion goes on record, as a success only after its last statement.
LEMMA RecordsDeletion ==
  ASSUME IInv, NEW ok \in BOOLEAN, Deleted(ok), deleter.step # 0, ok => deleter.step = 4,
         UNCHANGED <<lastId, jobs, rows>>, job' = job \/ job' = 0
  PROVE  /\ deleter' \in Deleters /\ deleter'.id <= lastId
         /\ \A d \in deletions' : d.id \in 1..lastId
         /\ DeletionsFollow'
<1>1. deleter' = NoDeletion /\ deleter' \in Deleters /\ deleter'.id = 0 /\ deleter'.step = 0
  BY DEF Deleted, NoDeletion, Deleters
<1>2. PICK d : d = [id |-> deleter.id, live |-> deleter.live, ok |-> ok]
  OBVIOUS
<1>3. deletions' = deletions \cup {d} /\ d.id = deleter.id /\ d.live = deleter.live /\ d.ok = ok
  BY <1>2 DEF Deleted
<1>4. \A e \in deletions : e.id \in 1..lastId
  BY DEF IInv, ArchiveHonest, TypeOK
<1>5. \A e \in deletions' : e.id \in 1..lastId
  BY <1>3, <1>4, Deleting
<1>6. \A j : RowsOf(j)' = RowsOf(j) /\ Row(j)' = Row(j)
  BY DEF RowsOf, Row
<1>7. d.ok /\ ~d.live => d.id # job /\ Row(d.id) = {} /\ RowsOf(d.id) = {}
  BY <1>3, Deleting DEF IInv, DeletionsFollow
<1>8. \A e \in deletions : e.ok /\ ~e.live => e.id # job /\ Row(e.id) = {} /\ RowsOf(e.id) = {}
  BY DEF IInv, DeletionsFollow
<1>9. \A e \in deletions' : e.ok /\ ~e.live => e.id # job' /\ Row(e.id)' = {} /\ RowsOf(e.id)' = {}
  BY <1>3, <1>5, <1>6, <1>7, <1>8
<1>10. DeletionsFollow'
  BY <1>1, <1>9 DEF DeletionsFollow
<1>11. lastId \in Nat
  BY Numbers DEF IInv, ArchiveHonest
<1>12. QED
  BY <1>1, <1>5, <1>10, <1>11

LEMMA DeleteBeginsIInv ==
  ASSUME IInv, NEW j \in JobIds, DeleteBegins(j) PROVE IInv'
<1>1. /\ UNCHANGED <<lastId, jobs, rows, files, job, ctx, late, pending, saver, counted, announced,
                     faults, deletions>>
      /\ deleter = NoDeletion /\ deleter.id = 0
      /\ j \in 1..lastId
  BY DEF DeleteBegins, database, crawl, NoDeletion, Row, IInv, IdsApart
<1>2. deleter'.id = j /\ deleter'.step = 1 /\ (deleter'.live <=> job = j) /\ deleter' \in Deleters
  <2>1. PICK live \in BOOLEAN : live <=> job = j
    OBVIOUS
  <2>2. deleter' = [id |-> j, step |-> 1, live |-> live]
    BY <2>1 DEF DeleteBegins
  <2>3. QED
    BY <2>1, <2>2 DEF Deleters
<1>3. Remembers
  BY <1>1, <1>2 DEF Remembers, Touched, Faulty
<1>4. TypeOK'
  BY <1>1, <1>2 DEF IInv, ArchiveHonest, TypeOK
<1>5. \A k : RowsOf(k)' = RowsOf(k) /\ Row(k)' = Row(k)
  BY <1>1 DEF RowsOf, Row
<1>6. DeletionsFollow'
  BY <1>1, <1>2, <1>5 DEF IInv, DeletionsFollow
<1>7. QED
  BY <1>1, <1>3, <1>4, <1>6, KeepsFiles, KeepsHonest, KeepsStored, KeepsItems, KeepsCounters, KeepsFollowing,
     KeepsOthers DEF IInv, ArchiveHonest

LEMMA DeleteRowsIInv ==
  ASSUME IInv, NEW pages \in BOOLEAN, DeleteRows(pages) PROVE IInv'
<1>1. /\ UNCHANGED <<lastId, jobs, files, job, ctx, late, pending, saver, counted, announced, faults, deletions>>
      /\ deleter.step = IF pages THEN 1 ELSE 2
      /\ rows' = rows \ {r \in RowsOf(deleter.id) : Body[r.item] = NoBody <=> pages}
  BY DEF DeleteRows, crawl
<1>2. /\ deleter'.id = deleter.id /\ deleter'.live = deleter.live /\ deleter'.step = deleter.step + 1
      /\ deleter' \in Deleters
  <2>1. deleter \in Deleters
    BY DEF IInv, ArchiveHonest, TypeOK
  <2>2. deleter' = [deleter EXCEPT !.step = @ + 1]
    BY DEF DeleteRows
  <2>3. QED
    BY <1>1, <2>1, <2>2 DEF Deleters
<1>3. \A k : /\ RowsOf(k)' \subseteq RowsOf(k) /\ Row(k)' = Row(k)
             /\ Touched(k)' <=> Touched(k)
             /\ Faulty(k)' <=> Faulty(k)
             /\ k # deleter.id => RowsOf(k)' = RowsOf(k)
  BY <1>1, <1>2 DEF RowsOf, Row, Touched, Faulty
<1>4. Touched(deleter.id) /\ deleter.id \in 1..lastId
  BY <1>1, Deleting
<1>5. RowsOf(deleter.id)' = {r \in RowsOf(deleter.id) : ~(Body[r.item] = NoBody <=> pages)}
  BY <1>1, <1>2 DEF RowsOf
<1>6. TypeOK'
  <2>1. IsFiniteSet(rows')
    BY <1>1, FS_Subset DEF IInv, ArchiveHonest, TypeOK
  <2>2. QED
    BY <1>1, <1>2, <2>1 DEF IInv, ArchiveHonest, TypeOK
<1>7. RowsHaveFiles' /\ BodiesNamed'
  BY <1>1, <1>3 DEF IInv, ArchiveHonest, RowsHaveFiles, BodiesNamed
<1>8. CountersHonest' /\ AnnouncedIsStored'
  <2>1. \A k : ~Touched(k)' => RowsOf(k)' = RowsOf(k)
    BY <1>3, <1>4
  <2>2. CountersHonest'
    BY <1>1, <1>3, <2>1 DEF IInv, ArchiveHonest, CountersHonest
  <2>3. Touched(lastId)' <=> Touched(lastId)
    BY <1>1, <1>2 DEF Touched
  <2>4. ~Touched(lastId) => RowsOf(lastId)' = RowsOf(lastId)
    BY <1>1, <1>4 DEF RowsOf
  <2>5. AnnouncedIsStored'
    BY <1>1, <2>3, <2>4 DEF IInv, ArchiveHonest, AnnouncedIsStored
  <2>6. QED
    BY <2>2, <2>5
<1>9. ItemsOnce' /\ CrawlOver'
  <2>1. RowsOf(job)' \subseteq RowsOf(job)
    BY <1>1 DEF RowsOf
  <2>2. QED
    BY <1>1, <2>1 DEF IInv, ItemsOnce, CrawlOver
<1>10. CountersFollow'
  <2>1. Bumping' = Bumping /\ Row(job)' = Row(job)
    BY <1>1 DEF Bumping, Row
  <2>2. (Touched(job)' <=> Touched(job)) /\ (Faulty(job)' <=> Faulty(job))
    BY <1>1, <1>2 DEF Touched, Faulty
  <2>3. ~Touched(job) => RowsOf(job)' = RowsOf(job)
    BY <1>1, <1>4 DEF RowsOf
  <2>4. QED
    BY <1>1, <2>1, <2>2, <2>3 DEF IInv, CountersFollow, Live
<1>11. FilesFollow'
  <2>1. Touched(job)' <=> Touched(job)
    BY <1>1, <1>2 DEF Touched
  <2>2. QED
    BY <1>1, <2>1 DEF IInv, FilesFollow
<1>12. DeletionsFollow'
  <2>1. \A k : RowsOf(k) = {} => RowsOf(k)' = {}
    BY <1>3
  <2>2. ASSUME deleter.id # 0, ~deleter.live
        PROVE  /\ deleter.id # job
               /\ \A r \in RowsOf(deleter.id)' : Body[r.item] # NoBody
               /\ ~pages => RowsOf(deleter.id)' = {}
    <3>1. deleter.id # job /\ (~pages => \A r \in RowsOf(deleter.id) : Body[r.item] # NoBody)
      BY <1>1, <2>2 DEF IInv, DeletionsFollow
    <3>2. QED
      BY <1>5, <3>1
  <2>3. deleter' # NoDeletion => deleter'.id # 0 /\ deleter'.step # 0
    BY <1>1, <1>2, <1>4
  <2>4. deleter'.step = IF pages THEN 2 ELSE 3
    BY <1>1, <1>2
  <2>5. ASSUME deleter'.id # 0, ~deleter'.live
        PROVE  /\ deleter'.id # job'
               /\ deleter'.step >= 2 => \A r \in RowsOf(deleter.id)' : Body[r.item] # NoBody
               /\ deleter'.step >= 3 => RowsOf(deleter.id)' = {}
               /\ deleter'.step = 4 => Row(deleter.id)' = {}
    BY <1>1, <1>2, <2>2, <2>4, <2>5
  <2>6. \A d \in deletions' : d.ok /\ ~d.live => d.id # job' /\ Row(d.id)' = {} /\ RowsOf(d.id)' = {}
    BY <1>1, <1>3, <2>1 DEF IInv, DeletionsFollow
  <2>7. QED
    BY <2>3, <2>5, <2>6 DEF DeletionsFollow
<1>13. QED
  BY <1>1, <1>6, <1>7, <1>8, <1>9, <1>10, <1>11, <1>12, KeepsOthers DEF IInv, ArchiveHonest

LEMMA DeleteJobRowIInv == ASSUME IInv, DeleteJobRow PROVE IInv'
<1>1. /\ UNCHANGED <<lastId, rows, files, job, ctx, late, pending, saver, counted, announced, faults, deletions>>
      /\ deleter.step = 3 /\ jobs' = jobs \ Row(deleter.id)
  BY DEF DeleteJobRow, crawl
<1>2. /\ deleter'.id = deleter.id /\ deleter'.live = deleter.live /\ deleter'.step = 4
      /\ deleter' \in Deleters
  <2>1. deleter \in Deleters
    BY DEF IInv, ArchiveHonest, TypeOK
  <2>2. deleter' = [deleter EXCEPT !.step = 4]
    BY DEF DeleteJobRow
  <2>3. QED
    BY <2>1, <2>2 DEF Deleters
<1>3. \A k : /\ Row(k)' \subseteq Row(k) /\ RowsOf(k)' = RowsOf(k)
             /\ Touched(k)' <=> Touched(k)
             /\ Faulty(k)' <=> Faulty(k)
  BY <1>1, <1>2 DEF RowsOf, Row, Touched, Faulty
<1>4. deleter.id \in 1..lastId /\ Row(deleter.id)' = {}
  BY <1>1, <1>2, Deleting DEF Row
<1>5. Remembers
  BY <1>3 DEF Remembers
<1>6. TypeOK'
  BY <1>1, <1>2 DEF IInv, ArchiveHonest, TypeOK
<1>7. CountersHonest' /\ IdsApart'
  BY <1>1, <1>3 DEF IInv, ArchiveHonest, CountersHonest, IdsApart
<1>8. CountersFollow'
  <2>1. Bumping' = Bumping /\ Row(job)' \subseteq Row(job) /\ RowsOf(job)' = RowsOf(job)
    BY <1>1 DEF Bumping, Row, RowsOf
  <2>2. (Touched(job)' <=> Touched(job)) /\ (Faulty(job)' <=> Faulty(job))
    BY <1>1, <1>2 DEF Touched, Faulty
  <2>3. QED
    BY <1>1, <2>1, <2>2 DEF IInv, CountersFollow, Live
<1>9. DeletionsFollow'
  <2>1. \A k : Row(k) = {} => Row(k)' = {}
    BY <1>3
  <2>2. deleter.id # 0 /\ ~deleter.live => deleter.id # job /\ RowsOf(deleter.id) = {}
    BY <1>1 DEF IInv, DeletionsFollow
  <2>3. QED
    BY <1>1, <1>2, <1>3, <1>4, <2>1, <2>2 DEF IInv, DeletionsFollow
<1>10. QED
  BY <1>1, <1>5, <1>6, <1>7, <1>8, <1>9, KeepsFiles, KeepsStored, KeepsItems, KeepsFollowing,
     KeepsOthers DEF IInv, ArchiveHonest

LEMMA DeleteFilesIInv ==
  ASSUME IInv, NEW ok \in BOOLEAN, DeleteFiles(ok) PROVE IInv'
<1>1. /\ UNCHANGED <<lastId, jobs, rows, job, ctx, late, pending, saver, counted, announced, faults>>
      /\ deleter.step = 4 /\ Deleted(TRUE)
  BY DEF DeleteFiles, database, crawl
<1>2. deleter.id \in JobIds /\ Touched(deleter.id)
  BY <1>1, Deleting
<1>3. /\ files' \in [JobIds -> [Bodies -> {"none", "part", "whole"}]]
      /\ \A k \in JobIds : k # deleter.id => files'[k] = files[k]
      /\ \A k \in JobIds : \A b \in Bodies : files[k][b] = "none" => files'[k][b] = "none"
  <2>1. files \in [JobIds -> [Bodies -> {"none", "part", "whole"}]]
    BY DEF IInv, ArchiveHonest, TypeOK
  <2>2. PICK f : f = [b \in Bodies |-> "none"]
    OBVIOUS
  <2>3. f \in [Bodies -> {"none", "part", "whole"}] /\ \A b \in Bodies : f[b] = "none"
    BY <2>2
  <2>4. files' = files \/ files' = [files EXCEPT ![deleter.id] = f]
    BY <2>2 DEF DeleteFiles
  <2>5. QED
    BY <1>2, <2>1, <2>3, <2>4
<1>4. /\ \A k \in JobIds : Touched(k)' <=> Touched(k)
      /\ \A k : Faulty(k)' <=> Faulty(k)
  BY <1>1, TouchedRecorded DEF Faulty
<1>5. Remembers
  BY <1>4 DEF Remembers
<1>6. /\ deleter' \in Deleters /\ deleter'.id <= lastId
      /\ \A d \in deletions' : d.id \in 1..lastId
      /\ DeletionsFollow'
  <2>1. deleter.step # 0 /\ (TRUE => deleter.step = 4) /\ TRUE \in BOOLEAN
    BY <1>1
  <2>2. QED
    BY <1>1, <2>1, RecordsDeletion
<1>7. TypeOK'
  BY <1>1, <1>3, <1>6 DEF IInv, ArchiveHonest, TypeOK
<1>8. RowsHaveFiles'
  <2>1. \A r \in rows : r.job \in JobIds
    BY DEF IInv, ArchiveHonest, TypeOK
  <2>2. QED
    BY <1>1, <1>2, <1>3, <1>4, <2>1 DEF IInv, ArchiveHonest, RowsHaveFiles
<1>9. FilesFollow'
  <2>1. ASSUME NEW w \in Workers, saver[w].at # "idle" PROVE job \in JobIds
    BY <2>1 DEF IInv, ArchiveHonest, TypeOK, CrawlOver
  <2>2. job \in JobIds => (Touched(job)' <=> Touched(job))
    BY <1>1, <1>4 DEF Touched
  <2>3. job \in JobIds /\ ~Touched(job) => files'[job] = files[job]
    BY <1>2, <1>3
  <2>4. QED
    BY <1>1, <2>1, <2>2, <2>3 DEF IInv, FilesFollow
<1>10. Unborn'
  BY <1>1, <1>3 DEF IInv, Unborn
<1>11. QED
  BY <1>1, <1>5, <1>6, <1>7, <1>8, <1>9, <1>10, KeepsHonest, KeepsStored, KeepsItems, KeepsCounters,
     KeepsOthers DEF IInv, ArchiveHonest

LEMMA DeleteFailsIInv == ASSUME IInv, DeleteFails PROVE IInv'
<1>1. /\ UNCHANGED <<lastId, jobs, rows, files, job, ctx, late, pending, saver, counted, announced, faults>>
      /\ deleter.step \in 1..3 /\ Deleted(FALSE)
  BY DEF DeleteFails, database, crawl
<1>2. Remembers
  BY <1>1, TouchedRecorded DEF Remembers, Faulty
<1>3. /\ deleter' \in Deleters /\ deleter'.id <= lastId
      /\ \A d \in deletions' : d.id \in 1..lastId
      /\ DeletionsFollow'
  <2>1. deleter.step # 0
    BY <1>1
  <2>2. QED
    BY <1>1, <2>1, RecordsDeletion
<1>4. TypeOK'
  BY <1>1, <1>3 DEF IInv, ArchiveHonest, TypeOK
<1>5. QED
  BY <1>1, <1>2, <1>3, <1>4, KeepsFiles, KeepsHonest, KeepsStored, KeepsItems, KeepsCounters, KeepsFollowing,
     KeepsOthers DEF IInv, ArchiveHonest

LEMMA RestartIInv == ASSUME IInv, Restart PROVE IInv'
<1>1. /\ UNCHANGED <<lastId, jobs, rows, files, faults>>
      /\ job' = 0 /\ ctx' = "none" /\ late' = {} /\ pending' = {} /\ counted' = 0 /\ announced' = -1
      /\ saver' = [w \in Workers |-> Resting]
  BY DEF Restart, database
<1>2. Resting \in Callbacks /\ Resting.at = "idle"
  BY DEF Resting, Callbacks
<1>3. saver' \in [Workers -> Callbacks] /\ \A w \in Workers : saver'[w].at = "idle"
  BY <1>1, <1>2
<1>4. /\ Remembers
      /\ deleter' \in Deleters /\ deleter'.id <= lastId
      /\ \A d \in deletions' : d.id \in 1..lastId
      /\ DeletionsFollow'
  <2>1. CASE deleter = NoDeletion
    <3>1. UNCHANGED <<deleter, deletions>>
      BY <2>1 DEF Restart
    <3>2. deleter.id = 0 /\ \A d \in deletions : d.id \in 1..lastId
      BY <2>1 DEF NoDeletion, IInv, ArchiveHonest, TypeOK
    <3>3. \A k : RowsOf(k)' = RowsOf(k) /\ Row(k)' = Row(k)
      BY <1>1 DEF RowsOf, Row
    <3>4. DeletionsFollow'
      BY <1>1, <3>1, <3>2, <3>3 DEF IInv, DeletionsFollow
    <3>5. Remembers
      BY <1>1, <3>1 DEF Remembers, Touched, Faulty
    <3>6. QED
      BY <3>1, <3>4, <3>5 DEF IInv, ArchiveHonest, TypeOK
  <2>2. CASE deleter # NoDeletion /\ deleter.step # 0
    <3>1. Deleted(FALSE)
      BY <2>2 DEF Restart
    <3>2. Remembers
      BY <1>1, <3>1, TouchedRecorded DEF Remembers, Faulty
    <3>3. QED
      BY <1>1, <2>2, <3>1, <3>2, RecordsDeletion
  <2>3. deleter.step = 0 => deleter = NoDeletion
    BY DEF IInv, ArchiveHonest, TypeOK, Deleters, NoDeletion, DeletionsFollow
  <2>4. QED
    BY <2>1, <2>2, <2>3
<1>5. TypeOK'
  BY <1>1, <1>3, <1>4 DEF IInv, ArchiveHonest, TypeOK
<1>6. AnnouncedIsStored' /\ CrawlOver' /\ CountersFollow' /\ FilesFollow'
  BY <1>1, <1>3 DEF AnnouncedIsStored, CrawlOver, CountersFollow, FilesFollow
<1>7. ItemsOnce'
  <2>1. RowsOf(job)' = {}
    BY <1>1 DEF IInv, ArchiveHonest, TypeOK, RowsOf
  <2>2. QED
    BY <1>1, <1>3, <2>1 DEF ItemsOnce
<1>8. QED
  BY <1>1, <1>4, <1>5, <1>6, <1>7, KeepsFiles, KeepsHonest, KeepsOthers DEF IInv, ArchiveHonest

-----------------------------------------------------------------------------
(* The theorems.                                                           *)

LEMMA InitIInv == ASSUME Init PROVE IInv
<1>1. Resting \in Callbacks /\ Resting.at = "idle"
  BY DEF Resting, Callbacks
<1>2. NoDeletion \in Deleters /\ NoDeletion.id = 0
  <2>1. PICK no \in BOOLEAN : no = FALSE
    OBVIOUS
  <2>2. NoDeletion = [id |-> 0, step |-> 0, live |-> no]
    BY <2>1 DEF NoDeletion
  <2>3. QED
    BY <2>2 DEF Deleters
<1>3. IsFiniteSet(rows)
  BY FS_EmptySet DEF Init
<1>4. TypeOK
  BY <1>1, <1>2, <1>3 DEF Init, TypeOK
<1>5. RowsHaveFiles /\ CountersHonest /\ AnnouncedIsStored
  BY DEF Init, RowsHaveFiles, CountersHonest, AnnouncedIsStored
<1>6. CrawlOver /\ IdsApart /\ ItemsOnce /\ CountersFollow
  BY <1>1 DEF Init, CrawlOver, IdsApart, ItemsOnce, CountersFollow, RowsOf
<1>7. FilesFollow /\ BodiesNamed /\ Unborn /\ DeletionsFollow
  BY <1>1, <1>2 DEF Init, FilesFollow, BodiesNamed, Unborn, DeletionsFollow
<1>8. QED
  BY <1>4, <1>5, <1>6, <1>7 DEF IInv, ArchiveHonest

LEMMA StutterIInv == ASSUME IInv, UNCHANGED vars PROVE IInv'
<1> USE DEF vars, database, crawl
<1>1. TypeOK'
  BY DEF IInv, ArchiveHonest, TypeOK
<1>2. Remembers
  BY DEF Remembers, Touched, Faulty
<1>3. QED
  BY <1>1, <1>2, KeepsFiles, KeepsHonest, KeepsStored, KeepsItems, KeepsCounters, KeepsFollowing,
     KeepsDeletions, KeepsOthers DEF IInv, ArchiveHonest

LEMMA NextIInv == ASSUME IInv, [Next]_vars PROVE IInv'
<1>1. CASE \E found \in Finds : BeginJob(found)
  BY <1>1, BeginJobIInv
<1>2. CASE Cancel
  BY <1>2, CancelIInv
<1>3. CASE \E ok \in BOOLEAN : FinishJob(ok)
  BY <1>3, FinishJobIInv
<1>4. CASE \E w \in Workers : Save(w)
  <2>1. PICK w \in Workers : Save(w)
    BY <1>4
  <2>2. CASE (\E i \in Items : SaveBegins(w, i)) \/ CreateFile(w)
    BY <2>2, SaveBeginsIInv, CreateFileIInv
  <2>3. CASE \E ok \in BOOLEAN : WriteEnds(w, ok)
    BY <2>3, WriteEndsIInv
  <2>4. CASE \E ok \in BOOLEAN : Insert(w, ok)
    BY <2>4, InsertIInv
  <2>5. CASE \E ok \in BOOLEAN : Bump(w, ok)
    BY <2>5, BumpIInv
  <2>6. QED
    BY <2>1, <2>2, <2>3, <2>4, <2>5 DEF Save
<1>5. CASE Delete
  <2>1. CASE \E j \in JobIds : DeleteBegins(j)
    BY <2>1, DeleteBeginsIInv
  <2>2. CASE \E ok \in BOOLEAN : DeleteFiles(ok)
    BY <2>2, DeleteFilesIInv
  <2>3. CASE \E pages \in BOOLEAN : DeleteRows(pages)
    BY <2>3, DeleteRowsIInv
  <2>4. QED
    BY <1>5, <2>1, <2>2, <2>3, DeleteJobRowIInv, DeleteFailsIInv DEF Delete
<1>6. CASE Restart
  BY <1>6, RestartIInv
<1>7. CASE \E j \in JobIds : Late(j)
  BY <1>7, LateWriteIInv, LateFinishIInv DEF Late
<1>8. CASE UNCHANGED vars
  BY <1>8, StutterIInv
<1>9. QED
  BY <1>1, <1>2, <1>3, <1>4, <1>5, <1>6, <1>7, <1>8 DEF Next

\* The archive stays within the invariant whatever the callbacks, the user,
\* the disk and the end of the program do.
THEOREM Invariance == Spec => []IInv
<1>1. Init => IInv
  BY InitIInv
<1>2. IInv /\ [Next]_vars => IInv'
  BY NextIInv
<1>3. QED
  BY <1>1, <1>2, PTL DEF Spec

\* Rows have their files, a job's counters never promise more than its rows
\* and are exact in a job done without a failed write, and the totals a crawl
\* reports are its rows (store.go writeAsset, InsertPage, InsertAsset, bumpJob,
\* FinishJob; scrape_app.go Scrape).
THEOREM Honest == Spec => []ArchiveHonest
<1>1. IInv => ArchiveHonest
  BY DEF IInv
<1>2. QED
  BY <1>1, Invariance, PTL

\* A job deleted after its crawl leaves no rows behind, ever, and a new job
\* never finds rows or files of an earlier one (store.go DeleteJob, BeginJob).
THEOREM DeletionFinal == Spec => DeletionIsFinal
<1>1. IInv' => \A d \in deletions' : d.ok /\ ~d.live => (Row(d.id) = {} /\ RowsOf(d.id) = {})'
  BY DEF IInv, DeletionsFollow
<1>2. ASSUME IInv, [Next]_vars, job' # job, job' # 0
      PROVE  RowsOf(job') = {} /\ \A b \in Bodies : files[job'][b] = "none"
  <2>1. \E found \in Finds : BeginJob(found)
    BY <1>2 DEF Next, Cancel, FinishJob, Save, SaveBegins, Looks, CreateFile, WriteEnds, Insert, Bump, Late, LateWrite, LateFinish, Delete, DeleteBegins,
       DeleteRows, DeleteJobRow, DeleteFiles, DeleteFails, Restart, vars, crawl
  <2>2. job' = lastId + 1 /\ lastId < MaxJobs
    BY <2>1 DEF BeginJob
  <2>3. lastId \in Nat /\ \A r \in rows : r.job \in 1..lastId
    BY <1>2 DEF IInv, ArchiveHonest, TypeOK
  <2>4. RowsOf(job') = {}
    BY <2>2, <2>3 DEF RowsOf
  <2>5. job' \in JobIds /\ job' > lastId
    BY <2>2, <2>3
  <2>6. QED
    BY <1>2, <2>4, <2>5 DEF IInv, Unborn
<1>3. QED
  BY <1>1, <1>2, Invariance, PTL DEF Spec, DeletionIsFinal, DeletedStaysDeleted, NewJobsEmpty
=============================================================================
