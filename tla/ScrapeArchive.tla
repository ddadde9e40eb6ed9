--------------------------- MODULE ScrapeArchive ---------------------------
(***************************************************************************)
(* The scrape archive: rows in one SQLite database, bodies in one file per *)
(* content (src/internal/scrape/store.go), written by the callbacks of     *)
(* App.Scrape (src/scrape_app.go) in the crawl's workers, and a job        *)
(* deleted from the index window while that goes on.  The program may end  *)
(* at any moment and be started again.                                     *)
(*                                                                         *)
(* The database has one connection, so a statement is one step, its FTS    *)
(* triggers included.  A page is an item without a body.  A crawl that the *)
(* next one has cancelled returns in its own time, beside that one: of it  *)
(* the model keeps what it can still do to its job and to its files.       *)
(***************************************************************************)
EXTENDS Integers, FiniteSets, Sequences

CONSTANTS Workers,      \* the crawl's concurrent callbacks
          Items,        \* what crawls may save
          Finds,        \* the sets of items one crawl may find
          Bodies,       \* the contents an item may have
          NoBody,       \* the body of a page
          Body,         \* [Items -> Bodies \cup {NoBody}]
          MaxJobs,      \* bound: the jobs started
          MaxFaults,    \* bound: writes that fail for another reason than ctx
          MaxDeletions  \* bound: the deletions the user starts

ASSUME ArchiveAssumption ==
  /\ IsFiniteSet(Workers) /\ Items # {} /\ \A found \in Finds : found \subseteq Items
  /\ NoBody \notin Bodies /\ Body \in [Items -> Bodies \cup {NoBody}]
  /\ MaxJobs \in Nat

JobIds == 1..MaxJobs

VARIABLES
  lastId,               \* sqlite_sequence of scrape_job
  jobs,                 \* the job rows: [id, status, items, bytes]
  rows,                 \* page and asset rows: [job, item, file: BOOLEAN]
  files,                \* [JobIds -> [Bodies -> "none", "part" or "whole"]]
  job, ctx,             \* the crawl under way (0: none) and its context
  late,                 \* the evicted crawls that have not returned
  pending,              \* items of it not yet handed to a callback
  saver,                \* [Workers]: a callback under way
  counted,              \* App.Scrape's counter of this crawl
  announced,            \* the counter in its EventScrapeDone, or -1
  deleter,              \* deleteJob in the index window
  faults,               \* history: the crawl of each write that failed
  deletions             \* history: [id, live: its crawl was running, ok]

database == <<lastId, jobs, rows>>
crawl == <<job, ctx, late, pending, saver, counted, announced>>
vars == <<database, files, crawl, deleter, faults, deletions>>

Resting == [at |-> "idle", item |-> CHOOSE i \in Items : TRUE, file |-> FALSE]
NoDeletion == [id |-> 0, step |-> 0, live |-> FALSE]

Init ==
  /\ lastId = 0 /\ jobs = {} /\ rows = {}
  /\ files = [j \in JobIds |-> [b \in Bodies |-> "none"]]
  /\ job = 0 /\ ctx = "none" /\ late = {} /\ pending = {}
  /\ saver = [w \in Workers |-> Resting]
  /\ counted = 0 /\ announced = -1
  /\ deleter = NoDeletion
  /\ faults = <<>> /\ deletions = {}

Row(j) == {r \in jobs : r.id = j}
RowsOf(j) == {r \in rows : r.job = j}
Live == ctx = "live"

Fails == Len(faults) < MaxFaults /\ faults' = Append(faults, job)

\* A write succeeds only with a live context, and may fail with one.
Outcome(ok) ==
  IF ok THEN Live /\ UNCHANGED faults
  ELSE IF Live THEN Fails ELSE UNCHANGED faults

-----------------------------------------------------------------------------
(* App.Scrape and the store's Begin and Finish.                            *)

\* The slot has cancelled the crawl that was under way, see Canceler; nothing
\* waits for it, and the workers of this one are its own.
BeginJob(found) ==
  /\ lastId < MaxJobs
  /\ lastId' = lastId + 1
  /\ jobs' = jobs \cup {[id |-> lastId + 1, status |-> "running", items |-> 0]}
  /\ job' = lastId + 1 /\ late' = late \cup ({job} \ {0})
  /\ ctx' = "live" /\ pending' = found /\ saver' = [w \in Workers |-> Resting]
  /\ counted' = 0 /\ announced' = -1
  /\ UNCHANGED <<rows, files, deleter, faults, deletions>>

Cancel ==
  /\ job # 0 /\ Live
  /\ ctx' = "cancelled"
  /\ UNCHANGED <<database, files, job, late, pending, saver, counted, announced, deleter, faults, deletions>>

\* All callbacks have returned.  FinishJob has a context of its own, its error
\* is dropped, and it finds no row if the job has been deleted.
FinishJob(ok) ==
  /\ job # 0
  /\ \A w \in Workers : saver[w].at = "idle"
  /\ jobs' = IF ok THEN {IF r.id = job THEN [r EXCEPT !.status = IF Live THEN "done" ELSE "cancelled"]
                         ELSE r : r \in jobs}
             ELSE jobs
  /\ IF ok THEN UNCHANGED faults ELSE Fails
  /\ announced' = counted
  /\ ctx' = "none" /\ job' = 0 /\ pending' = {} /\ counted' = 0
  /\ UNCHANGED <<lastId, rows, files, late, saver, deleter, deletions>>

\* A callback of an evicted crawl writes or goes on writing a file, which asks
\* for no context; an insert of it fails, its context being cancelled.
LateWrite(j, b, content) ==
  /\ j \in late
  /\ content = "whole" => files[j][b] = "part"
  /\ files' = [files EXCEPT ![j][b] = content]
  /\ UNCHANGED <<database, crawl, deleter, faults, deletions>>

\* An evicted crawl returns.
LateFinish(j, ok) ==
  /\ j \in late
  /\ jobs' = IF ok THEN {IF r.id = j THEN [r EXCEPT !.status = "cancelled"] ELSE r : r \in jobs} ELSE jobs
  /\ late' = late \ {j}
  /\ UNCHANGED <<lastId, rows, files, job, ctx, pending, saver, counted, announced, deleter, faults, deletions>>

-----------------------------------------------------------------------------
(* SavePage and SaveAsset, in the callbacks OnPage and OnAsset.            *)

Goto(w, place) ==
  saver' = [saver EXCEPT ![w] = IF place = "idle" THEN Resting ELSE [@ EXCEPT !.at = place]]

Looks(w, i, present) ==
  /\ job # 0 /\ saver[w].at = "idle" /\ i \in pending
  /\ pending' = pending \ {i}
  /\ saver' = [saver EXCEPT ![w] =
       [at |-> IF Body[i] = NoBody \/ present THEN "insert" ELSE "create", item |-> i, file |-> present]]
  /\ UNCHANGED <<database, files, job, ctx, late, counted, announced, deleter, faults, deletions>>

\* Faulty variant: a content is looked up in the files of every job.
SaveBeginsShared(w, i) ==
  Looks(w, i, Body[i] # NoBody /\ \E j \in JobIds : files[j][Body[i]] # "none")

\* writeAsset: an existing file is taken as it is, torn or whole.  A page has no
\* body to write.
SaveBegins(w, i) == Looks(w, i, Body[i] # NoBody /\ job # 0 /\ files[job][Body[i]] # "none")

\* WriteFile truncates what another callback has written since Stat.
CreateFile(w) ==
  /\ saver[w].at = "create"
  /\ files' = [files EXCEPT ![job][Body[saver[w].item]] = "part"]
  /\ Goto(w, "write")
  /\ UNCHANGED <<database, job, ctx, late, pending, counted, announced, deleter, faults, deletions>>

\* WriteFile has ended, or MkdirAll or the open has failed; after a failure the
\* row gets no path, and what was written stays on disk.  RemoveAll may have come in between.
WriteEnds(w, ok) ==
  /\ saver[w].at = "write" \/ (saver[w].at = "create" /\ ~ok)
  /\ LET b == Body[saver[w].item]
     IN files' = IF ok /\ files[job][b] # "none" THEN [files EXCEPT ![job][b] = "whole"] ELSE files
  /\ saver' = [saver EXCEPT ![w].at = "insert", ![w].file = ok]
  /\ IF ok THEN UNCHANGED faults ELSE Fails
  /\ UNCHANGED <<database, job, ctx, late, pending, counted, announced, deleter, deletions>>

\* The insert fails when the context has ended; then nothing is counted.
Insert(w, ok) ==
  /\ saver[w].at = "insert"
  /\ rows' = IF ok THEN rows \cup {[job |-> job, item |-> saver[w].item, file |-> saver[w].file]} ELSE rows
  /\ Goto(w, IF ok THEN "bump" ELSE "idle")
  /\ Outcome(ok)
  /\ UNCHANGED <<lastId, jobs, files, job, ctx, late, pending, counted, announced, deleter, deletions>>

Counted(w, ok) ==
  jobs' = IF ok THEN {IF r.id = job THEN [r EXCEPT !.items = @ + 1] ELSE r : r \in jobs} ELSE jobs

\* bumpJob drops its error; then the callback counts the item.
Bump(w, ok) ==
  /\ saver[w].at = "bump"
  /\ Counted(w, ok)
  /\ counted' = counted + 1
  /\ Goto(w, "idle")
  /\ Outcome(ok)
  /\ UNCHANGED <<lastId, rows, files, job, ctx, late, pending, announced, deleter, deletions>>

-----------------------------------------------------------------------------
(* DeleteJob, from the index window, one statement after the other.        *)

DeleteBegins(j) ==
  /\ deleter = NoDeletion /\ Row(j) # {} /\ Cardinality(deletions) < MaxDeletions
  /\ deleter' = [id |-> j, step |-> 1, live |-> job = j]
  /\ UNCHANGED <<database, files, crawl, faults, deletions>>

Deleted(ok) ==
  /\ deleter' = NoDeletion
  /\ deletions' = deletions \cup {[id |-> deleter.id, live |-> deleter.live, ok |-> ok]}

\* First the pages, then the assets.
DeleteRows(pages) ==
  /\ deleter.step = IF pages THEN 1 ELSE 2
  /\ rows' = rows \ {r \in RowsOf(deleter.id) : Body[r.item] = NoBody <=> pages}
  /\ deleter' = [deleter EXCEPT !.step = @ + 1]
  /\ UNCHANGED <<lastId, jobs, files, crawl, faults, deletions>>

DeleteJobRow ==
  /\ deleter.step = 3
  /\ jobs' = jobs \ Row(deleter.id)
  /\ deleter' = [deleter EXCEPT !.step = 4]
  /\ UNCHANGED <<lastId, rows, files, crawl, faults, deletions>>

\* RemoveAll; its error is dropped.
DeleteFiles(ok) ==
  /\ deleter.step = 4
  /\ files' = IF ok THEN [files EXCEPT ![deleter.id] = [b \in Bodies |-> "none"]] ELSE files
  /\ Deleted(TRUE)
  /\ UNCHANGED <<database, crawl, faults>>

\* Faulty variant: the error is not reported.
DeleteFailsQuietly ==
  /\ deleter.step \in 1..3
  /\ Deleted(TRUE)
  /\ UNCHANGED <<database, files, crawl, faults>>

\* A statement fails: the deletion stops there and reports the error.
DeleteFails ==
  /\ deleter.step \in 1..3
  /\ Deleted(FALSE)
  /\ UNCHANGED <<database, files, crawl, faults>>

-----------------------------------------------------------------------------
\* The program ends or is killed: what is in memory is gone.  The next start
\* opens the database and touches no job.
Restart ==
  /\ job # 0 \/ late # {} \/ deleter # NoDeletion
  /\ job' = 0 /\ ctx' = "none" /\ late' = {} /\ pending' = {}
  /\ saver' = [w \in Workers |-> Resting]
  /\ counted' = 0 /\ announced' = -1
  /\ IF deleter = NoDeletion THEN UNCHANGED <<deleter, deletions>> ELSE Deleted(FALSE)
  /\ UNCHANGED <<database, files, faults>>

Save(w) ==
  \/ (\E i \in Items : SaveBegins(w, i)) \/ CreateFile(w)
  \/ \E ok \in BOOLEAN : WriteEnds(w, ok) \/ Insert(w, ok) \/ Bump(w, ok)

Delete ==
  \/ \E j \in JobIds : DeleteBegins(j)
  \/ (\E pages \in BOOLEAN : DeleteRows(pages)) \/ DeleteJobRow
  \/ (\E ok \in BOOLEAN : DeleteFiles(ok)) \/ DeleteFails

Late(j) ==
  \/ \E b \in Bodies, content \in {"part", "whole"} : LateWrite(j, b, content)
  \/ \E ok \in BOOLEAN : LateFinish(j, ok)

Next ==
  \/ (\E found \in Finds : BeginJob(found)) \/ Cancel \/ (\E ok \in BOOLEAN : FinishJob(ok))
  \/ (\E j \in JobIds : Late(j)) \/ (\E w \in Workers : Save(w)) \/ Delete \/ Restart

Spec == Init /\ [][Next]_vars

-----------------------------------------------------------------------------
JobRows == [id : JobIds, status : {"running", "done", "cancelled"}, items : Nat]
Callbacks == [at : {"idle", "create", "write", "insert", "bump"}, item : Items, file : BOOLEAN]
Deleters == [id : 0..MaxJobs, step : 0..4, live : BOOLEAN]

TypeOK ==
  /\ lastId \in 0..MaxJobs /\ jobs \subseteq JobRows /\ IsFiniteSet(rows)
  /\ \A r \in rows : r.job \in 1..lastId /\ r.item \in Items
  /\ files \in [JobIds -> [Bodies -> {"none", "part", "whole"}]]
  /\ job \in {0, lastId} /\ late \subseteq 1..(lastId - 1)
  /\ ctx \in {"none", "live", "cancelled"} /\ pending \subseteq Items
  /\ saver \in [Workers -> Callbacks]
  /\ counted \in Nat /\ announced \in Nat \cup {-1}
  /\ deleter \in Deleters /\ deleter.id <= lastId /\ faults \in Seq(0..MaxJobs)
  /\ \A d \in deletions : d.id \in 1..lastId

Touched(j) == deleter.id = j \/ \E d \in deletions : d.id = j

\* A row that names a file has that file, unless the user has asked to delete
\* the job: the file is there before the row is, also when two workers save the
\* same body at once, and after the program was killed anywhere.  That it is
\* whole cannot be said: a callback names the file another one is writing, and
\* truncates one that a row names already.
RowsHaveFiles ==
  \A r \in rows : r.file /\ ~Touched(r.job) => files[r.job][Body[r.item]] # "none"

Faulty(j) == \E n \in DOMAIN faults : faults[n] = j

\* The counters of a job row never promise more than the archive holds, and a
\* job whose writes all succeeded has them exact when it is done.
CountersHonest ==
  \A r \in jobs : ~Touched(r.id) =>
    /\ r.items <= Cardinality(RowsOf(r.id))
    /\ r.status = "done" /\ ~Faulty(r.id) => r.items = Cardinality(RowsOf(r.id))

\* The totals a crawl ends with are the rows it has stored, also when it was
\* cancelled or writes failed.
AnnouncedIsStored ==
  announced >= 0 /\ job = 0 /\ lastId > 0 /\ ~Touched(lastId)
    => announced = Cardinality(RowsOf(lastId))

ArchiveHonest == TypeOK /\ RowsHaveFiles /\ CountersHonest /\ AnnouncedIsStored

\* A new job starts with an empty directory and no rows, whatever deletions
\* of a running or of the newest job have left behind: ids are not reused.
NewJobsEmpty ==
  [][ job' # job /\ job' # 0 =>
        RowsOf(job') = {} /\ \A b \in Bodies : files[job'][b] = "none" ]_vars

\* Deleting a job whose crawl is over removes its rows for good.
DeletedStaysDeleted ==
  [][ \A d \in deletions' :
        d.ok /\ ~d.live => (Row(d.id) = {} /\ RowsOf(d.id) = {})' ]_vars

DeletionIsFinal == DeletedStaysDeleted /\ NewJobsEmpty

-----------------------------------------------------------------------------
(* The inductive invariant behind these.                                   *)

\* Without a crawl no callback runs, and the ids of job rows are a key.
CrawlOver == job = 0 => pending = {} /\ \A w \in Workers : saver[w].at = "idle"
IdsApart ==
  /\ \A r \in jobs : r.id \in 1..lastId
  /\ \A r, q \in jobs : r.id = q.id => r = q

Unsaved == {"create", "write", "insert"}

\* An item of the crawl waits, is with one callback, or has its row.
ItemsOnce ==
  /\ \A w \in Workers : saver[w].at # "idle" => saver[w].item \notin pending
  /\ \A v, w \in Workers :
       saver[v].at # "idle" /\ saver[w].at # "idle" /\ saver[v].item = saver[w].item => v = w
  /\ \A r \in RowsOf(job) :
       /\ r.item \notin pending
       /\ \A w \in Workers : saver[w].at \in Unsaved => saver[w].item # r.item

\* Every row of the crawl is counted or about to be; the job row lags behind
\* only after the context has ended or a write has failed.
Bumping == {w \in Workers : saver[w].at = "bump"}
CountersFollow ==
  job # 0 /\ ~Touched(job) =>
    /\ Cardinality(RowsOf(job)) = counted + Cardinality(Bumping)
    /\ \A r \in Row(job) :
         /\ r.status = "running" /\ r.items <= counted
         /\ Live /\ ~Faulty(job) => r.items = counted

\* What a callback writes or is about to name in a row is on disk.
FilesFollow ==
  \A w \in Workers :
    LET b == Body[saver[w].item]
        named == saver[w].at = "write" \/ (saver[w].at = "insert" /\ saver[w].file)
    IN /\ saver[w].at = "create" \/ named => b # NoBody
       /\ named => Touched(job) \/ files[job][b] # "none"
BodiesNamed == \A r \in rows : r.file => Body[r.item] # NoBody
Unborn == \A j \in JobIds : j > lastId => \A b \in Bodies : files[j][b] = "none"

\* A deletion of a job that is not the crawl's goes on with what is left.
DeletionsFollow ==
  /\ deleter # NoDeletion => deleter.id # 0 /\ deleter.step # 0
  /\ deleter.id # 0 /\ ~deleter.live =>
       /\ deleter.id # job
       /\ deleter.step >= 2 => \A r \in RowsOf(deleter.id) : Body[r.item] # NoBody
       /\ deleter.step >= 3 => RowsOf(deleter.id) = {}
       /\ deleter.step = 4 => Row(deleter.id) = {}
  /\ \A d \in deletions : d.ok /\ ~d.live =>
       d.id # job /\ Row(d.id) = {} /\ RowsOf(d.id) = {}

IInv == /\ ArchiveHonest
        /\ CrawlOver /\ IdsApart /\ ItemsOnce /\ CountersFollow
        /\ FilesFollow /\ BodiesNamed /\ Unborn /\ DeletionsFollow
=============================================================================
