---------------------------- MODULE ScrapeIndex ----------------------------
(***************************************************************************)
(* The archive browser of src/ui_scrape_index.go: a combo box of jobs and  *)
(* the tables of the job selected in it.  Crawls add jobs meanwhile; the   *)
(* browser's own queries run on the GUI thread and may fail.               *)
(***************************************************************************)
EXTENDS Integers, Sequences, SequencesExt

CONSTANT MaxJobs    \* bound: the jobs ever started

VARIABLES
  jobs, newest,     \* the archive's job rows and the last id
  index             \* [list, selected: its position, rows: a job, failed]

vars == <<jobs, newest, index>>

Init ==
  /\ jobs = {} /\ newest = 0
  /\ index = [list |-> <<>>, selected |-> 0, rows |-> 0, failed |-> FALSE]

\* A crawl begins, in another goroutine.
JobAdded ==
  /\ newest < MaxJobs
  /\ newest' = newest + 1 /\ jobs' = jobs \cup {newest + 1}
  /\ UNCHANGED index

SelectedJob(ix) == IF ix.selected = 0 THEN 0 ELSE ix.list[ix.selected]

\* loadSelectedJob: what is listed changes only when all three queries succeed.
Load(ix, ok) ==
  IF SelectedJob(ix) = 0 THEN [ix EXCEPT !.rows = 0, !.failed = FALSE]
  ELSE IF ok THEN [ix EXCEPT !.rows = SelectedJob(ix), !.failed = FALSE]
  ELSE [ix EXCEPT !.failed = TRUE]

NewestFirst(ids) == SetToSortSeq(ids, LAMBDA a, b : a > b)

\* Faulty variant: the restored position misses the entry "All jobs".
RefreshShifted(ids) ==
  LET list == NewestFirst(ids)
      same == {n \in DOMAIN list : list[n] = SelectedJob(index)}
  IN [index EXCEPT !.list = list, !.rows = 0,
                   !.selected = IF same = {} THEN 0 ELSE (CHOOSE n \in same : TRUE) - 1]

\* refreshJobs: clearing the combo box empties the tables, and the selection is
\* restored if its job still exists.
Refresh(ids) ==
  LET list == NewestFirst(ids)
      same == {n \in DOMAIN list : list[n] = SelectedJob(index)}
  IN [index EXCEPT !.list = list, !.rows = 0,
                   !.selected = IF same = {} THEN 0 ELSE CHOOSE n \in same : TRUE]

\* openScrapeIndex and the Refresh button; the list of jobs may fail, too.
RefreshIndex(listed, ok) ==
  /\ index' = Load(IF listed THEN Refresh(jobs) ELSE index, ok)
  /\ UNCHANGED <<jobs, newest>>

SelectJob(n, ok) ==
  /\ n \in 0..Len(index.list) /\ n # index.selected
  /\ index' = Load([index EXCEPT !.selected = n], ok)
  /\ UNCHANGED <<jobs, newest>>

\* deleteJob, also of the job of the crawl under way; after an error the list
\* stays as it is.
DeleteJob(deleted, listed, ok) ==
  /\ SelectedJob(index) # 0
  /\ IF deleted THEN /\ jobs' = jobs \ {SelectedJob(index)}
                     /\ index' = Load(IF listed THEN Refresh(jobs') ELSE index, ok)
     ELSE UNCHANGED <<jobs, index>>
  /\ UNCHANGED newest

Next ==
  \/ JobAdded
  \/ \E listed, ok \in BOOLEAN : RefreshIndex(listed, ok)
  \/ \E n \in 0..Len(index.list), ok \in BOOLEAN : SelectJob(n, ok)
  \/ \E deleted, listed, ok \in BOOLEAN : DeleteJob(deleted, listed, ok)

Spec == Init /\ [][Next]_vars

-----------------------------------------------------------------------------
TypeOK ==
  /\ newest \in 0..MaxJobs /\ jobs \subseteq 1..newest
  /\ index.selected \in 0..Len(index.list)

\* The tables belong to the job selected above them, through refreshes,
\* deletions and a growing list, unless the last load failed; and a refresh
\* keeps the selection as long as the job exists.
RowsOfSelection ==
  [][ /\ index'.failed \/ index'.rows = SelectedJob(index')
      /\ index'.list # index.list /\ SelectedJob(index) \in jobs'
           => SelectedJob(index') = SelectedJob(index) ]_vars
=============================================================================
