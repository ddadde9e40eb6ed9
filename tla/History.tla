------------------------------- MODULE History -------------------------------
(***************************************************************************)
(* The history of traces: the store of src/internal/history, its windows in *)
(* src/ui_history.go and the traces in view that it saves and replaces.  A  *)
(* window's list is as old as its last refresh: saving and the other        *)
(* windows do not tell it.  Loading runs beside a trace that still reports. *)
(***************************************************************************)
EXTENDS Integers, Sequences, FiniteSets, SequencesExt

CONSTANTS Windows,       \* history windows
          Times,         \* what the clock may show, forwards or backwards
          Targets,       \* targets of the operation that may run, from 0
          MaxSaves,      \* bound: entries ever saved
          MaxHops        \* bound: hops of a trace in view

VARIABLES
  rows,        \* history_entry: a set of [id, at, traces]
  lastId,      \* the AUTOINCREMENT counter of its table
  view,        \* u.traces: a sequence of [id, hops]
  reporting,   \* the targets the running operation still sends events for
  window,      \* [Windows -> [rows, selected]]: the list and the marked ids
  load         \* [Windows -> the load under way]

vars == <<rows, lastId, view, reporting, window, load>>

NoLoad == [at |-> "none"]

Init ==
  /\ rows = {} /\ lastId = 0 /\ view = <<>> /\ reporting = {}
  /\ window = [w \in Windows |-> [rows |-> <<>>, selected |-> {}]]
  /\ load = [w \in Windows |-> NoLoad]

-----------------------------------------------------------------------------
(* The store.                                                              *)

Older(e, f) == e.at < f.at \/ (e.at = f.at /\ e.id < f.id)

\* Save: one INSERT, stamped with the clock.
Save(at, traces) ==
  /\ lastId < MaxSaves
  /\ lastId' = lastId + 1
  /\ rows' = rows \cup {[id |-> lastId + 1, at |-> at, traces |-> traces]}

\* List: newest first.
NewestFirst(entries) == SetToSortSeq(entries, LAMBDA e, f : Older(f, e))

\* Load: the entries that still exist, oldest first.
Load(ids) == SetToSortSeq({e \in rows : e.id \in ids}, Older)

-----------------------------------------------------------------------------
(* The traces in view.                                                     *)

\* startTrace, startScan and the rest begin with an empty view.
StartOperation ==
  /\ view' = <<>> /\ reporting' = Targets
  /\ UNCHANGED <<rows, lastId, window, load>>

\* onHop: the trace of the event's target, made when the view has none.
Hop(t) ==
  LET known == {i \in DOMAIN view : view[i].id = t}
  IN /\ t \in reporting
     /\ \A i \in known : view[i].hops < MaxHops
     /\ view' = IF known = {} THEN Append(view, [id |-> t, hops |-> 1])
                ELSE [i \in DOMAIN view |-> IF i \in known THEN [view[i] EXCEPT !.hops = @ + 1] ELSE view[i]]
     /\ UNCHANGED <<rows, lastId, reporting, window, load>>

TraceEnds(t) ==
  /\ t \in reporting /\ reporting' = reporting \ {t}
  /\ UNCHANGED <<rows, lastId, view, window, load>>

\* saveHistory: what is in view, also while the operation still reports.
SaveHistory(at) ==
  /\ view # <<>>
  /\ Save(at, [i \in DOMAIN view |-> view[i].hops])
  /\ UNCHANGED <<view, reporting, window, load>>

\* applyHistory: the paths of all entries, numbered again; the operation goes on.
ApplyHistory(entries) ==
  LET paths == FlattenSeq([i \in DOMAIN entries |-> entries[i].traces])
  IN view' = IF paths = <<>> THEN view ELSE [i \in DOMAIN paths |-> [id |-> i - 1, hops |-> paths[i]]]

-----------------------------------------------------------------------------
(* The windows.                                                            *)

Refreshed(w, entries) == [window EXCEPT ![w] = [rows |-> NewestFirst(entries), selected |-> {}]]

\* Opening a window or its Refresh button; a database error leaves it empty.
Refresh(w, fails) ==
  /\ window' = Refreshed(w, IF fails THEN {} ELSE rows)
  /\ UNCHANGED <<rows, lastId, view, reporting, load>>

Listed(w) == {window[w].rows[i].id : i \in DOMAIN window[w].rows}

Select(w, ids) ==
  /\ ids \subseteq Listed(w) /\ window' = [window EXCEPT ![w].selected = ids]
  /\ UNCHANGED <<rows, lastId, view, reporting, load>>

\* remove: one statement per marked row; the first that fails ends it, without
\* a refresh.  An id the table does not know is no error.
RemoveMarked(w, gone) ==
  LET left == {e \in rows : e.id \notin gone}
  IN /\ gone \subseteq window[w].selected
     /\ rows' = left
     /\ window' = IF gone = window[w].selected THEN Refreshed(w, left) ELSE window
     /\ UNCHANGED <<lastId, view, reporting, load>>

Clear(w) ==
  /\ rows' = {} /\ window' = Refreshed(w, {})
  /\ UNCHANGED <<lastId, view, reporting, load>>

\* loadAs: a goroutine reads the marked entries, the main thread shows them.
LoadAs(w) ==
  /\ load[w] = NoLoad /\ window[w].selected # {}
  /\ load' = [load EXCEPT ![w] = [at |-> "read", ids |-> window[w].selected]]
  /\ UNCHANGED <<rows, lastId, view, reporting, window>>

LoadReads(w, fails) ==
  /\ load[w].at = "read"
  /\ load' = [load EXCEPT ![w] = [at |-> "show", entries |-> IF fails THEN <<>> ELSE Load(load[w].ids)]]
  /\ UNCHANGED <<rows, lastId, view, reporting, window>>

LoadShows(w) ==
  /\ load[w].at = "show"
  /\ ApplyHistory(load[w].entries)
  /\ load' = [load EXCEPT ![w] = NoLoad]
  /\ UNCHANGED <<rows, lastId, reporting, window>>

LoadStep(w) == LoadShows(w) \/ \E fails \in BOOLEAN : LoadReads(w, fails)

User ==
  \/ StartOperation \/ \E at \in Times : SaveHistory(at)
  \/ \E w \in Windows : \/ LoadAs(w) \/ Clear(w)
                        \/ \E fails \in BOOLEAN : Refresh(w, fails)
                        \/ \E ids \in SUBSET Listed(w) : Select(w, ids)
                        \/ \E gone \in SUBSET window[w].selected : RemoveMarked(w, gone)

Next == User \/ (\E t \in Targets : Hop(t) \/ TraceEnds(t)) \/ \E w \in Windows : LoadStep(w)

Spec == Init /\ [][Next]_vars

-----------------------------------------------------------------------------
TypeOK ==
  /\ lastId \in 0..MaxSaves /\ reporting \subseteq Targets
  /\ \A e \in rows : e.id \in 1..lastId /\ e.at \in Times
  /\ \A w \in Windows : load[w].at \in {"none", "read", "show"} /\ window[w].selected \subseteq Listed(w)

\* However old the list of a window, its rows name the entry they were read
\* from or none: loading or deleting by one never reaches a newer entry.
RowsNameTheirEntry ==
  \A w \in Windows : \A i \in DOMAIN window[w].rows : \A e \in rows :
    e.id = window[w].rows[i].id => e = window[w].rows[i]

\* The paths in view have one number each, whether they were traced, loaded, or
\* joined by the late events of an operation the load did not stop.
PathsApart == IsInjective([i \in DOMAIN view |-> view[i].id])
=============================================================================
