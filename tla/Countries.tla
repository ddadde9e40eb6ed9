----------------------------- MODULE Countries -----------------------------
(***************************************************************************)
(* The country block browser: the walks of src/internal/ipblocks, the      *)
(* operations of src/app.go that share one cancellation slot, and the      *)
(* dialog of src/ui_tools.go.  A selection walks in a goroutine of its own *)
(* and posts its result; the list of countries, an export and the release  *)
(* at the end walk, or wait for the lock, on the GUI thread.               *)
(***************************************************************************)
EXTENDS Integers, Sequences, FiniteSets, SequencesExt

CONSTANTS Owners,     \* [databases -> the sequence of their networks' country codes]
          Unknown,    \* the code of networks without a country, the code's ""
          Family,     \* [network numbers -> their address family]
          Families,   \* the filters of the dialog
          Limit,      \* the most blocks on a page, DefaultLimit and MaxLimit
          MaxOps      \* bound: the operations ever started

Dbs == DOMAIN Owners
Ops == 1..MaxOps
Codes == UNION {Range(Owners[d]) : d \in Dbs}

VARIABLES
  db, closed,   \* the database in use, and those whose reader is closed
  kept,         \* [Dbs -> [loaded, key, blocks]]: the cached walks
  mu,           \* [Dbs -> the operation that holds the lock, or 0]
  op,           \* [Ops -> the operation's record]
  slot,         \* ipbOps: the operation that stop() cancels, or 0
  gui,          \* [busy: the operation it waits for, current, family, pane]
  posted        \* the closures given to the main thread

vars == <<db, closed, kept, mu, op, slot, gui, posted>>

Off == [at |-> "off"]
Over == [at |-> "over"]
NoBlocks == [country |-> "none", blocks |-> {}, more |-> FALSE]
Empty == [loaded |-> FALSE, key |-> Unknown, blocks |-> {}]

Init ==
  /\ db = 1 /\ closed = {}
  /\ kept = [d \in Dbs |-> Empty]
  /\ mu = [d \in Dbs |-> 0]
  /\ op = [o \in Ops |-> Off]
  /\ slot = 0
  /\ gui = [busy |-> 0, current |-> "none", family |-> "all", pane |-> "empty", shows |-> NoBlocks]
  /\ posted = <<>>

Free == gui.busy = 0
Fresh == CHOOSE o \in Ops : op[o] = Off /\ \A p \in Ops : op[p] = Off => o <= p
CanStart == \E o \in Ops : op[o] = Off

\* The blocks of a country, by their numbers in address order.
BlocksOf(d, code) == {n \in DOMAIN Owners[d] : Owners[d][n] = code}

\* Paginate: a family filter and a limit; everything that matches is counted.
Paginate(blocks, family) ==
  LET match == {n \in blocks : family \in {"all", Family[n]}}
      page == {n \in match : Cardinality({m \in match : m < n}) < Limit}
  IN [blocks |-> page, more |-> match # page]

Shown(code, page) == [country |-> code, blocks |-> page.blocks, more |-> page.more]

Started(kind) ==
  [at |-> "begin", kind |-> kind, db |-> db, country |-> gui.current, family |-> gui.family,
   next |-> 1, out |-> {}, cancelled |-> FALSE, result |-> "none"]

\* canceler.stop, and the first step of begin.
Stop == IF slot = 0 THEN op ELSE [op EXCEPT ![slot].cancelled = TRUE]

-----------------------------------------------------------------------------
(* The dialog.                                                             *)

\* selectCountry, also of a country listed from an earlier database; the query
\* runs in a goroutine, with the names the dialog has now.
Query(code, family) ==
  /\ gui' = [gui EXCEPT !.current = code, !.family = family, !.pane = "loading"]
  /\ op' = [op EXCEPT ![Fresh] = [Started("query") EXCEPT !.country = code, !.family = family]]

SelectCountry(code) ==
  /\ Free /\ CanStart /\ (\E d \in 1..db : code \in Range(Owners[d]))
  /\ Query(code, gui.family)
  /\ UNCHANGED <<db, closed, kept, mu, slot, posted>>

\* The unknown country's code is what the dialog takes for no selection.
FilterChanged(family) ==
  /\ Free /\ CanStart /\ family # gui.family
  /\ IF gui.current \in {"none", Unknown} THEN gui' = [gui EXCEPT !.family = family] /\ UNCHANGED op
     ELSE Query(gui.current, family)
  /\ UNCHANGED <<db, closed, kept, mu, slot, posted>>

\* loadCountries and exportBlocks wait for their walk on the GUI thread.
Wait(kind) ==
  /\ Free /\ CanStart
  /\ kind = "export" => gui.current \notin {"none", Unknown}
  /\ op' = [op EXCEPT ![Fresh] = Started(kind)]
  /\ gui' = [gui EXCEPT !.busy = Fresh]
  /\ UNCHANGED <<db, closed, kept, mu, slot, posted>>

\* OpenCountryDatabase: the walks of the old database are told to stop, and its
\* reader is closed without waiting for them.
OpenDatabase ==
  /\ Free /\ db + 1 \in Dbs
  /\ op' = Stop
  /\ closed' = closed \cup {db} /\ db' = db + 1
  /\ UNCHANGED <<kept, mu, slot, gui, posted>>

\* The window closes: stop, then ClearCache, which needs the lock.
Release ==
  /\ Free /\ CanStart
  /\ op' = [Stop EXCEPT ![Fresh] = [Started("release") EXCEPT !.at = "lock"]]
  /\ gui' = [gui EXCEPT !.busy = Fresh]
  /\ UNCHANGED <<db, closed, kept, mu, slot, posted>>

\* The main thread runs the closures in the order they were posted; a cancelled
\* query's leaves the pane alone.
Apply ==
  /\ Free /\ posted # <<>>
  /\ LET o == op[Head(posted)]
     IN gui' = IF o.result = "cancelled" THEN gui
               ELSE [gui EXCEPT !.pane = o.result,
                                !.shows = IF o.result = "shown"
                                          THEN Shown(o.country, Paginate(o.out, o.family))
                                          ELSE NoBlocks]
  /\ posted' = Tail(posted)
  /\ op' = [op EXCEPT ![Head(posted)] = Over]
  /\ UNCHANGED <<db, closed, kept, mu, slot>>

-----------------------------------------------------------------------------
(* The operations.                                                         *)

\* ipbOps.begin: whichever goroutine comes last is the one that stays.
Begin(o) ==
  /\ op[o].at = "begin"
  /\ op' = [Stop EXCEPT ![o].at = "lock"]
  /\ slot' = o
  /\ UNCHANGED <<db, closed, kept, mu, gui, posted>>

\* The lock, and what is kept from an earlier walk: the countries, or the blocks
\* of the country asked for last; the empty key of a new or a cleared cache is
\* the code of the unknown country.
Lock(o) ==
  LET d == op[o].db
      hit == IF op[o].kind = "countries" THEN kept[d].loaded ELSE kept[d].key = op[o].country
  IN /\ op[o].at = "lock" /\ mu[d] = 0
     /\ mu' = [mu EXCEPT ![d] = o]
     /\ IF op[o].kind = "release"
        THEN /\ kept' = [kept EXCEPT ![d].key = Unknown, ![d].blocks = {}]
             /\ op' = [op EXCEPT ![o].at = "unlock", ![o].result = "shown"]
        ELSE /\ op' = IF hit THEN [op EXCEPT ![o].at = "unlock", ![o].result = "shown",
                                             ![o].out = kept[d].blocks]
                             ELSE [op EXCEPT ![o].at = "walk"]
             /\ UNCHANGED kept
     /\ UNCHANGED <<db, closed, slot, gui, posted>>

\* The next network is read, then the context is looked at.
Walk(o) ==
  LET d == op[o].db  n == op[o].next
  IN /\ op[o].at = "walk" /\ n <= Len(Owners[d]) /\ d \notin closed
     /\ op' = IF op[o].cancelled
              THEN [op EXCEPT ![o].at = "unlock", ![o].result = "cancelled", ![o].out = {}]
              ELSE [op EXCEPT ![o].next = n + 1,
                              ![o].out = IF Owners[d][n] = op[o].country THEN @ \cup {n} ELSE @]
     /\ UNCHANGED <<db, closed, kept, mu, slot, gui, posted>>

\* The reader was closed under the walk: its memory is gone, and what a read of
\* it does is not defined; this is the outcome the program survives.
WalkClosed(o) ==
  /\ op[o].at = "walk" /\ op[o].db \in closed
  /\ op' = [op EXCEPT ![o].at = "unlock", ![o].result = "error"]
  /\ UNCHANGED <<db, closed, kept, mu, slot, gui, posted>>

\* Faulty variant: the key is stored before the walk is known to be complete.
KeepEarly(o) ==
  LET d == op[o].db
  IN /\ op[o].at = "walk" /\ d \notin closed
     /\ op[o].cancelled \/ op[o].next > Len(Owners[d])
     /\ kept' = IF op[o].kind = "countries" THEN [kept EXCEPT ![d].loaded = TRUE]
                ELSE [kept EXCEPT ![d].key = op[o].country, ![d].blocks = op[o].out]
     /\ op' = [op EXCEPT ![o].at = "unlock", ![o].result = "shown"]
     /\ UNCHANGED <<db, closed, mu, slot, gui, posted>>

\* Only a complete walk is kept.
Keep(o) ==
  LET d == op[o].db
  IN /\ op[o].at = "walk" /\ op[o].next > Len(Owners[d]) /\ d \notin closed
     /\ kept' = IF op[o].kind = "countries" THEN [kept EXCEPT ![d].loaded = TRUE]
                ELSE [kept EXCEPT ![d].key = op[o].country, ![d].blocks = op[o].out]
     /\ op' = [op EXCEPT ![o].at = "unlock", ![o].result = "shown"]
     /\ UNCHANGED <<db, closed, mu, slot, gui, posted>>

\* Faulty variant: a cancelled walk keeps the lock.
EndLocked(o) ==
  /\ op[o].at = "unlock"
  /\ mu' = IF op[o].result = "cancelled" THEN mu ELSE [mu EXCEPT ![op[o].db] = 0]
  /\ slot' = IF slot = o THEN 0 ELSE slot
  /\ op' = IF op[o].kind = "query" THEN [op EXCEPT ![o].at = "posted"] ELSE [op EXCEPT ![o] = Over]
  /\ gui' = IF gui.busy = o THEN [gui EXCEPT !.busy = 0] ELSE gui
  /\ posted' = IF op[o].kind = "query" THEN Append(posted, o) ELSE posted
  /\ UNCHANGED <<db, closed, kept>>

\* The lock is released and the slot is cleared if it is still this operation's;
\* a query posts its result, the others give the GUI thread back.
End(o) ==
  /\ op[o].at = "unlock"
  /\ mu' = [mu EXCEPT ![op[o].db] = 0]
  /\ slot' = IF slot = o THEN 0 ELSE slot
  /\ op' = IF op[o].kind = "query" THEN [op EXCEPT ![o].at = "posted"] ELSE [op EXCEPT ![o] = Over]
  /\ gui' = IF gui.busy = o THEN [gui EXCEPT !.busy = 0] ELSE gui
  /\ posted' = IF op[o].kind = "query" THEN Append(posted, o) ELSE posted
  /\ UNCHANGED <<db, closed, kept>>

Operation(o) == Begin(o) \/ Lock(o) \/ Walk(o) \/ WalkClosed(o) \/ Keep(o) \/ End(o)

Next ==
  \/ \E code \in Codes : SelectCountry(code)
  \/ \E family \in Families : FilterChanged(family)
  \/ \E kind \in {"countries", "export"} : Wait(kind)
  \/ OpenDatabase \/ Release \/ Apply
  \/ \E o \in Ops : Operation(o)

\* A walk ends by itself, goroutines are scheduled, and so are posted closures.
Fairness == WF_vars(Apply \/ \E o \in Ops : Operation(o))

Spec == Init /\ [][Next]_vars /\ Fairness

-----------------------------------------------------------------------------
TypeOK ==
  /\ db \in Dbs /\ closed \subseteq 1..(db - 1)
  /\ mu \in [Dbs -> {0} \cup Ops] /\ \A d \in Dbs : kept[d].key \in Codes \cup {Unknown}
  /\ slot \in {0} \cup Ops /\ gui.busy \in {0} \cup Ops

\* Whatever was cancelled, cleared or replaced before, the blocks shown for a
\* known country are all of that country's, up to the limit, in some database
\* that was opened, and they are said to be incomplete when they are.
ShownIsComplete ==
  gui.shows.country \notin {"none", Unknown} =>
    \E d \in 1..db : \E family \in Families :
      LET page == Paginate(BlocksOf(d, gui.shows.country), family)
      IN gui.shows.blocks = page.blocks /\ gui.shows.more = page.more

\* The documented promise of Blocks, for every code it may be asked for: every
\* network owned by the country is returned.
EveryNetworkReturned ==
  \A o \in Ops : op[o].at = "posted" /\ op[o].result = "shown" =>
     op[o].out = BlocksOf(op[o].db, op[o].country)

-----------------------------------------------------------------------------
(* The inductive invariant behind ShownIsComplete.                         *)

CountryAssumption ==
  Owners \in Seq(Seq(Codes)) /\ Owners # <<>> /\ "all" \in Families /\ MaxOps \in Nat

OpRecords ==
  [at : {"begin", "lock", "walk", "unlock", "posted"},
   kind : {"query", "countries", "export", "release"}, db : 1..db,
   country : Codes \cup {"none"}, family : Families, next : Nat \ {0}, out : SUBSET Nat,
   cancelled : BOOLEAN, result : {"none", "shown", "cancelled", "error"}]

\* A walk has collected the country's blocks among the networks it has read, and
\* a query that says so returns all of them.
OpIsHonest(x) ==
  x \notin {Off, Over} =>
    /\ x \in OpRecords
    /\ x.kind \in {"query", "export"} => x.country \in Codes
    /\ x.at \in {"begin", "lock"} => x.next = 1 /\ x.out = {}
    /\ x.at = "walk" => /\ x.kind # "release" /\ x.next <= Len(Owners[x.db]) + 1
                        /\ x.out = {n \in BlocksOf(x.db, x.country) : n < x.next}
    /\ x.kind = "query" /\ x.at \in {"unlock", "posted"} /\ x.result = "shown"
         /\ x.country # Unknown => x.out = BlocksOf(x.db, x.country)

OpsAreHonest == DOMAIN op = Ops /\ \A o \in Ops : OpIsHonest(op[o])

\* What is kept for a known country is complete.
CacheIsComplete ==
  /\ kept \in [Dbs -> [loaded : BOOLEAN, key : Codes \cup {Unknown}, blocks : SUBSET Nat]]
  /\ \A d \in Dbs : kept[d].key # Unknown => kept[d].blocks = BlocksOf(d, kept[d].key)

\* stop() finds an operation that has begun and not ended.
SlotIsLive == slot # 0 => op[slot].at \in {"lock", "walk", "unlock"}

\* A result is on its way once, and it is a query's.
PostedOnce ==
  /\ posted \in Seq(Ops)
  /\ \A i, j \in DOMAIN posted : posted[i] = posted[j] => i = j
  /\ \A i \in DOMAIN posted : op[posted[i]].at = "posted" /\ op[posted[i]].kind = "query"

DialogIsWhole ==
  /\ gui = [busy |-> gui.busy, current |-> gui.current, family |-> gui.family, pane |-> gui.pane,
            shows |-> gui.shows]
  /\ gui.current \in Codes \cup {"none"} /\ gui.family \in Families

IInv == /\ TypeOK /\ OpsAreHonest /\ CacheIsComplete /\ SlotIsLive /\ PostedOnce
        /\ DialogIsWhole /\ ShownIsComplete

-----------------------------------------------------------------------------
\* The GUI thread comes back from every walk it waits for, however many walks
\* of other goroutines hold the lock before it, and every query is answered.
NobodyWaits == gui.busy = 0 /\ \A o \in Ops : op[o] \in {Off, Over}
=============================================================================
