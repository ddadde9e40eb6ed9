------------------------------ MODULE Endpoints ------------------------------
(***************************************************************************)
(* Endpoint analysis: AnalyzeEndpoints of src/app.go with the workers that  *)
(* call httpcheck.Analyze, the grading of src/internal/httpcheck, and the   *)
(* dialogs of src/ui_tools.go.  Every dialog may start analyses; all share  *)
(* the cancellation slot, and the events of an analysis go to the newest    *)
(* dialog while its result goes to the dialog that started it.  Progress    *)
(* and log events only change a line of text, and are left out.             *)
(***************************************************************************)
EXTENDS Integers, Sequences, FiniteSets, SequencesExt

CONSTANTS Target,        \* the endpoint of the entered target, the first scope
          Batches,       \* the endpoint lists the scope boxes may produce
          Serves,        \* [endpoint -> the traits of its response; {} for none]
          Concurrency,   \* endpointConcurrency
          Limit,         \* maxEndpoints
          MaxRuns,       \* bound: the analyses ever started
          MaxDialogs     \* bound: the dialogs ever opened

AllUrls == DOMAIN Serves

EndpointAssumption ==
  /\ Target \in AllUrls /\ Batches \subseteq Seq(AllUrls) /\ "none" \notin AllUrls
  /\ Concurrency \in Nat \ {0} /\ Limit \in Nat /\ MaxRuns \in Nat /\ MaxDialogs \in Nat

Runs == 1..MaxRuns
Dialogs == 1..MaxDialogs

VARIABLES
  run,       \* [Runs -> the analysis]
  slot,      \* httpOps: the newest analysis under way, or 0
  dialog,    \* [Dialogs -> [reports, selected, pane]]
  opened,    \* the number of dialogs; the last one is u.endpointDlg
  posted     \* events and results on their way to the main thread

vars == <<run, slot, dialog, opened, posted>>

Off == [at |-> "off", cancelled |-> FALSE, dialog |-> 0, targets |-> <<>>, next |-> 1,
        worker |-> <<>>, reports |-> <<>>]

\* A Report that was never filled; its empty URL and error leave it out.
NoReport == [url |-> "none", error |-> FALSE, grade |-> "none"]
Filled(report) == report.url # "none" \/ report.error

Init ==
  /\ run = [r \in Runs |-> Off] /\ slot = 0
  /\ dialog = [d \in Dialogs |-> [reports |-> <<>>, selected |-> 0, pane |-> "none"]]
  /\ opened = 0 /\ posted = <<>>

-----------------------------------------------------------------------------
(* The checklist of one response and its grade.  A response stands for its  *)
(* traits; of the cookies and of the headers that tell too much, one each.  *)

Check(id, status) == [id |-> id, status |-> status]
Tri(id, passes, otherwise) == Check(id, IF passes THEN "pass" ELSE otherwise)

\* HSTS is looked for only in an answer over HTTPS.
HeaderChecks(has) ==
  { Tri("csp", "csp" \in has, "warn"), Tri("nosniff", "nosniff" \in has, "warn"),
    Tri("frame", "frame" \in has, "warn"), Tri("referrer", "referrer" \in has, "info"),
    Tri("permissions", "permissions" \in has, "info") }
  \cup { Check("hsts", IF "hsts" \in has THEN "pass" ELSE IF "short hsts" \in has THEN "warn" ELSE "fail") :
           https \in has \cap {"https"} }
  \cup { Check(leak, "warn") : leak \in has \cap {"banner", "powered-by", "debug"} }
  \cup { Check("cors", IF "credentials" \in has THEN "fail" ELSE "info") : any \in has \cap {"any origin"} }

CookieChecks(has) ==
  IF "cookie" \notin has THEN {Check("cookie-none", "info")}
  ELSE { Check("cookie-secure", IF "same-site none" \in has THEN "fail" ELSE "warn") : c \in {"insecure"} \cap has }
       \cup { Check("cookie-httponly", "warn") : c \in {"script cookie"} \cap has }

CacheChecks(has) ==
  { Check("policy", IF {"public", "cookie"} \subseteq has THEN "fail"
                    ELSE IF {"public", "policy", "no-store", "private"} \cap has = {} THEN "warn" ELSE "info") }
  \cup { Check("vary", "warn") : v \in {"vary any"} \cap has }

TLSChecks(has) ==
  IF "https" \notin has THEN {Check("https", "warn")}
  ELSE { Check("https", "pass"),
         Check("cert", IF "expires" \in has THEN "fail" ELSE IF "expires soon" \in has THEN "warn" ELSE "pass"),
         Tri("version", "old tls" \notin has, "warn") }

BuildChecks(has) == HeaderChecks(has) \cup CookieChecks(has) \cup CacheChecks(has) \cup TLSChecks(has)

Count(has, status) == Cardinality({c \in BuildChecks(has) : c.status = status})

Score(has) ==
  LET left == 100 - 12 * Count(has, "fail") - 5 * Count(has, "warn") IN IF left < 0 THEN 0 ELSE left

Grade(score) ==
  CASE score >= 90 -> "A" [] score >= 80 -> "B" [] score >= 70 -> "C" [] score >= 60 -> "D" [] OTHER -> "F"

\* Analyze: no answer, an answer that redirects too often, or a request cut by
\* the context, is an error and never graded; a URL of the dialog has a scheme
\* and thus one candidate.
Analyze(url, answers) ==
  IF answers THEN [url |-> url, error |-> FALSE, grade |-> Grade(Score(Serves[url]))]
  ELSE [url |-> url, error |-> TRUE, grade |-> "F"]

-----------------------------------------------------------------------------
(* The dialogs.                                                            *)

Started == Cardinality({r \in Runs : run[r].at # "off"})

CancelSlot == IF slot = 0 THEN run ELSE [run EXCEPT ![slot].cancelled = TRUE]

\* startAnalysis: the list is emptied, the panes are not.
StartIn(d, shown, batch) ==
  /\ Started < MaxRuns
  /\ run' = [run EXCEPT ![Started + 1] =
       [at |-> "begin", cancelled |-> FALSE, dialog |-> d, targets |-> batch, next |-> 1,
        worker |-> <<>>, reports |-> <<>>]]
  /\ dialog' = [dialog EXCEPT ![d] = [shown EXCEPT !.reports = <<>>, !.selected = 0]]

\* openEndpointDialog analyses the entered target at once.
OpenDialog ==
  /\ opened < MaxDialogs
  /\ opened' = opened + 1
  /\ StartIn(opened + 1, dialog[opened + 1], <<Target>>)
  /\ UNCHANGED <<slot, posted>>

\* The Analyze button of any dialog that is open, also during an analysis.
StartAnalysis(d, batch) ==
  /\ d <= opened /\ batch \in Batches
  /\ StartIn(d, dialog[d], batch)
  /\ UNCHANGED <<slot, opened, posted>>

CancelAnalysis ==
  /\ slot # 0 /\ run' = CancelSlot
  /\ UNCHANGED <<slot, dialog, opened, posted>>

Select(d, i) ==
  /\ i \in DOMAIN dialog[d].reports
  /\ dialog' = [dialog EXCEPT ![d].selected = i, ![d].pane = dialog[d].reports[i].url]
  /\ UNCHANGED <<run, slot, opened, posted>>

\* onEndpointResult: the report replaces that of its URL or joins the list, and
\* is selected when nothing was.
WithResult(shown, report) ==
  LET known == {i \in DOMAIN shown.reports : shown.reports[i].url = report.url}
      place == IF known = {} THEN Len(shown.reports) + 1 ELSE CHOOSE i \in known : \A j \in known : i <= j
      list == IF known = {} THEN Append(shown.reports, report) ELSE [shown.reports EXCEPT ![place] = report]
      listed == [shown EXCEPT !.reports = list]
  IN IF shown.selected > 0 THEN listed ELSE [listed EXCEPT !.selected = place, !.pane = report.url]

\* The result of a whole analysis replaces the list, unless it is empty.
WithBatch(shown, reports) ==
  IF reports = <<>> THEN shown
  ELSE [reports |-> reports, selected |-> 1, pane |-> reports[1].url]

Deliver ==
  /\ posted # <<>>
  /\ LET e == Head(posted)
     IN dialog' = CASE e.what = "result" -> [dialog EXCEPT ![opened] = WithResult(@, e.report)]
                    [] e.what = "batch" -> [dialog EXCEPT ![run[e.run].dialog] = WithBatch(@, e.reports)]
  /\ posted' = Tail(posted)
  /\ UNCHANGED <<run, slot, opened>>

-----------------------------------------------------------------------------
(* AnalyzeEndpoints.                                                       *)

Accept(list, x, ok) == IF ok THEN Append(list, x) ELSE list

\* normalizeEndpointTargets: each URL once, up to the limit.
Normalized(batch) ==
  LET list[n \in 0..Len(batch)] ==
        IF n = 0 THEN <<>>
        ELSE Accept(list[n - 1], batch[n], batch[n] \notin Range(list[n - 1]) /\ Len(list[n - 1]) < Limit)
  IN list[Len(batch)]

\* The reports of the endpoints that were started.
Gathered(reports) ==
  LET list[n \in 0..Len(reports)] ==
        IF n = 0 THEN <<>> ELSE Accept(list[n - 1], reports[n], Filled(reports[n]))
  IN list[Len(reports)]

At(r, at) == run[r].at = at
Busy(r) == {i \in DOMAIN run[r].worker : run[r].worker[i] \notin {"idle", "done"}}

\* startAnalysis asks for some endpoint, so there are targets to fetch.
Begin(r) ==
  /\ At(r, "begin")
  /\ LET targets == Normalized(run[r].targets)
     IN run' = [CancelSlot EXCEPT ![r].at = "loop", ![r].targets = targets,
                  ![r].worker = [i \in DOMAIN targets |-> "idle"],
                  ![r].reports = [i \in DOMAIN targets |-> NoReport]]
  /\ slot' = r
  /\ UNCHANGED <<dialog, opened, posted>>

\* The context is looked at before the wait for a place, and not during it.
LoopGoesOn(r) ==
  /\ At(r, "loop")
  /\ run' = [run EXCEPT ![r].at = IF run[r].next <= Len(run[r].targets) /\ ~run[r].cancelled
                                  THEN "place" ELSE "join"]
  /\ UNCHANGED <<slot, dialog, opened, posted>>

Spawn(r) ==
  /\ At(r, "place") /\ Cardinality(Busy(r)) < Concurrency
  /\ run' = [run EXCEPT ![r].at = "loop", ![r].next = @ + 1, ![r].worker[run[r].next] = "analyze"]
  /\ UNCHANGED <<slot, dialog, opened, posted>>

Worker(r, i, at) == i \in DOMAIN run[r].worker /\ run[r].worker[i] = at

\* One worker's analysis; a cancelled one fails unless its answer was in time.
Analyzed(r, i, answers) ==
  LET url == run[r].targets[i]
  IN /\ Worker(r, i, "analyze")
     /\ answers => Serves[url] # {}
     /\ ~answers => run[r].cancelled \/ Serves[url] = {}
     /\ run' = [run EXCEPT ![r].reports[i] = Analyze(url, answers), ![r].worker[i] = "result"]
     /\ UNCHANGED <<slot, dialog, opened, posted>>

EmitResult(r, i) ==
  /\ Worker(r, i, "result")
  /\ posted' = Append(posted, [what |-> "result", run |-> r, report |-> run[r].reports[i]])
  /\ run' = [run EXCEPT ![r].worker[i] = "done"]
  /\ UNCHANGED <<slot, dialog, opened>>

\* Faulty variant: no wg.Wait before the reports are gathered.
ReturnUnwaited(r) ==
  /\ At(r, "join")
  /\ slot' = IF slot = r THEN 0 ELSE slot
  /\ posted' = Append(posted, [what |-> "batch", run |-> r, reports |-> Gathered(run[r].reports)])
  /\ run' = [run EXCEPT ![r].at = "back"]
  /\ UNCHANGED <<dialog, opened>>

\* wg.Wait, what was gathered, and end.
Return(r) ==
  /\ At(r, "join") /\ Busy(r) = {}
  /\ slot' = IF slot = r THEN 0 ELSE slot
  /\ posted' = Append(posted, [what |-> "batch", run |-> r, reports |-> Gathered(run[r].reports)])
  /\ run' = [run EXCEPT ![r].at = "back"]
  /\ UNCHANGED <<dialog, opened>>

Analysis(r) ==
  \/ Begin(r) \/ LoopGoesOn(r) \/ Spawn(r) \/ Return(r)
  \/ \E i \in 1..Limit : \/ EmitResult(r, i) \/ \E answers \in BOOLEAN : Analyzed(r, i, answers)

User ==
  \/ OpenDialog \/ CancelAnalysis
  \/ \E batch \in Batches, d \in Dialogs : StartAnalysis(d, batch)
  \/ \E d \in Dialogs : \E i \in DOMAIN dialog[d].reports : Select(d, i)

Next == User \/ Deliver \/ \E r \in Runs : Analysis(r)

\* A request has a timeout; goroutines and the main thread are scheduled.
Fairness == WF_vars(Deliver) /\ \A r \in Runs : WF_vars(Analysis(r))

Spec == Init /\ [][Next]_vars /\ Fairness

-----------------------------------------------------------------------------
Reports == [url : AllUrls \cup {"none"}, error : BOOLEAN, grade : {"A", "B", "C", "D", "F", "none"}]
Events ==
  [what : {"result"}, run : Runs, report : Reports]
    \cup [what : {"batch"}, run : Runs, reports : Seq(Reports)]

TypeOK ==
  /\ run \in [Runs -> [at : {"off", "begin", "loop", "place", "join", "back"}, cancelled : BOOLEAN,
                       dialog : Nat, targets : Seq(AllUrls), next : Nat,
                       worker : Seq({"idle", "analyze", "result", "done"}), reports : Seq(Reports)]]
  /\ slot \in Runs \cup {0} /\ opened \in 0..MaxDialogs /\ posted \in Seq(Events)
  /\ dialog \in [Dialogs -> [reports : Seq(Reports), selected : Nat, pane : AllUrls \cup {"none"}]]

\* However late results, batches and restarts of several analyses reach a
\* dialog, it lists a URL once, and its panes are about the selected row; a
\* list that is not empty has one.
Listed(reports) == [i \in DOMAIN reports |-> reports[i].url]
Coherent(shown) ==
  /\ IsInjective(Listed(shown.reports))
  /\ IF shown.reports = <<>> THEN shown.selected = 0
     ELSE shown.selected \in DOMAIN shown.reports /\ shown.pane = shown.reports[shown.selected].url
ListIsCoherent == \A d \in Dialogs : Coherent(dialog[d])

\* The analyses restarted over each other never fetch more endpoints at once on
\* a usable context than one of them may.
Live(r) == run[r].at # "off" /\ ~run[r].cancelled
LiveFetchesBounded ==
  Cardinality({p \in Runs \X (1..Limit) : Live(p[1]) /\ p[2] \in Busy(p[1])}) <= Concurrency

\* The best grade excludes every failed check: warnings alone cannot hide one.
Earned(report) ==
  report.grade = "A" => ~report.error /\ Count(Serves[report.url], "fail") = 0
BestGradeIsEarned ==
  \A d \in Dialogs : \A i \in DOMAIN dialog[d].reports : Earned(dialog[d].reports[i])

\* An analysis that nobody cancelled, nor started another over, hands its dialog
\* one report for each endpoint asked for, in their order.
BatchIsWhole ==
  \A i \in DOMAIN posted :
    LET e == posted[i]
    IN e.what = "batch" /\ ~run[e.run].cancelled => Listed(e.reports) = run[e.run].targets

\* The analyses are numbered as they were started, each from an open dialog.
RunsInOrder ==
  \A r \in Runs : /\ run[r].at # "off" <=> r <= Started
                  /\ run[r].at # "off" => run[r].dialog \in 1..opened

\* An analysis has a report of its endpoint exactly where its worker is through.
Honest(report) == report.url \in AllUrls /\ Earned(report)
Prepared(a) ==
  /\ IsInjective(a.targets) /\ Len(a.targets) <= Limit
  /\ DOMAIN a.worker = DOMAIN a.targets /\ DOMAIN a.reports = DOMAIN a.targets
  /\ a.next \in 1..(Len(a.targets) + 1)
  /\ \A i \in DOMAIN a.targets :
       /\ a.worker[i] = "idle" <=> i >= a.next
       /\ IF a.worker[i] \in {"idle", "analyze"} THEN a.reports[i] = NoReport
          ELSE a.reports[i].url = a.targets[i] /\ Honest(a.reports[i])
ReportsFollow ==
  \A r \in Runs :
    /\ run[r].at \in {"off", "begin"} => run[r].worker = <<>> /\ run[r].next = 1
    /\ run[r].at \notin {"off", "begin"} => Prepared(run[r])
    /\ run[r].at = "place" => run[r].next <= Len(run[r].targets)
    /\ run[r].at \in {"join", "back"} /\ ~run[r].cancelled => run[r].next = Len(run[r].targets) + 1
    /\ run[r].at = "back" => Busy(r) = {}

\* Only the analysis in the slot has a usable context, and it keeps its places.
OneIsLive ==
  \A r \in Runs :
    /\ run[r].at \in {"loop", "place", "join"} /\ ~run[r].cancelled => slot = r
    /\ Cardinality(Busy(r)) <= Concurrency

\* What is on its way to a dialog, and what it shows, was reported.
PostedAreHonest ==
  \A i \in DOMAIN posted :
    LET e == posted[i]
    IN /\ run[e.run].at # "off"
       /\ e.what = "result" => Honest(e.report)
       /\ e.what = "batch" => /\ run[e.run].at = "back" /\ IsInjective(Listed(e.reports))
                              /\ \A k \in DOMAIN e.reports : Honest(e.reports[k])
ShownAreHonest ==
  \A d \in Dialogs : \A i \in DOMAIN dialog[d].reports : Honest(dialog[d].reports[i])

IInv ==
  /\ TypeOK /\ RunsInOrder /\ ReportsFollow /\ OneIsLive /\ PostedAreHonest /\ BatchIsWhole
  /\ ListIsCoherent /\ ShownAreHonest

\* What all comes to: every analysis is back and its dialog has heard of it.
AnalysesAreBack == posted = <<>> /\ \A r \in Runs : run[r].at \in {"off", "back"}
=============================================================================
