---------------------------- MODULE DomainCheck ----------------------------
(***************************************************************************)
(* Domain analysis: the Analyzer of src/internal/domaincheck, AnalyzeDomain *)
(* of src/app.go and the dialog of src/ui_tools.go.  Every dialog starts an *)
(* analysis of its own; all of them share the cancellation slot and the     *)
(* analyzer, whose RDAP bootstrap index is fetched once and kept.  Lookups  *)
(* that share nothing are one step; what they find is chosen.               *)
(***************************************************************************)
EXTENDS Integers, Sequences, FiniteSets

CONSTANTS MaxRuns,         \* bound: the analyses, and dialogs, ever opened
          Registrations,   \* the registration records a registry may return
          Records,         \* the sets of DNS records a domain may have
          Sites            \* what the HTTP and HTTPS probes may find

Runs == 1..MaxRuns

VARIABLES
  bootstrap,   \* "none", "index" or why the one fetch failed
  slot,        \* domainOps: the newest analysis under way, or 0
  run,         \* [Runs -> the analysis]
  dialog,      \* [Runs -> [status, report]], the dialog that started it
  opened,      \* the number of dialogs; the last one is u.domainDlg
  posted       \* events and results on their way to the main thread

vars == <<bootstrap, slot, run, dialog, opened, posted>>

NotFound == [found |-> FALSE]
Off == [at |-> "off"]
Pending == {"pending"}

Init ==
  /\ bootstrap = "none" /\ slot = 0
  /\ run = [r \in Runs |-> Off]
  /\ dialog = [r \in Runs |-> [status |-> 0, report |-> Off]]
  /\ opened = 0 /\ posted = <<>>

-----------------------------------------------------------------------------
(* The checklist and its grade.                                            *)

Check(id, status) == [id |-> id, status |-> status]
Tri(id, passes, otherwise) == Check(id, IF passes THEN "pass" ELSE otherwise)

AgeStatus(reg) ==
  CASE reg.age = "unknown" -> "info" [] reg.age = "days" -> "fail" [] reg.age = "months" -> "warn" [] OTHER -> "pass"
ExpiryStatus(reg) ==
  CASE reg.expiry = "unknown" -> "info" [] reg.expiry = "over" -> "fail" [] reg.expiry = "soon" -> "warn" [] OTHER -> "pass"
FlagsStatus(reg) == CASE reg.flags = "hold" -> "fail" [] reg.flags = "none" -> "info" [] OTHER -> "pass"
DNSSECStatus(reg) == CASE reg.dnssec = "signed" -> "pass" [] reg.dnssec = "unsigned" -> "warn" [] OTHER -> "info"
ServersStatus(reg) == CASE reg.servers >= 2 -> "pass" [] reg.servers = 1 -> "warn" [] OTHER -> "info"

RegistrationChecks(reg) ==
  IF ~reg.found THEN {Check("reg-data", "fail")}
  ELSE { Check("reg-age", AgeStatus(reg)), Check("reg-expiry", ExpiryStatus(reg)),
         Check("reg-status", FlagsStatus(reg)), Check("reg-dnssec", DNSSECStatus(reg)),
         Check("reg-ns", ServersStatus(reg)), Tri("reg-registrar", reg.registrar, "info") }

DNSChecks(dns) ==
  { Tri("dns-resolve", "address" \in dns, "fail"),
    Tri("dns-caa", "caa" \in dns, "warn"),
    Tri("dns-dnssec", {"dnskey", "ds"} \subseteq dns, "warn") }

\* What is said of a record, such as "spf-open", counts only together with it.
SPFChecks(dns) ==
  IF "spf" \notin dns THEN {Check("email-spf", "fail")}
  ELSE { Tri("email-spf", "spf-several" \notin dns, "warn"),
         Check("email-spf-policy", CASE "spf-open" \in dns -> "fail" [] "spf-all" \in dns -> "pass" [] OTHER -> "warn"),
         Tri("email-spf-lookups", "spf-long" \notin dns, "fail") }

DMARCChecks(dns) ==
  IF "dmarc" \notin dns THEN {Check("email-dmarc", "fail")}
  ELSE { Check("email-dmarc", "pass"), Tri("email-dmarc-policy", "dmarc-policy" \in dns, "warn") }
       \cup {Check("email-dmarc-rua", "pass") : x \in dns \cap {"dmarc-rua"}}

EmailChecks(dns) ==
  SPFChecks(dns) \cup DMARCChecks(dns) \cup
  { Tri("email-dkim", "dkim" \in dns, "warn"), Tri("email-mta-sts", "mta-sts" \in dns, "info"),
    Tri("email-tls-rpt", "tls-rpt" \in dns, "info") }

\* A certificate is good for more than two weeks, "expiring" or "expired".
CertStatus(web) ==
  CASE "cert" \notin web -> "info" [] "expired" \in web -> "fail" [] "expiring" \in web -> "warn" [] OTHER -> "pass"

\* A site that does not answer over HTTPS is a warning, not a failure.
WebChecks(web) ==
  { Tri("web-https", "https" \in web, "warn"), Tri("web-redirect", "redirect" \in web, "warn"),
    Check("web-cert", CertStatus(web)),
    Tri("web-hsts", "hsts" \in web, "warn"), Tri("web-headers", "headers" \in web, "warn") }
  \cup {Check("web-tls-version", "warn") : x \in web \cap {"old-tls"}}

BuildChecks(reg, dns, web) ==
  RegistrationChecks(reg) \cup DNSChecks(dns) \cup EmailChecks(dns) \cup WebChecks(web)

\* Passes count one, warnings a half; information counts nothing.
Score(checks) ==
  LET of(status) == Cardinality({c \in checks : c.status = status})
      total == of("pass") + of("warn") + of("fail")
  IN IF total = 0 THEN 0 ELSE (100 * (2 * of("pass") + of("warn")) + total) \div (2 * total)

Grade(checks) ==
  LET value == Score(checks)
  IN CASE value >= 90 -> "A" [] value >= 80 -> "B" [] value >= 70 -> "C" [] value >= 60 -> "D" [] OTHER -> "F"

-----------------------------------------------------------------------------
(* The dialog.                                                             *)

CancelSlot == IF slot = 0 THEN run ELSE [run EXCEPT ![slot].cancelled = TRUE]

\* openDomainDialog: the analysis starts with the dialog, in a goroutine.
OpenDialog ==
  /\ opened < MaxRuns
  /\ opened' = opened + 1
  /\ run' = [run EXCEPT ![opened + 1] =
       [at |-> "begin", cancelled |-> FALSE, reg |-> "base", registration |-> NotFound,
        error |-> "none", dns |-> Pending, web |-> Pending]]
  /\ UNCHANGED <<bootstrap, slot, dialog, posted>>

\* The Cancel button of any of the dialogs stops the newest analysis.
CancelAnalysis ==
  /\ slot # 0 /\ run' = CancelSlot
  /\ UNCHANGED <<bootstrap, slot, dialog, opened, posted>>

\* onDomainProgress writes to the newest dialog; populate to its own.
Deliver ==
  /\ posted # <<>>
  /\ LET e == Head(posted)
     IN dialog' = IF e.what = "progress" THEN [dialog EXCEPT ![opened].status = e.run]
                  ELSE [dialog EXCEPT ![e.run] = [status |-> 0, report |-> e.report]]
  /\ posted' = Tail(posted)
  /\ UNCHANGED <<bootstrap, slot, run, opened>>

-----------------------------------------------------------------------------
(* AnalyzeDomain and Analyze.                                              *)

Progress(r) == Append(posted, [what |-> "progress", run |-> r])

\* domainOps.begin, then the three parts start.
Begin(r) ==
  /\ run[r].at = "begin"
  /\ run' = [CancelSlot EXCEPT ![r].at = "parts"]
  /\ slot' = r /\ posted' = Progress(r)
  /\ UNCHANGED <<bootstrap, dialog, opened>>

Registering(r, at) == run[r].at = "parts" /\ run[r].reg = at

\* rdapBase: the kept index, or else a fetch without the lock.
RdapBase(r) ==
  /\ Registering(r, "base")
  /\ run' = [run EXCEPT ![r].reg = IF bootstrap = "none" THEN "fetch"
                                   ELSE IF bootstrap = "index" THEN "rdap" ELSE "whois",
                        ![r].error = IF bootstrap \in {"none", "index"} THEN @ ELSE bootstrap]
  /\ UNCHANGED <<bootstrap, slot, dialog, opened, posted>>

Outcomes(r) == IF run[r].cancelled THEN {"cancelled"} ELSE {"index", "failed"}

\* The first fetch to end is kept, whatever it ended with: also the error of a
\* fetch that was cancelled.
FetchBootstrap(r, outcome) ==
  LET kept == IF bootstrap = "none" THEN outcome ELSE bootstrap
  IN /\ Registering(r, "fetch") /\ outcome \in Outcomes(r)
     /\ bootstrap' = kept
     /\ run' = [run EXCEPT ![r].reg = IF kept = "index" THEN "rdap" ELSE "whois",
                           ![r].error = IF kept = "index" THEN @ ELSE kept]
     /\ UNCHANGED <<slot, dialog, opened, posted>>

\* rdapRegistration: a record, none for the domain or the TLD, or an error; all
\* but the first lead to WHOIS.
Rdap(r, reg) ==
  /\ Registering(r, "rdap") /\ (reg.found => ~run[r].cancelled)
  /\ run' = [run EXCEPT ![r].reg = IF reg.found THEN "done" ELSE "whois", ![r].registration = reg]
  /\ UNCHANGED <<bootstrap, slot, dialog, opened, posted>>

\* whoisRegistration: the server IANA refers to, the built-in one, or IANA's
\* own; the first that answers decides.
Whois(r, reg) ==
  /\ Registering(r, "whois") /\ (reg.found => ~run[r].cancelled)
  /\ run' = [run EXCEPT ![r].reg = "done", ![r].registration = reg]
  /\ UNCHANGED <<bootstrap, slot, dialog, opened, posted>>

\* dnsReport: eight groups of lookups, joined at the end; a failed lookup is an
\* absent record, so any part of the domain's records may be found.
DnsReports == UNION {SUBSET records : records \in Records}

\* webReport: the redirect, then the HTTPS probe.
WebReports(r) == {{}} \cup (IF run[r].cancelled THEN {} ELSE Sites)

\* These two share nothing with each other, the registration or another analysis.
DnsPart(r, dns) ==
  /\ run[r].at = "parts" /\ run[r].dns = Pending /\ dns \in DnsReports
  /\ run' = [run EXCEPT ![r].dns = dns]
  /\ UNCHANGED <<bootstrap, slot, dialog, opened, posted>>

WebPart(r, web) ==
  /\ run[r].at = "parts" /\ run[r].web = Pending /\ web \in WebReports(r)
  /\ run' = [run EXCEPT ![r].web = web]
  /\ UNCHANGED <<bootstrap, slot, dialog, opened, posted>>

\* The report that the parts of an analysis make.
Report(a) ==
  LET checks == BuildChecks(a.registration, a.dns, a.web)
  IN [at |-> "report", grade |-> Grade(checks), score |-> Score(checks)]

Finish(r) ==
  /\ slot' = IF slot = r THEN 0 ELSE slot
  /\ posted' = Append(Progress(r), [what |-> "report", run |-> r, report |-> Report(run[r])])
  /\ run' = [run EXCEPT ![r].at = "back"]
  /\ UNCHANGED <<bootstrap, dialog, opened>>

\* Faulty variant: the report does not wait for the web part.
AssembleEarly(r) ==
  /\ run[r].at = "parts" /\ run[r].reg = "done" /\ run[r].dns # Pending
  /\ Finish(r)

\* wg.Wait for all three, the checklist and the grade; then the slot is given
\* back.  There is no error for an analysis that was cancelled.
Assemble(r) ==
  /\ run[r].at = "parts" /\ run[r].reg = "done" /\ run[r].dns # Pending /\ run[r].web # Pending
  /\ Finish(r)

Answers == Registrations \cup {NotFound}

Analysis(r) ==
  \/ Begin(r) \/ RdapBase(r) \/ Assemble(r)
  \/ \E outcome \in {"index", "failed", "cancelled"} : FetchBootstrap(r, outcome)
  \/ \E reg \in Answers : Rdap(r, reg) \/ Whois(r, reg)
  \/ (\E dns \in DnsReports : DnsPart(r, dns)) \/ (\E web \in Sites \cup {{}} : WebPart(r, web))

Next == OpenDialog \/ CancelAnalysis \/ Deliver \/ \E r \in Runs : Analysis(r)

\* Every lookup has a timeout; goroutines and the main thread are scheduled.
Fairness == WF_vars(Deliver \/ \E r \in Runs : Analysis(r))

Spec == Init /\ [][Next]_vars /\ Fairness

-----------------------------------------------------------------------------
TypeOK ==
  /\ bootstrap \in {"none", "index", "failed", "cancelled"}
  /\ slot \in 0..opened /\ opened \in 0..MaxRuns
  /\ \A r \in Runs : run[r].at \in {"off", "begin", "parts", "back"}

\* All analyses see one bootstrap: what the first fetch brought is never
\* replaced by that of another that was under way, although the lock is not held
\* during a fetch.
BootstrapIsStable == [][bootstrap = "none" \/ bootstrap' = bootstrap]_vars

\* All three parts of an analysis have ended, and the report is the one they make.
Whole(a, report) ==
  /\ a.at = "back" /\ a.reg = "done" /\ a.dns # Pending /\ a.web # Pending
  /\ report = Report(a) /\ report.score \in 0..100

\* A dialog shows the report of its own analysis, made of all three parts: also
\* when that was cancelled, another was opened meanwhile, or its bootstrap was
\* fetched by another one.
ReportIsWhole ==
  \A r \in Runs : dialog[r].report # Off => Whole(run[r], dialog[r].report)

-----------------------------------------------------------------------------
(* The inductive invariant behind it.                                      *)

CheckAssumption == MaxRuns \in Nat

\* What is on its way to the main thread is about a dialog that was opened, and
\* a report is whole.
EventIsWhole(e) ==
  /\ e.what \in {"progress", "report"} /\ e.run \in 1..opened
  /\ e.what = "report" => Whole(run[e.run], e.report)

EventsAreWhole ==
  /\ posted \in Seq({posted[i] : i \in DOMAIN posted})
  /\ \A i \in DOMAIN posted : EventIsWhole(posted[i])

RunFields == {"at", "cancelled", "reg", "registration", "error", "dns", "web"}

AnalysesAreOpened ==
  /\ DOMAIN run = Runs /\ DOMAIN dialog = Runs
  /\ \A r \in Runs : /\ IF r > opened THEN run[r] = Off ELSE DOMAIN run[r] = RunFields
                     /\ {"status", "report"} = DOMAIN dialog[r]

IInv == TypeOK /\ EventsAreWhole /\ AnalysesAreOpened /\ ReportIsWhole

\* What the analyses of several dialogs share, and what each of them reports.
AnalysesAreApart == [](IInv /\ ReportIsWhole) /\ BootstrapIsStable

-----------------------------------------------------------------------------
\* Every dialog gets its report in the end, cancelled analyses too.
AllReported ==
  \A r \in 1..opened : run[r].at = "back" /\ dialog[r].report # Off
=============================================================================
