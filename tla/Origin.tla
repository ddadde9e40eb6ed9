------------------------------- MODULE Origin -------------------------------
(***************************************************************************)
(* Origin discovery ("unmask"): Discover of src/internal/origin,            *)
(* UnmaskTarget of src/app.go and the dialog of src/ui_tools.go.  A         *)
(* candidate is an address, a probe a port of it; what an endpoint serves,  *)
(* compared with the baseline, is a set of fingerprints.                    *)
(***************************************************************************)
EXTENDS Integers, Sequences, FiniteSets

CONSTANTS Candidates,    \* the addresses of the domain's DNS footprint
          Front,         \* those the domain itself resolves to
          Ports,         \* the probed ports, a sequence without repetitions
          Serves,        \* [Candidates \X Range(Ports) -> fingerprints, {} without an answer]
          Foreign,       \* the candidates that may answer for a name not theirs
          Remembered,    \* those whose location is in the resolver's memory
          Concurrency, PortConcurrency,
          MaxRuns        \* bound: the dialogs, and discoveries, ever opened

Runs == 1..MaxRuns
Probes == DOMAIN Ports

VARIABLES
  run,       \* [Runs -> [at, cancelled, proxied, base, located]]
  slot,      \* originOps
  probe,     \* [Runs -> [Candidates -> the goroutine that verifies it]]
  found,     \* [Runs -> [addresses -> [verdict, score, ports, sni]]]
  shown,     \* [Runs -> what the run's dialog lists, or "none"]
  markers,   \* the origins marked on the map
  opened, posted

vars == <<run, slot, probe, found, shown, markers, opened, posted>>

Off == [at |-> "off"]
Idle == [at |-> "none", next |-> 1, out |-> {}, failed |-> {}, hits |-> {}]
Nothing == [c \in {} |-> 0]

Init ==
  /\ run = [r \in Runs |-> Off] /\ slot = 0
  /\ probe = [r \in Runs |-> [c \in Candidates |-> Idle]]
  /\ found = [r \in Runs |-> Nothing]
  /\ shown = [r \in Runs |-> "none"] /\ markers = {}
  /\ opened = 0 /\ posted = <<>>

-----------------------------------------------------------------------------
(* Evidence and verdicts.                                                  *)

\* A proxy passes content through, so content weighs more than certificates.
Score(evidence) ==
  (IF "favicon" \in evidence THEN 4 ELSE 0) + (IF "body" \in evidence THEN 3 ELSE 0)
  + (IF "cert" \in evidence THEN 2 ELSE 0) + (IF "status" \in evidence THEN 1 ELSE 0)

Classify(evidence) ==
  IF evidence \cap {"sni", "proxy"} # {} THEN "proxy"
  ELSE IF {"favicon", "body"} \subseteq evidence THEN "confirmed"
  ELSE IF evidence \cap {"favicon", "body", "cert"} # {} THEN "likely"
  ELSE "proxy"

\* What an endpoint serves.
Served(c, n) == Serves[c, Ports[n]]

\* compare; "proxy" stands for the headers that the rules say an intermediary adds.
Compare(base, served) == (served \cap base) \cup (served \cap {"proxy"})

\* The strongest answers in the order of the ports; the first of them is kept.
Best(hits) ==
  LET best == CHOOSE h \in hits : \A g \in hits :
                Score(g.evidence) < Score(h.evidence)
                \/ (Score(g.evidence) = Score(h.evidence) /\ h.port <= g.port)
  IN [evidence |-> best.evidence,
      ports |-> {h.port : h \in {g \in hits : Score(g.evidence) = Score(best.evidence)}}]

Dead == [verdict |-> "dead", score |-> 0, ports |-> {}, sni |-> FALSE]

\* After all probes: dead without a hit, or else the best evidence together with
\* whether the address answers for a name it was never asked to serve.
Verdict(hits, sni) ==
  IF hits = {} THEN Dead
  ELSE [verdict |-> Classify(Best(hits).evidence \cup (IF sni THEN {"sni"} ELSE {})),
        score |-> Score(Best(hits).evidence), ports |-> Best(hits).ports, sni |-> sni]

-----------------------------------------------------------------------------
(* The dialog.                                                             *)

CancelSlot == IF slot = 0 THEN run ELSE [run EXCEPT ![slot].cancelled = TRUE]

\* openOriginDialog starts the run at once.
OpenDialog ==
  /\ opened < MaxRuns /\ opened' = opened + 1
  /\ run' = [run EXCEPT ![opened + 1] =
       [at |-> "begin", cancelled |-> FALSE, proxied |-> FALSE, base |-> {}, located |-> {}]]
  /\ UNCHANGED <<slot, probe, found, shown, markers, posted>>

CancelUnmask ==
  /\ slot # 0 /\ run' = CancelSlot
  /\ UNCHANGED <<slot, probe, found, shown, markers, opened, posted>>

\* populate lists the candidates with their verdicts, addOriginMarkers adds to
\* the map what was confirmed or likely and has a location.
Deliver ==
  /\ posted # <<>>
  /\ LET r == Head(posted)
     IN /\ shown' = [shown EXCEPT ![r] = "report"]
        /\ markers' = markers \cup run[r].located
  /\ posted' = Tail(posted)
  /\ UNCHANGED <<run, slot, probe, found, opened>>

-----------------------------------------------------------------------------
(* Discover.                                                               *)

Begin(r) ==
  /\ run[r].at = "begin"
  /\ run' = [CancelSlot EXCEPT ![r].at = "baseline"]
  /\ slot' = r
  /\ UNCHANGED <<probe, found, shown, markers, opened, posted>>

\* baseline: what the domain serves through its usual address, and whether that
\* shows an intermediary; a fetch that fails leaves nothing to compare with.
\* The candidates are mined next, and each gets a goroutine.
Baseline(r, base, proxied) ==
  /\ run[r].at = "baseline" /\ (base # {} => ~run[r].cancelled) /\ (proxied => base # {})
  /\ run' = [run EXCEPT ![r].at = "verify", ![r].base = base, ![r].proxied = proxied]
  /\ probe' = [probe EXCEPT ![r] = [c \in Candidates |-> [Idle EXCEPT !.at = "queued"]]]
  /\ UNCHANGED <<slot, found, shown, markers, opened, posted>>

Probing(r) == {c \in Candidates : probe[r][c].at = "probe"}

Found(r, c, origin) ==
  found' = [found EXCEPT ![r] = [x \in DOMAIN @ \cup {c} |-> IF x = c THEN origin ELSE @[x]]]

\* verifyOne: the front of a proxied domain is not probed.
Verify(r, c) ==
  /\ probe[r][c].at = "queued" /\ Cardinality(Probing(r)) < Concurrency
  /\ IF run[r].proxied /\ c \in Front
     THEN /\ Found(r, c, [Dead EXCEPT !.verdict = "proxy"])
          /\ probe' = [probe EXCEPT ![r][c].at = "over"]
     ELSE /\ probe' = [probe EXCEPT ![r][c].at = "probe"]
          /\ UNCHANGED found
  /\ UNCHANGED <<run, slot, shown, markers, opened, posted>>

\* A goroutine that waits for a place gives up; its candidate gets no verdict.
GiveUp(r, c) ==
  /\ probe[r][c].at = "queued" /\ run[r].cancelled
  /\ probe' = [probe EXCEPT ![r][c].at = "over"]
  /\ UNCHANGED <<run, slot, found, shown, markers, opened, posted>>

\* The ports in order, a few at once, until the run is cancelled.
Dial(r, c) ==
  LET p == probe[r][c]
  IN /\ p.at = "probe" /\ ~run[r].cancelled
     /\ p.next <= Len(Ports) /\ Cardinality(p.out) < PortConcurrency
     /\ probe' = [probe EXCEPT ![r][c].next = @ + 1, ![r][c].out = @ \cup {p.next}]
     /\ UNCHANGED <<run, slot, found, shown, markers, opened, posted>>

\* probeEndpoint: an answer is compared with the baseline; any probe may time
\* out, and one of a cancelled run does not succeed any more.
Answer(r, c, n, answered) ==
  LET served == Served(c, n)
  IN /\ n \in probe[r][c].out /\ (answered => ~run[r].cancelled /\ served # {})
     /\ probe' = [probe EXCEPT ![r][c].out = @ \ {n},
                    ![r][c].failed = IF answered THEN @ ELSE @ \cup {n},
                    ![r][c].hits = IF answered
                      THEN @ \cup {[port |-> n, evidence |-> Compare(run[r].base, served)]}
                      ELSE @]
     /\ UNCHANGED <<run, slot, found, shown, markers, opened, posted>>

\* sniVariance, with a connection of its own: FALSE also when the dial or the
\* handshake fails.
Variance(c, sni) == sni => c \in Foreign

\* Faulty variant: the verdict does not wait for the probes under way.
DecideEarly(r, c, sni) ==
  LET p == probe[r][c]
  IN /\ p.at = "probe" /\ (p.next > Len(Ports) \/ run[r].cancelled)
     /\ Variance(c, sni)
     /\ Found(r, c, Verdict(p.hits, sni))
     /\ probe' = [probe EXCEPT ![r][c].at = "over", ![r][c].out = {}]
     /\ UNCHANGED <<run, slot, shown, markers, opened, posted>>

\* The probes' wg.Wait, then the verdict.
Decide(r, c, sni) ==
  LET p == probe[r][c]
  IN /\ p.at = "probe" /\ p.out = {} /\ (p.next > Len(Ports) \/ run[r].cancelled)
     /\ Variance(c, sni)
     /\ Found(r, c, Verdict(p.hits, sni))
     /\ probe' = [probe EXCEPT ![r][c].at = "over"]
     /\ UNCHANGED <<run, slot, shown, markers, opened, posted>>

Origins(r) == {c \in DOMAIN found[r] : found[r][c].verdict \in {"confirmed", "likely"}}

\* The candidates' wg.Wait; the origins are located, in a cancelled run only
\* those whose location is in memory; and the report, also of a cancelled run,
\* is posted to the run's dialog without an error.
Return(r, located) ==
  /\ run[r].at = "verify" /\ \A c \in Candidates : probe[r][c].at = "over"
  /\ Remembered \cap Origins(r) \subseteq located /\ located \subseteq Origins(r)
  /\ run[r].cancelled => located \subseteq Remembered
  /\ run' = [run EXCEPT ![r].at = "back", ![r].located = located]
  /\ slot' = IF slot = r THEN 0 ELSE slot
  /\ posted' = Append(posted, r)
  /\ UNCHANGED <<probe, found, shown, markers, opened>>

Bases == {{}, {"favicon", "body", "cert", "status"}}

Discover(r) ==
  \/ Begin(r) \/ \E located \in SUBSET Candidates : Return(r, located)
  \/ \E base \in Bases, proxied \in BOOLEAN : Baseline(r, base, proxied)
  \/ \E c \in Candidates :
       Verify(r, c) \/ GiveUp(r, c) \/ Dial(r, c) \/ (\E sni \in BOOLEAN : Decide(r, c, sni))
       \/ \E n \in Probes, answered \in BOOLEAN : Answer(r, c, n, answered)

Next == OpenDialog \/ CancelUnmask \/ Deliver \/ \E r \in Runs : Discover(r)

\* Probes time out; goroutines and the main thread are scheduled.
Fairness == WF_vars(Deliver \/ \E r \in Runs : Discover(r))

Spec == Init /\ [][Next]_vars /\ Fairness

-----------------------------------------------------------------------------
TypeOK ==
  /\ slot \in 0..opened /\ opened \in 0..MaxRuns /\ markers \subseteq Candidates
  /\ \A r \in Runs, c \in Candidates :
       probe[r][c].out \subseteq Probes /\ probe[r][c].at \in {"none", "queued", "probe", "over"}

Hit(base, c, n) == [port |-> n, evidence |-> Compare(base, Served(c, n))]
Hits(base, c, ports) == {Hit(base, c, n) : n \in ports}

Asked(p) == 1..(p.next - 1)
IsFront(a, c) == a.proxied /\ c \in Front

\* What the answers to all probes sent show of a candidate, in a run a with probe p.
Deserved(a, p, c, sni) ==
  IF IsFront(a, c) THEN [Dead EXCEPT !.verdict = "proxy"]
  ELSE Verdict(Hits(a.base, c, Asked(p) \ p.failed), sni)

\* All ports were asked, or none need be.
Complete(a, p, c) == IsFront(a, c) \/ Asked(p) = Probes

\* A verdict does not depend on the order in which the ports answered, and no
\* answer is lost: each probe sent has answered, and counts, or has failed.  When
\* nobody cancels, every candidate gets a verdict, and all its ports were asked.
VerdictIsDeserved ==
  \A r \in Runs : run[r].at = "back" =>
    /\ \A c \in DOMAIN found[r] :
         found[r][c] = Deserved(run[r], probe[r][c], c, found[r][c].sni)
    /\ ~run[r].cancelled =>
         \A c \in Candidates : c \in DOMAIN found[r] /\ Complete(run[r], probe[r][c], c)

\* What it takes to be taken for an origin: one answer that matches the baseline
\* and shows no intermediary, an address that is not the front of a proxied domain,
\* and no certificate of somebody else's.
Earned(r, c) ==
  /\ ~IsFront(run[r], c) /\ ~found[r][c].sni
  /\ \E n \in Probes \ probe[r][c].failed :
       /\ "proxy" \notin Served(c, n)
       /\ Served(c, n) \cap run[r].base \cap {"favicon", "body", "cert"} # {}

\* Every address marked on the map is an origin of some run, which earned it:
\* cancelled runs, whose reports are shown as well, mark no others.
MarksAreEarned ==
  \A c \in markers : \E r \in Runs : c \in Origins(r) /\ Earned(r, c)

\* What is said of a candidate, and which addresses reach the map.
OriginVerdicts == TypeOK /\ VerdictIsDeserved /\ MarksAreEarned

-----------------------------------------------------------------------------
(* The inductive invariant behind these.                                   *)

OriginAssumption == MaxRuns \in Nat /\ Len(Ports) \in Nat /\ Probes = 1..Len(Ports)

RunRecords ==
  [at : {"begin", "baseline", "verify", "back"}, cancelled : BOOLEAN, proxied : BOOLEAN,
   base : Bases, located : SUBSET Candidates]

AllEvidence == UNION {Served(c, n) : c \in Candidates, n \in Probes}

ProbeRecords ==
  [at : {"none", "queued", "probe", "over"}, next : Nat \ {0}, out : SUBSET Probes,
   failed : SUBSET Probes, hits : SUBSET [port : Probes, evidence : SUBSET AllEvidence]]

\* A run is a record from the moment its dialog is opened, and the slot, and what
\* is posted, name such runs.
RunsAreOpened ==
  /\ DOMAIN run = Runs
  /\ \A r \in Runs : IF r <= opened THEN run[r] \in RunRecords ELSE run[r] = Off
  /\ posted \in Seq(1..opened)

ProbesAreRecords ==
  /\ probe \in [Runs -> [Candidates -> ProbeRecords]] /\ DOMAIN found = Runs
  /\ \A r \in Runs :
       /\ run[r].at \in {"off", "begin", "baseline"} =>
            DOMAIN found[r] = {} /\ \A c \in Candidates : probe[r][c].at = "none"
       /\ run[r].at = "verify" => \A c \in Candidates : probe[r][c].at # "none"
       /\ run[r].at = "back" => \A c \in Candidates : probe[r][c].at = "over"

\* A probe under way has the evidence of exactly the ports that have answered.
HasAnswers(base, c, p) ==
  /\ p.next <= Len(Ports) + 1 /\ p.out \cup p.failed \subseteq Asked(p) /\ p.out \cap p.failed = {}
  /\ p.hits = Hits(base, c, Asked(p) \ (p.out \cup p.failed))

HitsAreAnswers ==
  \A r \in Runs, c \in Candidates :
    LET p == probe[r][c]
    IN /\ p.at = "queued" => p.next = 1 /\ p.hits = {} /\ p.failed = {}
       /\ p.at # "probe" => p.out = {}
       /\ p.at = "probe" => ~IsFront(run[r], c) /\ HasAnswers(run[r].base, c, p)

Follows(a, p, c, origin) ==
  /\ origin = Deserved(a, p, c, origin.sni)
  /\ IsFront(a, c) \/ Asked(p) \subseteq Probes

VerdictsFollowProbes ==
  \A r \in Runs :
    /\ DOMAIN found[r] \subseteq {c \in Candidates : probe[r][c].at = "over"}
    /\ \A c \in DOMAIN found[r] : Follows(run[r], probe[r][c], c, found[r][c])
    /\ run[r] # Off /\ ~run[r].cancelled =>
         \A c \in Candidates : probe[r][c].at = "over" =>
            c \in DOMAIN found[r] /\ Complete(run[r], probe[r][c], c)

OriginsReachTheMap ==
  /\ \A r \in Runs : run[r] # Off => run[r].located \subseteq Origins(r)
  /\ \A c \in markers : \E r \in Runs : c \in Origins(r)

IInv ==
  /\ TypeOK /\ RunsAreOpened /\ ProbesAreRecords /\ HitsAreAnswers /\ VerdictsFollowProbes
  /\ OriginsReachTheMap

-----------------------------------------------------------------------------
\* Every dialog is filled in the end.
AllFilled == \A r \in 1..opened : shown[r] = "report"

-----------------------------------------------------------------------------
(* What the comments and the README say of the verdicts.                   *)

\* probe.go: sniVariance is a supporting signal, never decisive on its own.
SNISupports ==
  \A r \in Runs : \A c \in DOMAIN found[r] :
    found[r][c].sni => found[r][c].verdict = Classify(Best(probe[r][c].hits).evidence)
=============================================================================
