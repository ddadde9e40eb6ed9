------------------------------- MODULE Dialogs -------------------------------
(***************************************************************************)
(* The dialogs of the tools menu that run an analysis of their own, side   *)
(* by side with the throttle of the scraper: the country blocks, the       *)
(* domain check and the origin discovery.  They share no state; what is    *)
(* said of them here is checked and proved.                                *)
(***************************************************************************)
EXTENDS ScrapeThrottle, Sequences

CONSTANTS Owners, Unknown, Family, Families, BlockLimit, MaxOps,    \* see Countries
          MaxRuns, Registrations, Records, Sites,                   \* see DomainCheck
          Candidates, Front, Ports, Serves, Foreign, Remembered,    \* see Origin
          Concurrency, PortConcurrency, MaxDiscoveries

VARIABLES
  db, closed, kept, mu, op, slot, gui, posted,
  bootstrap, domainSlot, analysis, report, analyses, events,
  discovery, originSlot, probe, found, shown, markers, discoveries, results

countryVars == <<db, closed, kept, mu, op, slot, gui, posted>>
domainVars == <<bootstrap, domainSlot, analysis, report, analyses, events>>
originVars == <<discovery, originSlot, probe, found, shown, markers, discoveries, results>>

Blocks == INSTANCE Countries WITH Limit <- BlockLimit

Domain == INSTANCE DomainCheck
  WITH slot <- domainSlot, run <- analysis, dialog <- report, opened <- analyses, posted <- events

Unmask == INSTANCE Origin
  WITH MaxRuns <- MaxDiscoveries, run <- discovery, slot <- originSlot, opened <- discoveries,
       posted <- results

ASSUME DialogsAssumption ==
  Blocks!CountryAssumption /\ Domain!CheckAssumption /\ Unmask!OriginAssumption

-----------------------------------------------------------------------------
\* Each of these checks the type invariant of the module it is about as well,
\* and the inductive one behind it.

\* The blocks shown for a country are all of them, see Countries.
ShownIsComplete == Blocks!IInv /\ Blocks!ShownIsComplete

\* What the analyses of several dialogs share, and what each reports, see
\* DomainCheck.
AnalysesAreApart == Domain!AnalysesAreApart

\* What is said of a candidate, and which addresses reach the map, see Origin.
OriginVerdicts == Unmask!IInv /\ Unmask!OriginVerdicts
=============================================================================
