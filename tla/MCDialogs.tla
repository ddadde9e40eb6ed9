------------------------------ MODULE MCDialogs ------------------------------
(***************************************************************************)
(* The dialogs of the tools menu that run an analysis of their own: the    *)
(* country blocks, the domain check and the origin discovery, checked in   *)
(* one run with the throttle of the scraper, which is extended: a behaviour *)
(* is a behaviour of the module that focus names, and the variables of the  *)
(* others keep their initial values.                                        *)
(***************************************************************************)
EXTENDS Dialogs

VARIABLE focus

all == <<focus, vars, countryVars, domainVars, originVars>>

-----------------------------------------------------------------------------
\* A country with networks of two families, of which a page has one, and after a
\* change of the database one network without a country.
MCOwners == <<<<"D", "D">>, <<"X">>>>
MCFamily == <<"v4", "v6">>

MCRegistrations ==
  {[found |-> TRUE, age |-> "years", expiry |-> "far", flags |-> "ok", dnssec |-> "signed",
    servers |-> 2, registrar |-> TRUE]}

\* A domain whose own address answers for any name, an origin with the domain's
\* certificate, and an edge that adds its headers and is in nobody's DNS.
MCServes == [x \in {"front", "origin", "edge"} \X {443, 80} |->
  CASE x = <<"origin", 443>> -> {"favicon", "body", "cert"}
    [] x = <<"origin", 80>> -> {"status"}
    [] x = <<"front", 443>> -> {"favicon", "body"}
    [] x = <<"edge", 443>> -> {"favicon", "body", "proxy"}
    [] OTHER -> {}]
MCPorts == <<443, 80>>

-----------------------------------------------------------------------------
MCInit ==
  /\ focus \in {"throttle", "countries", "domain", "origin"}
  /\ Init /\ Blocks!Init /\ Domain!Init /\ Unmask!Init

MCNext ==
  \/ focus = "throttle" /\ Next /\ UNCHANGED <<focus, countryVars, domainVars, originVars>>
  \/ focus = "countries" /\ Blocks!Next /\ UNCHANGED <<focus, vars, domainVars, originVars>>
  \/ focus = "domain" /\ Domain!Next /\ UNCHANGED <<focus, vars, countryVars, originVars>>
  \/ focus = "origin" /\ Unmask!Next /\ UNCHANGED <<focus, vars, countryVars, domainVars>>

\* A dialog that nobody opens has nothing to be fair to.
MCSpec == MCInit /\ [][MCNext]_all /\ Blocks!Fairness /\ Domain!Fairness /\ Unmask!Fairness

-----------------------------------------------------------------------------
\* The promise of Blocks for every code, see Countries.
EveryNetworkReturned == Blocks!EveryNetworkReturned

\* What the repository says of the verdicts of the origin discovery, see Origin.
SNISupports == Unmask!SNISupports

\* Every dialog is served in the end, whatever is cancelled, see the modules.
DialogsServed == <>[](Blocks!NobodyWaits /\ Domain!AllReported /\ Unmask!AllFilled)
=============================================================================
