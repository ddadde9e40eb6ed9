------------------------------ MODULE MCRequests -----------------------------
(***************************************************************************)
(* The components of Requests, checked in one run: a behaviour is a        *)
(* behaviour of the module that focus names, and the variables of the      *)
(* others keep their initial values.                                       *)
(***************************************************************************)
EXTENDS Requests

VARIABLE focus

all == <<focus, vars, crawlVars, pingVars, sweepVars, linkVars, endpointVars>>

-----------------------------------------------------------------------------
(* A small web: a file, a page on another host, a redirect off the domain  *)
(* and a second domain.                                                    *)

Document(type, host_, domain, lands, links, media, dirs, matches) ==
  [kind |-> type, host |-> host_, domain |-> domain, lands |-> lands, links |-> links,
   assets |-> media, dirs |-> dirs, matches |-> matches]

MCWeb == [u \in {"a", "b", "c", "d", "e", "z"} |->
  CASE u = "a" -> Document("html", "h1", "s", "s", {"b", "c", "e"}, <<"i", "j">>, <<"/x/", "/">>, TRUE)
    [] u = "b" -> Document("html", "h1", "s", "s", {"a", "d"}, <<"j", "k">>, <<"/">>, FALSE)
    [] u = "c" -> Document("file", "h1", "s", "s", {}, <<>>, <<>>, TRUE)
    [] u = "d" -> Document("html", "h2", "s", "s", {"a"}, <<>>, <<>>, TRUE)
    [] u = "e" -> Document("html", "h1", "s", "t", {"d"}, <<>>, <<>>, TRUE)
    [] u = "z" -> Document("html", "h3", "t", "t", {"e"}, <<>>, <<>>, TRUE)]

Request(seeds, scope, media, keywords, dirs, limits) ==
  [seeds |-> seeds, depth |-> IF Len(seeds) = 1 THEN 2 ELSE 1, scope |-> scope, media |-> media,
   keywords |-> keywords, index |-> dirs, pages |-> limits[1], assets |-> limits[2], workers |-> 2]

MCOptions == {Request(<<"a">>, "domain", TRUE, TRUE, FALSE, <<9, 9>>),
              Request(<<"b", "d">>, "domain", TRUE, FALSE, TRUE, <<2, 1>>),
              Request(<<"a", "z">>, "host", FALSE, FALSE, FALSE, <<9, 9>>)}

MCUrls == DOMAIN MCWeb

\* Two calls for a host that answers and one for a host that does not, with
\* numbers that come round.
MCHost == [p \in {"p", "q", "r"} |-> IF p = "r" THEN "h2" ELSE "h1"]

\* Every block of three bits of address, a host with two open ports and some
\* with one.
MCSweepPorts == <<1, 2>>
MCAccepting == [a \in 0..7 |-> IF a = 4 THEN {1, 2} ELSE IF a % 2 = 1 THEN {2} ELSE {}]

\* Three URLs of one page, a host of its own behind a second candidate for the
\* frontpage, and sitemaps that name each other.
MCSitePage == [u \in {"s", "t", "a", "b", "c", "x"} |->
  CASE u = "s" -> [final |-> "s", family |-> "home", links |-> <<"a", "b", "x", "a">>]
    [] u = "t" -> [final |-> "t", family |-> "other", links |-> <<"x", "c", "b">>]
    [] u = "x" -> [final |-> "x", family |-> "other", links |-> <<>>]
    [] OTHER -> [final |-> "b", family |-> "home", links |-> <<>>]]
MCSitemap == [m \in {"m", "n", "o", "w"} |->
  CASE m = "m" -> [urls |-> <<"c">>, nested |-> <<"n", "m", "n">>]
    [] m = "n" -> [urls |-> <<"s", "c">>, nested |-> <<"o">>]
    [] m = "o" -> [urls |-> <<>>, nested |-> <<"w">>]
    [] m = "w" -> [urls |-> <<>>, nested |-> <<"m">>]]

MCFronts == <<"s", "t">>
MCRobots == [maps |-> <<"m">>, paths |-> <<"t">>]

\* A good site, one that fails a check, and one that does not answer; an endpoint
\* is asked for twice, and the limit leaves the last out.
MCResponses == [u \in {"a", "b", "c"} |->
  CASE u = "a" -> {"https", "hsts", "csp", "nosniff", "frame", "policy"}
    [] u = "b" -> {"https", "csp", "nosniff", "frame", "policy"}
    [] OTHER -> {}]
MCEndpointLists == {<<"b", "b", "c", "a">>}

-----------------------------------------------------------------------------
MCInit ==
  /\ focus \in {"limiter", "crawl", "ping", "sweep", "links", "endpoints"}
  /\ Init /\ Pinger!Init /\ Http!Init
  /\ IF focus = "crawl" THEN Crawl!Init ELSE Crawl!InitWith(CHOOSE o \in Options : TRUE)
  /\ IF focus = "sweep" THEN Sweep!Init ELSE Sweep!InitIn([base |-> 0, size |-> 1], "cancelled", "over")
  /\ IF focus = "links" THEN Links!Init ELSE Links!InitAt("cancelled", "over")

MCNext ==
  \/ /\ focus = "limiter" /\ Next
     /\ UNCHANGED <<focus, crawlVars, pingVars, sweepVars, linkVars, endpointVars>>
  \/ /\ focus = "crawl" /\ Crawl!Next
     /\ UNCHANGED <<focus, vars, pingVars, sweepVars, linkVars, endpointVars>>
  \/ /\ focus = "ping" /\ Pinger!Next
     /\ UNCHANGED <<focus, vars, crawlVars, sweepVars, linkVars, endpointVars>>
  \/ /\ focus = "sweep" /\ Sweep!Next
     /\ UNCHANGED <<focus, vars, crawlVars, pingVars, linkVars, endpointVars>>
  \/ /\ focus = "links" /\ Links!Next
     /\ UNCHANGED <<focus, vars, crawlVars, pingVars, sweepVars, endpointVars>>
  \/ /\ focus = "endpoints" /\ Http!Next
     /\ UNCHANGED <<focus, vars, crawlVars, pingVars, sweepVars, linkVars>>

\* Nothing is fair to a crawl or a ping that nobody starts.
MCSpec ==
  /\ MCInit /\ [][MCNext]_all
  /\ Crawl!Fairness /\ Pinger!Fairness /\ Sweep!Fairness /\ Links!Fairness
  /\ Http!Fairness

-----------------------------------------------------------------------------
\* Every crawl, every ping, every discovery of hosts and every analysis ends, see
\* ScrapeCrawl, WebCrawl, Ping, HostScan and Endpoints.
RequestsEnd ==
  <>[](/\ Crawl!CrawlHasEnded /\ Pinger!PingsAreBack /\ Sweep!DiscoverIsBack
       /\ Links!CrawlIsBack /\ Http!AnalysesAreBack)
=============================================================================
