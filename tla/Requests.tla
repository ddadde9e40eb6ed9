------------------------------ MODULE Requests ------------------------------
(***************************************************************************)
(* What goes out to the network: the limiter that spaces the requests,     *)
(* which is extended, the crawl of a scrape, the pings of a sweep, the     *)
(* discovery of live hosts, the crawl for subdomains, and the analysis of  *)
(* HTTP endpoints.                                                         *)
(* They share no state; what is said of them here is checked and proved.   *)
(***************************************************************************)
EXTENDS RateLimiter, Sequences

CONSTANTS Urls, Web, Options,                  \* see ScrapeCrawl
          Pings, Host, Alive, Wrap, MaxStray,  \* see Ping
          Space, Sizes, SweepPorts, Accepting, HostsAtOnce, PortsAtOnce,   \* see HostScan
          Sites, SitePage, Fronts, SiteMaps, Sitemap, RobotsTxt, FirstMap, \* see WebCrawl
          MaxSites, SiteWorkers, MaxSitemaps, MaxSitemapDepth,
          Endpoint, EndpointLists, Responses, FetchesAtOnce, MaxEndpoints, MaxAnalyses, MaxDialogs
                                                                           \* see Endpoints

VARIABLES
  opts, crawlCtx, main, seed, depth, frontier, cur, found, seenPage, seenAsset, seenDir,
  worker, pages, assets, fetched, stored, failed, outcome,
  call, seq, number, woken, waiters, air, reader, closed, stray, answered,
  network, sweepCtx, sweepMain, reached, host, visited, live, done, told,
  linkCtx, linkMain, try, site, robots, mapQueue, mapsSeen, maps, candidates, passed, fetcher,
  urls, sitePages, unread, siteDone, siteTotal, siteTold,
  analysis, httpSlot, dialog, opened, results

crawlVars == <<opts, crawlCtx, main, seed, depth, frontier, cur, found, seenPage, seenAsset,
               seenDir, worker, pages, assets, fetched, stored, failed, outcome>>
pingVars == <<call, seq, number, woken, waiters, air, reader, closed, stray, answered>>
sweepVars == <<network, sweepCtx, sweepMain, reached, host, visited, live, done, told>>
linkVars == <<linkCtx, linkMain, try, site, robots, mapQueue, mapsSeen, maps, candidates, passed,
              fetcher, urls, sitePages, unread, siteDone, siteTotal, siteTold>>
endpointVars == <<analysis, httpSlot, dialog, opened, results>>

Crawl == INSTANCE ScrapeCrawl WITH ctx <- crawlCtx, next <- found
Pinger == INSTANCE Ping
Sweep == INSTANCE HostScan
  WITH Ports <- SweepPorts, Open <- Accepting, Hosts <- HostsAtOnce, PortsEach <- PortsAtOnce,
       ctx <- sweepCtx, main <- sweepMain, at <- reached
Links == INSTANCE WebCrawl
  WITH Urls <- Sites, Page <- SitePage, Start <- Fronts, Maps <- SiteMaps, Map <- Sitemap,
       Robots <- RobotsTxt, Default <- FirstMap, MaxPages <- MaxSites, Workers <- SiteWorkers,
       ctx <- linkCtx, main <- linkMain, queue <- mapQueue, seen <- mapsSeen, pos <- passed,
       worker <- fetcher, fetched <- urls, pages <- sitePages, failed <- unread,
       done <- siteDone, total <- siteTotal, told <- siteTold
Http == INSTANCE Endpoints
  WITH Target <- Endpoint, Batches <- EndpointLists, Serves <- Responses,
       Concurrency <- FetchesAtOnce, Limit <- MaxEndpoints, MaxRuns <- MaxAnalyses,
       run <- analysis, slot <- httpSlot, posted <- results

ASSUME RequestsAssumption ==
  /\ Crawl!CrawlAssumption /\ Pinger!PingAssumption
  /\ Sweep!HostScanAssumption /\ Links!LinkAssumption /\ Http!EndpointAssumption

-----------------------------------------------------------------------------
\* Each of these checks the type invariant of the module it is about as well,
\* and the inductive one behind it.

\* The limits of a scrape request, see ScrapeCrawl.
CapsHold == Crawl!IInv /\ Crawl!CapsHold

\* What a crawl has covered, and that its workers never outlive the domain that
\* the redirect guard is set to, see ScrapeCrawl.
CrawlCovers == Crawl!SeedInv /\ Crawl!FirstSeedComplete /\ Crawl!OneDomainAtATime

\* The waiters of the ICMP prober and its verdicts, see Ping.
PingsAreHonest == Pinger!IInv /\ Pinger!PingsAreHonest

\* The addresses a discovery visits and the hosts it reports, see HostScan.
DiscoveryIsExact == Sweep!IInv /\ Sweep!EachVisitsTheBlock /\ Sweep!LiveIsExact

\* The pages of the crawl for subdomains and its sitemaps, see WebCrawl.
LinksAreFollowed ==
  Links!IInv /\ Links!EachPageOnce /\ Links!SitemapsNearby /\ Links!NothingOverlooked

\* A list of endpoints agrees with its panes, its grades and what was asked for,
\* see Endpoints.
ListsAreCoherent ==
  /\ Http!IInv /\ Http!ListIsCoherent /\ Http!BestGradeIsEarned /\ Http!BatchIsWhole
  /\ Http!LiveFetchesBounded
=============================================================================
