------------------------------ MODULE Scanners ------------------------------
(***************************************************************************)
(* The scans: the worker pool of the port scanner, which is extended, the  *)
(* operation of App.ScanPorts that drives it, the discovery of subdomains, *)
(* and the choice of the addresses that a scan traces.  They share no      *)
(* state; what is said of them here is checked and proved.                 *)
(***************************************************************************)
EXTENDS PortPool

CONSTANTS N, HostLimit, PingLimit, Modes,                            \* see PortScan
          Names, Ips, Forward, Backward, Apex, WildIps, Public, Block,     \* see Subdomains
          Words, Services, Crawled, NameRequests, ProbesAtOnce, MaxNames, MaxBlocks, MaxScans,
          Domain, Zone, Mailbox, HostAddress, HostIps, IPv6, Discovered, \* see ScanTargets
          HaveIPv6, MaxTargets, MaxNSDepth, MaxNSHosts

VARIABLES
  mode, ping, stopped, phase, pos, blocked, checked, pinged, todo, host, found, scanErr, completed,
  open, opened, counts, end,
  scan, request, scanCtx, stage, rows, seedIps, wild, words, probing, services, lookups, known, store,
  reports,
  selection, expand, auto, records, hosts, level, asked, first, targets

operationVars == <<mode, ping, stopped, phase, pos, blocked, checked, pinged, todo, host, found,
                   scanErr, completed, open, opened, counts, end>>
namesVars == <<scan, request, scanCtx, stage, rows, seedIps, wild, words, probing, services, lookups,
               known, store, reports>>
targetVars == <<selection, expand, auto, records, hosts, level, asked, first, targets>>

Operation == INSTANCE PortScan
  WITH cancelled <- stopped, mark <- found, progress <- counts

Discovery == INSTANCE Subdomains
  WITH Requests <- NameRequests, Concurrency <- ProbesAtOnce, MaxResults <- MaxNames,
       opts <- request, ctx <- scanCtx, main <- stage, queue <- lookups

Selection == INSTANCE ScanTargets
  WITH Hosts <- DOMAIN Zone, Address <- HostAddress, Ips <- HostIps,
       Subdomains <- Discovered, Limit <- MaxTargets, MaxDepth <- MaxNSDepth,
       main <- selection, depth <- level, queue <- hosts

ASSUME ScannerAssumption ==
  /\ Operation!ScanAssumption
  /\ Discovery!NamesAssumption /\ Selection!TargetAssumption

-----------------------------------------------------------------------------
\* The progress of a pool's scan reaches its total once, and what portscan:done
\* says of the hosts, the open ports and their progress is true.  See PortPool
\* and PortScan, whose inductive invariant is checked here as well.
ReportsAreTrue == TotalAnnouncedOnce /\ Operation!IInv

\* The terminal event of the operation is the last one, see PortScan.
QuietAfterEnd == Operation!QuietAfterEnd

\* What a scan lists: a name's recorded source does not depend on the order of
\* the reports, and what the wildcard filter and the reverse lookups rely on, see
\* Subdomains; the announced targets and the delegations followed for them, see
\* ScanTargets.
TargetsAreHonest ==
  /\ Discovery!IInv
  /\ Discovery!SourceIsStable /\ Discovery!WildcardAddsNothing /\ Discovery!PtrSeesAll
  /\ Selection!IInv /\ Selection!TargetsAreNumbered /\ Selection!DelegationIsBounded
=============================================================================
