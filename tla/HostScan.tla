------------------------------ MODULE HostScan ------------------------------
(***************************************************************************)
(* Live-host discovery: Discover, Each and Count of src/internal/hostscan. *)
(* Space addresses stand for the 2^32 of a uint32, whose arithmetic is     *)
(* modulo Space; the network is any block of them.  A host is live when a  *)
(* probed port accepts.                                                    *)
(***************************************************************************)
EXTENDS Integers, FiniteSets, Sequences

CONSTANTS Space,      \* how many addresses there are
          Sizes,      \* of blocks: in the code, the powers of two up to Space
          Ports,      \* the probed ports, a sequence
          Open,       \* [Addresses -> the ports that accept]
          Hosts,      \* how many hosts are probed at once
          PortsEach   \* how many ports of a host

Addresses == 0..(Space - 1)

\* Port 0 is never probed: it is what "no port yet" looks like.
HostScanAssumption ==
  /\ Space \in Nat \ {0} /\ Sizes \subseteq 1..Space
  /\ \A s \in Sizes : Space % s = 0
  /\ Ports \in Seq(Nat \ {0}) /\ Open \in [Addresses -> SUBSET (Nat \ {0})]

VARIABLES
  network,     \* [base, size]: the code's address and mask
  ctx, main,   \* where Discover is
  at,          \* the address Each has reached
  host,        \* [Addresses -> the goroutine that probes it]
  visited,     \* history: the addresses given to fn, in order
  live, done, told

vars == <<network, ctx, main, at, host, visited, live, done, told>>

\* Blocks of one and two addresses, /32 and /31, are used whole; of larger ones
\* the network and the broadcast address are left out.
Whole(net) == net.size <= 2

Count(net) == IF Whole(net) THEN net.size ELSE net.size - 2

\* The addresses fn must be called with.
Usable(net) ==
  IF Whole(net) THEN net.base..(net.base + net.size - 1)
  ELSE (net.base + 1)..(net.base + net.size - 2)

Networks == {n \in [base : Addresses, size : Sizes] : n.base % n.size = 0}

Lo(net) == IF Whole(net) THEN net.base ELSE net.base + 1
Hi(net) == (net.base + net.size - (IF Whole(net) THEN 1 ELSE 2)) % Space

PortSet == {Ports[k] : k \in 1..Len(Ports)}

Idle == [at |-> "none", next |-> 1, dialing |-> {}, first |-> 0]

\* A discovery in one network.
InitIn(net, c, place) ==
  /\ network = net
  /\ ctx = c /\ main = place
  /\ at = Lo(network)
  /\ host = [a \in Addresses |-> Idle]
  /\ visited = <<>> /\ live = <<>> /\ done = 0 /\ told = 0

Init == \E net \in Networks : InitIn(net, "live", "each")

Cancelled == ctx = "cancelled"
Active == {a \in Addresses : host[a].at \notin {"none", "back"}}

Cancel ==
  /\ main # "over" /\ ~Cancelled
  /\ ctx' = "cancelled"
  /\ UNCHANGED <<network, main, at, host, visited, live, done, told>>

-----------------------------------------------------------------------------
(* Each, with the function that Discover gives it.                         *)

Spawn ==
  /\ Cardinality(Active) < Hosts
  /\ host' = [host EXCEPT ![at].at = "ports"]
  /\ visited' = Append(visited, at)

\* Faulty variant: the loop ends when the address has passed the last one.
VisitBelow ==
  /\ main = "each" /\ ~Cancelled
  /\ Spawn
  /\ at' = (at + 1) % Space
  /\ main' = IF at' <= Hi(network) THEN "each" ELSE "wait"
  /\ UNCHANGED <<network, ctx, live, done, told>>

\* The last address is compared before it is incremented: the next one may
\* wrap around to zero.
Visit ==
  /\ main = "each" /\ ~Cancelled
  /\ Spawn
  /\ at' = (at + 1) % Space
  /\ main' = IF at = Hi(network) THEN "wait" ELSE "each"
  /\ UNCHANGED <<network, ctx, live, done, told>>

\* Before a host, or while it waits for a place.
VisitStops ==
  /\ main = "each" /\ Cancelled
  /\ main' = "wait"
  /\ UNCHANGED <<network, ctx, at, host, visited, live, done, told>>

\* wg.Wait: the hosts found so far, with the context's error if it has one.
Return ==
  /\ main = "wait" /\ Active = {}
  /\ main' = "over"
  /\ UNCHANGED <<network, ctx, at, host, visited, live, done, told>>

-----------------------------------------------------------------------------
(* probeHost: the ports in order, a few at a time, until one accepts.      *)

Stopped(a) == Cancelled \/ host[a].first # 0
PortsLeft(a) == host[a].next <= Len(Ports)

Dial(a) ==
  /\ host[a].at = "ports" /\ PortsLeft(a) /\ ~Stopped(a)
  /\ Cardinality(host[a].dialing) < PortsEach
  /\ host' = [host EXCEPT ![a].next = @ + 1, ![a].dialing = @ \cup {Ports[host[a].next]}]
  /\ UNCHANGED <<network, ctx, main, at, visited, live, done, told>>

\* A connection; the first one is kept, by compare-and-swap, and stops the
\* others, of which one may have connected already.
Accept(a, p) ==
  /\ p \in host[a].dialing /\ p \in Open[a]
  /\ host' = [host EXCEPT ![a].dialing = @ \ {p}, ![a].first = IF @ = 0 THEN p ELSE @]
  /\ UNCHANGED <<network, ctx, main, at, visited, live, done, told>>

\* Faulty variant: a dial that is cut off keeps its place.
DialFailsLeaks(a, p) ==
  /\ p \in host[a].dialing /\ p \notin Open[a] /\ ~Stopped(a)
  /\ host' = [host EXCEPT ![a].dialing = @ \ {p}]
  /\ UNCHANGED <<network, ctx, main, at, visited, live, done, told>>

\* Refused or filtered, or cut off by another port or the user.
DialFails(a, p) ==
  /\ p \in host[a].dialing /\ (p \notin Open[a] \/ Stopped(a))
  /\ host' = [host EXCEPT ![a].dialing = @ \ {p}]
  /\ UNCHANGED <<network, ctx, main, at, visited, live, done, told>>

\* The ports' wg.Wait; then the host is appended to live and announced.
Probed(a) ==
  /\ host[a].at = "ports" /\ (~PortsLeft(a) \/ Stopped(a)) /\ host[a].dialing = {}
  /\ live' = IF host[a].first # 0 THEN Append(live, a) ELSE live
  /\ host' = [host EXCEPT ![a].at = "count"]
  /\ UNCHANGED <<network, ctx, main, at, visited, done, told>>

\* done is incremented atomically; the last one to count reports the total.
CountHost(a) ==
  /\ host[a].at = "count"
  /\ done' = done + 1
  /\ told' = IF done' = Count(network) THEN done' ELSE told
  /\ host' = [host EXCEPT ![a] = [Idle EXCEPT !.at = "back"]]
  /\ UNCHANGED <<network, ctx, main, at, visited, live>>

Walk == Visit \/ VisitStops \/ Return
Probe(a) == Dial(a) \/ (\E p \in PortSet : Accept(a, p) \/ DialFails(a, p))
           \/ Probed(a) \/ CountHost(a)

Next == Cancel \/ Walk \/ \E a \in Addresses : Probe(a)

\* Dials time out, so some goroutine goes on as long as one can.
Fairness == WF_vars(Walk \/ \E a \in Addresses : Probe(a))

Spec == Init /\ [][Next]_vars /\ Fairness

-----------------------------------------------------------------------------
HostRecords == [at : {"none", "ports", "count", "back"}, next : Nat \ {0},
                dialing : SUBSET PortSet, first : PortSet \cup {0}]

TypeOK ==
  /\ network \in Networks /\ at \in Addresses /\ ctx \in {"live", "cancelled"}
  /\ main \in {"each", "wait", "over"}
  /\ host \in [Addresses -> HostRecords]
  /\ visited \in Seq(Addresses) /\ live \in Seq(Addresses) /\ done \in Nat /\ told \in Nat

\* Count "matches the set Each visits", for every block, also the one that ends
\* with the last address there is; and the address the walk has reached is never
\* one outside the block.
EachVisitsTheBlock ==
  /\ Len(visited) <= Count(network)
  /\ \A k \in DOMAIN visited : visited[k] = Lo(network) + k - 1 /\ visited[k] \in Usable(network)
  /\ main # "each" /\ ~Cancelled => Len(visited) = Count(network)

\* A discovery that was not cancelled has found exactly the hosts with a port
\* that accepts, each once, and has reported all of them as probed.
LiveIsExact ==
  /\ \A j, k \in DOMAIN live : live[j] = live[k] => j = k
  /\ \A k \in DOMAIN live : Open[live[k]] \cap PortSet # {}
  /\ main = "over" /\ ~Cancelled =>
       /\ \A a \in Usable(network) : Open[a] \cap PortSet # {} => \E k \in DOMAIN live : live[k] = a
       /\ told = Count(network)

-----------------------------------------------------------------------------
(* The inductive invariant behind them.                                    *)

Reached == {a \in Addresses : host[a].at # "none"}
Back == {a \in Addresses : host[a].at = "back"}
Answers(a) == Open[a] \cap PortSet # {}

\* The walk is where the addresses visited end, and the hosts begun are those.
WalkIsAhead ==
  /\ \A k \in DOMAIN visited : visited[k] = Lo(network) + k - 1
  /\ Reached = Lo(network)..(Lo(network) + Len(visited) - 1)
  /\ IF main = "each" THEN Len(visited) < Count(network) /\ at = Lo(network) + Len(visited)
     ELSE Len(visited) <= Count(network) /\ (~Cancelled => Len(visited) = Count(network))
  /\ main = "over" => Active = {}

\* A host not yet reached or already probed dials nothing; the port that
\* accepted is open; and a port passed over by a host without one is closed.
DialsAreHonest ==
  \A a \in Addresses :
    /\ host[a].at = "none" => host[a] = Idle
    /\ host[a].at # "ports" => host[a].dialing = {}
    /\ host[a].first # 0 => host[a].first \in Open[a]
    /\ host[a].at = "ports" /\ ~Stopped(a) =>
         \A k \in 1..Len(Ports) :
           k < host[a].next => Ports[k] \in host[a].dialing \/ Ports[k] \notin Open[a]

\* A host is listed when its probe is over, once, and if it answers.
ListFollowsProbes ==
  /\ \A j, k \in DOMAIN live : live[j] = live[k] => j = k
  /\ \A k \in DOMAIN live : Answers(live[k]) /\ host[live[k]].at \in {"count", "back"}
  /\ ~Cancelled => \A a \in Addresses : host[a].at \in {"count", "back"} /\ Answers(a) =>
                     \E k \in DOMAIN live : live[k] = a

\* The hosts counted are back, and the last of them was told.
CountFollowsHosts ==
  /\ done = Cardinality(Back)
  /\ done = Count(network) => told = done

IInv == TypeOK /\ WalkIsAhead /\ DialsAreHonest /\ ListFollowsProbes /\ CountFollowsHosts

-----------------------------------------------------------------------------
\* What every discovery comes to, cancelled or not.
DiscoverIsBack == main = "over" /\ Active = {}
=============================================================================
