---------------------------- MODULE ScanTargets ----------------------------
(***************************************************************************)
(* From a domain to the addresses that a scan traces: LookupAll, Expand    *)
(* and AllTargets of src/internal/dnscheck, and how App.Scan adds the      *)
(* discovered subdomains, cuts the list and drops what this machine cannot *)
(* reach (src/app.go).  The zone is a constant; a lookup may fail.         *)
(*                                                                         *)
(* The lookups of one level run concurrently, but each fills a slot of its *)
(* own and the slots are merged in order after all are back: one step.     *)
(***************************************************************************)
EXTENDS Integers, FiniteSets, SequencesExt

CONSTANTS Domain, Hosts, Ips,
          Zone,         \* [Hosts -> a sequence of records: [type, value]]
          Mailbox,      \* [Hosts -> the host of the mailbox, in the SOA record of a nameserver]
          Address,      \* [Hosts -> a sequence of addresses]
          IPv6,         \* the addresses that are IPv6
          Subdomains,   \* the addresses of each name the discovery returns
          HaveIPv6,     \* the outcomes of hasIPv6
          Limit, MaxDepth, MaxNSHosts

\* The records of a nameserver name a host.
Records ==
  {r \in [type : {"A", "AAAA", "CNAME", "MX", "NS", "SOA"}, value : Hosts \cup Ips] :
     r.type \in {"NS", "SOA"} => r.value \in Hosts}

TargetAssumption ==
  /\ Domain \in Hosts /\ Zone \in [Hosts -> Seq(Records)] /\ Address \in [Hosts -> Seq(Ips)]
  /\ Mailbox \in [Hosts -> Hosts] /\ Subdomains \in Seq(Seq(Ips))
  /\ Limit \in Nat /\ MaxDepth \in Nat /\ MaxNSHosts \in Nat

VARIABLES
  main, expand, auto,   \* where Scan is; its options
  records, queue, depth,
  asked,                \* the nameservers expanded, in order
  first,                \* history: the records of the domain itself
  targets

vars == <<main, expand, auto, records, queue, depth, asked, first, targets>>

InitWith(e, a) ==
  /\ main = "records" /\ expand = e /\ auto = a
  /\ records = <<>> /\ queue = <<>> /\ depth = 0 /\ asked = <<>>
  /\ first = <<>> /\ targets = <<>>

Init == \E e, a \in BOOLEAN : InitWith(e, a)

-----------------------------------------------------------------------------
(* Lists that are built in order, with a map of what was seen.             *)

Nth(P, i) == CHOOSE p \in P : Cardinality({q \in P : q <= p}) = i
At(list, P) == [i \in 1..Cardinality(P) |-> list[Nth(P, i)]]

\* The positions of what is new, each thing where it comes first.
Firsts(list, seen) ==
  {k \in DOMAIN list : list[k] \notin seen /\ \A j \in 1..(k - 1) : list[j] # list[k]}

UpTo(list, n) == SubSeq(list, 1, IF Len(list) < n THEN Len(list) ELSE n)

-----------------------------------------------------------------------------
(* Records, deduplicated by type and value.                                *)

AddRecords(list, more) == list \o At(more, Firsts(more, Range(list)))

OfTypes(list, types) == At(list, {k \in DOMAIN list : list[k].type \in types})

\* Lookup asks five queries of a host at once (the addresses are one), and a
\* query that fails leaves out its records only.
Queries == {{"A", "AAAA"}, {"CNAME"}, {"MX"}, {"NS"}}
Answered == {UNION queries : queries \in SUBSET Queries}

\* The records of the types that were answered, merged in a fixed order.
Answers(host, types) == AddRecords(<<>>, OfTypes(Zone[host], types))

\* NS and SOA records point at hosts: a sequence without repetitions.
NsHosts(list) ==
  LET pointing == OfTypes(list, {"NS", "SOA"})
      hosts == [k \in DOMAIN pointing |-> pointing[k].value]
  IN At(hosts, Firsts(hosts, {}))

\* The SOA record is asked for the domain only.
LookupAll(types) ==
  /\ main = "records"
  /\ records' = Answers(Domain, types)
  /\ first' = records'
  /\ queue' = IF expand THEN NsHosts(records') ELSE <<>>
  /\ main' = "expand"
  /\ UNCHANGED <<expand, auto, depth, asked, targets>>

\* The hosts of a level that are expanded: none twice, never the domain.
Claim(hosts) ==
  UpTo(At(hosts, Firsts(hosts, Range(asked) \cup {Domain})), MaxNSHosts - Len(asked))

\* One level of Expand: queue is claimed, looked up and merged.
ExpandLevel(types) ==
  /\ main = "expand" /\ depth < MaxDepth /\ queue # <<>>
  /\ LET hosts == Claim(queue)
         Found(k) == Answers(hosts[k], types[hosts[k]])
     IN /\ asked' = asked \o hosts
        /\ records' = AddRecords(records, FlattenSeq([k \in DOMAIN hosts |-> Found(k)]))
        /\ queue' = FlattenSeq([k \in DOMAIN hosts |-> NsHosts(Found(k))])
  /\ depth' = depth + 1
  /\ UNCHANGED <<main, expand, auto, first, targets>>

-----------------------------------------------------------------------------
(* Targets.                                                                *)

\* Each address once, under the next number.
AddTargets(list, more) ==
  LET new == At(more, Firsts([k \in DOMAIN more |-> more[k].ip], {list[k].ip : k \in DOMAIN list}))
  IN list \o [k \in DOMAIN new |-> [id |-> Len(list) + k, kind |-> new[k].kind, ip |-> new[k].ip]]

OfKind(kind, ips) == [k \in DOMAIN ips |-> [kind |-> kind, ip |-> ips[k]]]

\* soaHosts: an SOA record names its nameserver and a mailbox, MX and NS a host.
Named(r) == IF r.type = "SOA" THEN <<r.value, Mailbox[r.value]>> ELSE <<r.value>>

\* Addresses of the records themselves, then those behind MX, NS and SOA.
AllTargets(resolving) ==
  LET direct == OfTypes(records, {"A", "AAAA"})
      behind == OfTypes(records, {"MX", "NS", "SOA"})
      Addresses(host) == IF host \in resolving THEN Address[host] ELSE <<>>
      Resolved(r) == OfKind(r.type, FlattenSeq([k \in DOMAIN Named(r) |-> Addresses(Named(r)[k])]))
  IN AddTargets(<<>>, [k \in DOMAIN direct |-> [kind |-> direct[k].type, ip |-> direct[k].value]]
                      \o FlattenSeq([k \in DOMAIN behind |-> Resolved(behind[k])]))

Resolve(resolving) ==
  /\ main = "expand" /\ (depth >= MaxDepth \/ queue = <<>>)
  /\ targets' = AllTargets(resolving)
  /\ main' = "select"
  /\ UNCHANGED <<expand, auto, records, queue, depth, asked, first>>

\* appendSubdomainTargets: until the limit, each address once.
WithSubdomains(list) ==
  LET discovered == FlattenSeq([k \in DOMAIN Subdomains |-> OfKind("SUB", Subdomains[k])])
  IN IF Len(list) >= Limit THEN list ELSE UpTo(AddTargets(list, discovered), Limit)

\* filterUnroutable renumbers what it keeps.
FilterUnroutable(list, ipv6) ==
  IF ipv6 THEN list
  ELSE LET kept == At(list, {k \in DOMAIN list : list[k].ip \notin IPv6})
       IN [k \in DOMAIN kept |-> [kept[k] EXCEPT !.id = k]]

\* The list is announced and traced, or the scan ends with an error.
Select(ipv6) ==
  /\ main = "select"
  /\ LET all == IF auto THEN WithSubdomains(targets) ELSE targets
         kept == FilterUnroutable(UpTo(all, Limit), ipv6)
     IN /\ targets' = kept
        /\ main' = IF kept = <<>> THEN "error" ELSE "announced"
  /\ UNCHANGED <<expand, auto, records, queue, depth, asked, first>>

Next ==
  \/ (\E types \in Answered, soa \in SUBSET {"SOA"} : LookupAll(types \cup soa))
  \/ (\E types \in [Range(Claim(queue)) -> Answered] : ExpandLevel(types))
  \/ (\E resolving \in SUBSET Hosts : Resolve(resolving))
  \/ (\E ipv6 \in HaveIPv6 : Select(ipv6))

Spec == Init /\ [][Next]_vars

-----------------------------------------------------------------------------
Kinds == {"A", "AAAA", "MX", "NS", "SOA", "SUB"}
Targets == [id : Nat, kind : Kinds, ip : Hosts \cup Ips]

TypeOK ==
  /\ main \in {"records", "expand", "select", "announced", "error"}
  /\ queue \in Seq(Hosts) /\ asked \in Seq(Hosts)
  /\ records \in Seq(Records) /\ first \in Seq(Records) /\ targets \in Seq(Targets)
  /\ depth \in 0..MaxDepth

\* The user interface finds a trace by the number of its target: the announced
\* numbers are those of the positions, after every step of the selection, and
\* no address is traced twice nor more of them than the limit.
TargetsAreNumbered ==
  /\ \A k \in DOMAIN targets : targets[k].id = k
  /\ \A j, k \in DOMAIN targets : targets[j].ip = targets[k].ip => j = k
  /\ main = "announced" => Len(targets) \in 1..Limit

\* "Delegation loops terminate": every nameserver is expanded once, no more of
\* them than the cap, and the records of the domain stay the first ones.
DelegationIsBounded ==
  /\ IsInjective(asked) /\ Domain \notin Range(asked) /\ Len(asked) <= MaxNSHosts
  /\ IsPrefix(first, records) /\ IsInjective(records)

\* The inductive invariant behind both: no host is expanded before the first
\* lookup, and no targets before the last.
IInv ==
  /\ TypeOK /\ TargetsAreNumbered /\ DelegationIsBounded
  /\ main = "records" => asked = <<>>
  /\ main \in {"records", "expand"} => targets = <<>>
=============================================================================
