---------------------------- MODULE GeoResolver ----------------------------
(***************************************************************************)
(* src/internal/geolocator: lookups that run in goroutines of their own    *)
(* share a memory cache, an SQLite cache and a circuit breaker in front of *)
(* the remote service, and the cache viewer deletes entries under them.    *)
(* The pacing of the rate limiter is one step here (see RateLimiter).      *)
(***************************************************************************)
EXTENDS Integers, FiniteSets

CONSTANTS Lookups,      \* goroutines that call ResolveOne, again and again
          Ips,
          Limit,        \* breakerFailureLimit
          MaxAttempts,
          HasLocal,     \* a local database is installed and knows the address
          Endings,      \* how a caller's context may end
          MaxGen        \* bound: answers of the remote service to tell apart

ASSUME GeoAssumption ==
  /\ Ips # {}
  /\ Limit \in Nat \ {0} /\ MaxAttempts \in Nat \ {0} /\ MaxGen \in Nat
  /\ HasLocal \in BOOLEAN /\ Endings \subseteq {"canceled", "deadline"}

Absent == 0
Local == MaxGen + 1       \* an answer of the local database

VARIABLES
  pc,         \* [Lookups]: how far ResolveOne has come
  ip,         \* [Lookups]: its argument
  ctx,        \* [Lookups]: "live" or how the context ended
  tries,      \* [Lookups]: attempt
  lastErr,    \* [Lookups]: an earlier attempt failed
  answered,   \* [Lookups]: the answer in hand came from the service
  data,       \* [Lookups]: the answer in hand
  refused,    \* the lookups whose answer no database took
  memory,     \* [Ips]: Resolver.cache
  store,      \* [Ips]: geo_cache
  expired,    \* the stored entries past cacheTTL
  failures, until, probing,   \* circuitBreaker; until is openUntil
  probes,     \* the lookups admitted half-open that have not recorded yet
  gen,        \* the number of answers the service has given
  viewer,     \* the cache viewer's deletion: [at, ip]
  dropped     \* [Ips]: the newest answer given when the last deletion ended

lookup == <<pc, ip, ctx, tries, lastErr, answered, data, refused>>
caches == <<memory, store, expired>>
breaker == <<failures, until, probing, probes>>
admin == <<viewer, dropped>>
vars == <<lookup, caches, breaker, gen, admin>>

Init ==
  /\ pc = [l \in Lookups |-> "idle"]
  /\ ip = [l \in Lookups |-> CHOOSE i \in Ips : TRUE]
  /\ ctx = [l \in Lookups |-> "live"]
  /\ tries = [l \in Lookups |-> 0]
  /\ lastErr = [l \in Lookups |-> FALSE]
  /\ answered = [l \in Lookups |-> FALSE]
  /\ data = [l \in Lookups |-> Absent] /\ refused = {}
  /\ memory = [i \in Ips |-> Absent] /\ store = [i \in Ips |-> Absent]
  /\ expired = {}
  /\ failures = 0 /\ until = "zero" /\ probing = FALSE /\ probes = {}
  /\ gen = 0
  /\ viewer = [at |-> "idle", ip |-> CHOOSE i \in Ips : TRUE]
  /\ dropped = [i \in Ips |-> 0]

Goto(l, to) == pc' = [pc EXCEPT ![l] = to]

-----------------------------------------------------------------------------
(* ResolveOne up to the breaker.                                           *)

Start(l, i) ==
  /\ pc[l] \in {"idle", "resolved", "failed"}
  /\ Goto(l, "memory")
  /\ ip' = [ip EXCEPT ![l] = i]
  /\ ctx' = [ctx EXCEPT ![l] = "live"]
  /\ answered' = [answered EXCEPT ![l] = FALSE]
  /\ data' = [data EXCEPT ![l] = Absent]
  /\ refused' = refused \ {l}
  /\ UNCHANGED <<tries, lastErr, caches, breaker, gen, admin>>

\* The memory cache under the read lock.
ReadMemory(l) ==
  /\ pc[l] = "memory"
  /\ LET found == memory[ip[l]]
     IN /\ data' = [data EXCEPT ![l] = found]
        /\ Goto(l, IF found # Absent THEN "resolved" ELSE "store")
  /\ UNCHANGED <<ip, ctx, tries, lastErr, answered, refused, caches, breaker, gen, admin>>

\* geoStore.get: a fresh entry, unless the context has ended; no database, or an
\* error of it, is a miss.
ReadStore(l) ==
  /\ pc[l] = "store"
  /\ \/ /\ store[ip[l]] # Absent /\ ip[l] \notin expired /\ ctx[l] = "live"
        /\ data' = [data EXCEPT ![l] = store[ip[l]]]
        /\ Goto(l, "restore")
     \/ Goto(l, "gate") /\ UNCHANGED data
  /\ UNCHANGED <<ip, ctx, tries, lastErr, answered, refused, caches, breaker, gen, admin>>

RememberStored(l) ==
  /\ pc[l] = "restore"
  /\ memory' = [memory EXCEPT ![ip[l]] = data[l]]
  /\ Goto(l, "resolved")
  /\ UNCHANGED <<ip, ctx, tries, lastErr, answered, data, refused, store,
                 expired, breaker, gen, admin>>

\* circuitBreaker.allow: closed, or half-open and nobody is probing.
Allow(l) ==
  /\ pc[l] = "gate" /\ ctx[l] = "live"
  /\ until = "zero" \/ (until = "past" /\ ~probing)
  /\ Goto(l, "pace")
  /\ IF until = "zero" THEN UNCHANGED <<probing, probes>>
                       ELSE probing' = TRUE /\ probes' = probes \cup {l}
  /\ UNCHANGED <<ip, ctx, tries, lastErr, answered, data, refused, caches, failures, until,
                 gen, admin>>

\* Faulty variant: the lookup waits for the breaker to admit it.
RefuseWaits(l) ==
  /\ pc[l] = "gate" /\ ctx[l] # "live"
  /\ Goto(l, "fallback")
  /\ UNCHANGED <<ip, ctx, tries, lastErr, answered, data, refused, caches, breaker, gen, admin>>

Refuse(l) ==
  /\ pc[l] = "gate"
  /\ ctx[l] # "live" \/ until = "future" \/ (until = "past" /\ probing)
  /\ Goto(l, "fallback")
  /\ UNCHANGED <<ip, ctx, tries, lastErr, answered, data, refused, caches, breaker, gen, admin>>

-----------------------------------------------------------------------------
(* resolveRemote.                                                          *)

\* retryable, for the error with which resolveRemote gives up: a cancellation is
\* not, a deadline or a transient failure is.
Verdict(l, transient) ==
  IF transient \/ ctx[l] = "deadline" THEN "unhealthy" ELSE "healthy"

\* limiter.Wait: a slot; or the context ends, and the error is the last attempt's
\* or the context's.
Pace(l) ==
  /\ pc[l] = "pace"
  /\ Goto(l, "attempt")
  /\ tries' = [tries EXCEPT ![l] = @ + 1]
  /\ UNCHANGED <<ip, ctx, lastErr, answered, data, refused, caches, breaker, gen, admin>>

PaceEnds(l) ==
  /\ pc[l] = "pace" /\ ctx[l] # "live"
  /\ Goto(l, Verdict(l, lastErr[l]))
  /\ UNCHANGED <<ip, ctx, tries, lastErr, answered, data, refused, caches, breaker, gen, admin>>

\* lookupAttempt: data; a rejection; a timeout, a transport error, a 429 or 5xx.
Answered(l) ==
  /\ pc[l] = "attempt" /\ gen < MaxGen
  /\ gen' = gen + 1
  /\ data' = [data EXCEPT ![l] = gen + 1]
  /\ answered' = [answered EXCEPT ![l] = TRUE]
  /\ Goto(l, "success")
  /\ UNCHANGED <<ip, ctx, tries, lastErr, refused, caches, breaker, admin>>

Rejected(l) ==
  /\ pc[l] = "attempt"
  /\ Goto(l, Verdict(l, FALSE))
  /\ UNCHANGED <<ip, ctx, tries, lastErr, answered, data, refused, caches, breaker, gen, admin>>

AttemptFails(l) ==
  /\ pc[l] = "attempt"
  /\ lastErr' = [lastErr EXCEPT ![l] = TRUE]
  /\ Goto(l, IF ctx[l] # "live" THEN Verdict(l, FALSE)
             ELSE IF tries[l] < MaxAttempts THEN "backoff" ELSE "unhealthy")
  /\ UNCHANGED <<ip, ctx, tries, answered, data, refused, caches, breaker, gen, admin>>

\* sleepCtx, cut short or not: the error is then the last attempt's.
Backoff(l) ==
  /\ pc[l] = "backoff"
  /\ \/ Goto(l, "pace")
     \/ ctx[l] # "live" /\ Goto(l, "unhealthy")
  /\ UNCHANGED <<ip, ctx, tries, lastErr, answered, data, refused, caches, breaker, gen, admin>>

-----------------------------------------------------------------------------
(* circuitBreaker.record, and what ResolveOne does with the outcome.       *)

AfterRecord(l) == IF pc[l] = "success" THEN "remember" ELSE "fallback"

\* resolveRemote has returned: its variables are gone.
Returned(l) == tries' = [tries EXCEPT ![l] = 0] /\ lastErr' = [lastErr EXCEPT ![l] = FALSE]

\* Faulty variant: a cancelled lookup does not record.
RecordHealthyUnlessCanceled(l) ==
  /\ pc[l] \in {"success", "healthy"}
  /\ IF ctx[l] = "canceled" THEN UNCHANGED <<failures, until, probing>>
     ELSE failures' = 0 /\ until' = "zero" /\ probing' = FALSE
  /\ probes' = probes \ {l}
  /\ Goto(l, AfterRecord(l)) /\ Returned(l)
  /\ UNCHANGED <<ip, ctx, answered, data, refused, caches, gen, admin>>

RecordHealthy(l) ==
  /\ pc[l] \in {"success", "healthy"}
  /\ failures' = 0 /\ until' = "zero" /\ probing' = FALSE
  /\ probes' = probes \ {l}
  /\ Goto(l, AfterRecord(l)) /\ Returned(l)
  /\ UNCHANGED <<ip, ctx, answered, data, refused, caches, gen, admin>>

RecordUnhealthy(l) ==
  /\ pc[l] = "unhealthy"
  /\ probing' = FALSE /\ probes' = probes \ {l}
  /\ LET trips == failures + 1 >= Limit
     IN /\ until' = IF trips THEN "future" ELSE until
        /\ failures' = IF trips THEN 0 ELSE failures + 1
  /\ Goto(l, AfterRecord(l)) /\ Returned(l)
  /\ UNCHANGED <<ip, ctx, answered, data, refused, caches, gen, admin>>

Remember(l) ==
  /\ pc[l] = "remember"
  /\ memory' = [memory EXCEPT ![ip[l]] = data[l]]
  /\ Goto(l, "put")
  /\ UNCHANGED <<ip, ctx, tries, lastErr, answered, data, refused, store,
                 expired, breaker, gen, admin>>

\* Faulty variant: the entry is written under the caller's context.
PutUnderCtx(l) ==
  /\ pc[l] = "put"
  /\ IF ctx[l] = "live"
     THEN /\ store' = [store EXCEPT ![ip[l]] = data[l]]
          /\ expired' = expired \ {ip[l]}
     ELSE UNCHANGED <<store, expired>>
  /\ Goto(l, "resolved")
  /\ UNCHANGED <<ip, ctx, tries, lastErr, answered, data, refused, memory, breaker,
                 gen, admin>>

\* geoStore.put, under a context that cannot be cancelled.  There may be no
\* database (r.store is nil), and an error of it is discarded.
Put(l) ==
  /\ pc[l] = "put"
  /\ \/ /\ store' = [store EXCEPT ![ip[l]] = data[l]]
        /\ expired' = expired \ {ip[l]}
        /\ UNCHANGED refused
     \/ refused' = refused \cup {l} /\ UNCHANGED <<store, expired>>
  /\ Goto(l, "resolved")
  /\ UNCHANGED <<ip, ctx, tries, lastErr, answered, data, memory, breaker, gen, admin>>

\* A cancellation is final, a deadline still allows the local database.
Fallback(l) ==
  /\ pc[l] = "fallback"
  /\ IF HasLocal /\ ctx[l] # "canceled"
     THEN /\ memory' = [memory EXCEPT ![ip[l]] = Local]
          /\ data' = [data EXCEPT ![l] = Local]
          /\ Goto(l, "resolved")
     ELSE Goto(l, "failed") /\ UNCHANGED <<memory, data>>
  /\ UNCHANGED <<ip, ctx, tries, lastErr, answered, refused, store, expired,
                 breaker, gen, admin>>

-----------------------------------------------------------------------------
(* The environment: contexts end, the cooldown elapses, entries expire; and *)
(* the cache viewer's DeleteCacheEntry: forget, then the database.          *)

Running(l) == pc[l] \notin {"idle", "resolved", "failed"}

EndContext(l, how) ==
  /\ Running(l) /\ ctx[l] = "live"
  /\ ctx' = [ctx EXCEPT ![l] = how]
  /\ UNCHANGED <<pc, ip, tries, lastErr, answered, data, refused, caches, breaker, gen, admin>>

Cooldown ==
  /\ until = "future"
  /\ until' = "past"
  /\ UNCHANGED <<lookup, caches, failures, probing, probes, gen, admin>>

Expire(i) ==
  /\ store[i] # Absent /\ i \notin expired
  /\ expired' = expired \cup {i}
  /\ UNCHANGED <<lookup, memory, store, breaker, gen, admin>>

Forget(i) ==
  /\ viewer.at = "idle"
  /\ memory' = [memory EXCEPT ![i] = Absent]
  /\ viewer' = [at |-> "forgot", ip |-> i]
  /\ UNCHANGED <<lookup, store, expired, breaker, gen, dropped>>

\* The row goes, or the database refuses and the viewer shows the error.
Delete ==
  /\ viewer.at = "forgot"
  /\ \/ /\ store' = [store EXCEPT ![viewer.ip] = Absent]
        /\ expired' = expired \ {viewer.ip}
        /\ dropped' = [dropped EXCEPT ![viewer.ip] = gen]
     \/ UNCHANGED <<store, expired, dropped>>
  /\ viewer' = [viewer EXCEPT !.at = "idle"]
  /\ UNCHANGED <<lookup, memory, breaker, gen>>

Step(l) == \/ ReadMemory(l) \/ ReadStore(l) \/ RememberStored(l)
           \/ Allow(l) \/ Refuse(l)
           \/ Pace(l) \/ PaceEnds(l) \/ Answered(l) \/ Rejected(l)
           \/ AttemptFails(l) \/ Backoff(l)
           \/ RecordHealthy(l) \/ RecordUnhealthy(l)
           \/ Remember(l) \/ Put(l) \/ Fallback(l)

Next == \/ \E l \in Lookups : \/ Step(l)
                              \/ \E i \in Ips : Start(l, i)
                              \/ \E how \in Endings : EndContext(l, how)
        \/ \E i \in Ips : Expire(i) \/ Forget(i)
        \/ Cooldown \/ Delete

Spec == Init /\ [][Next]_vars

\* Goroutines run, attempts end by their timeout, the cooldown elapses.
FairSpec == Spec /\ WF_vars(Cooldown) /\ \A l \in Lookups : WF_vars(Step(l))

-----------------------------------------------------------------------------
Answers == 0..Local

TypeOK ==
  /\ pc \in [Lookups -> {"idle", "memory", "store", "restore", "gate", "pace",
                         "attempt", "backoff", "success", "healthy", "unhealthy",
                         "remember", "put", "fallback", "resolved", "failed"}]
  /\ ip \in [Lookups -> Ips]
  /\ ctx \in [Lookups -> {"live"} \cup Endings]
  /\ tries \in [Lookups -> 0..MaxAttempts]
  /\ lastErr \in [Lookups -> BOOLEAN] /\ answered \in [Lookups -> BOOLEAN]
  /\ data \in [Lookups -> Answers]
  /\ memory \in [Ips -> Answers] /\ store \in [Ips -> 0..MaxGen]
  /\ expired \subseteq {i \in Ips : store[i] # Absent}
  /\ failures \in 0..(Limit - 1)
  /\ until \in {"zero", "future", "past"} /\ probing \in BOOLEAN
  /\ probes \subseteq Lookups
  /\ gen \in 0..MaxGen /\ refused \subseteq Lookups
  /\ viewer \in [at : {"idle", "forgot"}, ip : Ips]
  /\ dropped \in [Ips -> 0..MaxGen]

Admitted(l) == pc[l] \in {"pace", "attempt", "backoff", "success", "healthy", "unhealthy"}

\* A half-open breaker that refuses has a probe under way that will record: no
\* cancellation or early return leaves it refusing for ever (circuitBreaker).
ProbeUnderWay == probing => \E l \in probes : Admitted(l)

\* With a local database a lookup fails only if its caller cancelled it: neither
\* the breaker nor the service can make it fail (ResolveOne).
FailsOnlyCancelled ==
  HasLocal => \A l \in Lookups : pc[l] = "failed" => ctx[l] = "canceled"

\* The breaker traps nobody: neither by refusing for ever nor by failing a lookup
\* that the local database can answer.
BreakerTrapsNobody == TypeOK /\ ProbeUnderWay /\ FailsOnlyCancelled

\* An answer of the service is kept across restarts, also when the caller gave
\* up while it arrived: it is in the database, unless somebody deleted it since or
\* the database is missing or refused that very write (ResolveOne).
AnswerPersisted ==
  \A l \in Lookups :
    pc[l] = "resolved" /\ answered[l] /\ l \notin refused =>
      store[ip[l]] # Absent \/ dropped[ip[l]] >= data[l]

(* The inductive invariant behind the two.                                 *)

\* A half-open admission is recorded by the lookup that got it, and whoever
\* clears probing before that leaves no one to be refused.
ProbesRecord ==
  /\ \A l \in probes : Admitted(l)
  /\ probing => probes # {}

\* Before the breaker nothing was tried, and an attempt remains while one waits.
AttemptsLeft ==
  \A l \in Lookups :
    /\ answered[l] => pc[l] \in {"success", "remember", "put", "resolved"}
    /\ ~Admitted(l) => tries[l] = 0
    /\ pc[l] \in {"pace", "backoff"} => tries[l] < MaxAttempts

\* An answer in hand was given; it stays in hand until it is put.
AnswersGiven ==
  /\ \A i \in Ips : memory[i] \in (0..gen) \cup {Local} /\ store[i] <= gen
  /\ \A l \in Lookups :
       /\ data[l] \in (0..gen) \cup {Local}
       /\ pc[l] = "restore" => data[l] # Absent
       /\ pc[l] \in {"success", "remember", "put"} \/ answered[l] => data[l] \in 1..gen

IInv ==
  /\ TypeOK /\ ProbesRecord /\ AttemptsLeft /\ AnswersGiven
  /\ FailsOnlyCancelled /\ AnswerPersisted

\* A lookup ends whatever the service and the breaker do.
LookupsEnd == \A l \in Lookups : pc[l] = "memory" ~> pc[l] \in {"resolved", "failed"}
=============================================================================
