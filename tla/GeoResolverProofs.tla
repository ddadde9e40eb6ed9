-------------------------- MODULE GeoResolverProofs --------------------------
(***************************************************************************)
(* For any number of lookups, addresses, attempts and failures: the        *)
(* breaker never refuses without a probe under way, with a local database  *)
(* only a cancelled lookup fails, and an answer paid for is kept unless    *)
(* the database itself refuses it.                                         *)
(***************************************************************************)
EXTENDS GeoResolver, TLAPS

USE GeoAssumption DEF Absent, Local, Goto, Answers

\* Up to the breaker: nothing has been tried yet.
LEMMA ReadsKeep ==
  ASSUME IInv, NEW l \in Lookups,
         ReadMemory(l) \/ ReadStore(l) \/ RememberStored(l) \/ Refuse(l)
  PROVE  IInv'
<1> USE DEF IInv, ReadMemory, ReadStore, RememberStored, Refuse, caches, breaker, admin
<1>1. TypeOK'
  BY DEF TypeOK, AttemptsLeft, AnswersGiven
<1>2. ProbesRecord'
  BY DEF TypeOK, ProbesRecord, Admitted
<1>3. AttemptsLeft'
  BY DEF TypeOK, AttemptsLeft, Admitted
<1>4. AnswersGiven'
  BY DEF TypeOK, AnswersGiven, AttemptsLeft
<1>5. FailsOnlyCancelled'
  BY DEF TypeOK, FailsOnlyCancelled
<1>6. AnswerPersisted'
  BY DEF TypeOK, AnswerPersisted, AnswersGiven, AttemptsLeft
<1> QED BY <1>1, <1>2, <1>3, <1>4, <1>5, <1>6

LEMMA StartKeeps ==
  ASSUME IInv, NEW l \in Lookups, NEW i \in Ips, Start(l, i)
  PROVE  IInv'
<1> USE DEF IInv, Start, caches, breaker, admin
<1>1. TypeOK'
  BY DEF TypeOK, AttemptsLeft, AnswersGiven
<1>2. ProbesRecord'
  BY DEF TypeOK, ProbesRecord, Admitted
<1>3. AttemptsLeft'
  BY DEF TypeOK, AttemptsLeft, Admitted
<1>4. AnswersGiven'
  BY DEF TypeOK, AnswersGiven, AttemptsLeft
<1>5. FailsOnlyCancelled'
  BY DEF TypeOK, FailsOnlyCancelled
<1>6. AnswerPersisted'
  BY DEF TypeOK, AnswerPersisted, AnswersGiven, AttemptsLeft
<1> QED BY <1>1, <1>2, <1>3, <1>4, <1>5, <1>6

\* The admission of a half-open breaker: its owner is the newest probe.
LEMMA AllowKeeps ==
  ASSUME IInv, NEW l \in Lookups, Allow(l)
  PROVE  IInv'
<1> USE DEF IInv, Allow, caches, admin
<1>1. TypeOK'
  <2>1. probing' \in BOOLEAN
    BY DEF TypeOK
  <2>2. probes' \subseteq Lookups
    BY DEF TypeOK
  <2>3. pc' = [pc EXCEPT ![l] = "pace"]
    BY DEF Goto
  <2> QED BY <2>1, <2>2, <2>3 DEF TypeOK
<1>2. ProbesRecord'
  BY DEF TypeOK, ProbesRecord, Admitted
<1>3. AttemptsLeft'
  BY DEF TypeOK, AttemptsLeft, Admitted
<1>4. AnswersGiven'
  BY DEF TypeOK, AnswersGiven, AttemptsLeft
<1>5. FailsOnlyCancelled'
  BY DEF TypeOK, FailsOnlyCancelled
<1>6. AnswerPersisted'
  BY DEF TypeOK, AnswerPersisted, AnswersGiven, AttemptsLeft
<1> QED BY <1>1, <1>2, <1>3, <1>4, <1>5, <1>6

\* The attempts of resolveRemote that bring no answer.
LEMMA TriesKeep ==
  ASSUME IInv, NEW l \in Lookups,
         Pace(l) \/ PaceEnds(l) \/ Rejected(l) \/ AttemptFails(l) \/ Backoff(l)
  PROVE  IInv'
<1> USE DEF IInv, Pace, PaceEnds, Rejected, AttemptFails, Backoff,
           Verdict, caches, breaker, admin
<1>1. TypeOK'
  <2>1. tries' \in [Lookups -> 0..MaxAttempts]
    <3>1. pc[l] = "pace" => tries[l] + 1 \in 0..MaxAttempts
      BY DEF TypeOK, AttemptsLeft, Admitted
    <3> QED BY <3>1 DEF TypeOK
  <2> QED BY <2>1 DEF TypeOK
<1>2. ProbesRecord'
  BY DEF TypeOK, ProbesRecord, Admitted
<1>3. AttemptsLeft'
  BY DEF TypeOK, AttemptsLeft, Admitted
<1>4. AnswersGiven'
  BY DEF TypeOK, AnswersGiven, AttemptsLeft
<1>5. FailsOnlyCancelled'
  BY DEF TypeOK, FailsOnlyCancelled
<1>6. AnswerPersisted'
  BY DEF TypeOK, AnswerPersisted, AnswersGiven, AttemptsLeft
<1> QED BY <1>1, <1>2, <1>3, <1>4, <1>5, <1>6

\* The answer in hand is the newest that the service has given.
LEMMA AnsweredKeeps ==
  ASSUME IInv, NEW l \in Lookups, Answered(l)
  PROVE  IInv'
<1> USE DEF IInv, Answered, caches, breaker, admin
<1>1. TypeOK'
  BY DEF TypeOK, AttemptsLeft, AnswersGiven
<1>2. ProbesRecord'
  BY DEF TypeOK, ProbesRecord, Admitted
<1>3. AttemptsLeft'
  BY DEF TypeOK, AttemptsLeft, Admitted
<1>4. AnswersGiven'
  BY DEF TypeOK, AnswersGiven, AttemptsLeft
<1>5. FailsOnlyCancelled'
  BY DEF TypeOK, FailsOnlyCancelled
<1>6. AnswerPersisted'
  BY DEF TypeOK, AnswerPersisted, AnswersGiven, AttemptsLeft
<1> QED BY <1>1, <1>2, <1>3, <1>4, <1>5, <1>6

\* Whoever records, the mark goes; a probe leaves the set when it records.
LEMMA RecordKeeps ==
  ASSUME IInv, NEW l \in Lookups, RecordHealthy(l) \/ RecordUnhealthy(l)
  PROVE  IInv'
<1> USE DEF IInv, RecordHealthy, RecordUnhealthy, AfterRecord, Returned, caches, admin
<1>1. TypeOK'
  <2>1. failures' \in 0..(Limit - 1)
    BY DEF TypeOK
  <2>2. AfterRecord(l) \in {"remember", "fallback"}
    BY DEF AfterRecord
  <2>3. tries' \in [Lookups -> 0..MaxAttempts] /\ lastErr' \in [Lookups -> BOOLEAN]
    <3>1. /\ tries' = [tries EXCEPT ![l] = 0] /\ lastErr' = [lastErr EXCEPT ![l] = FALSE]
          /\ tries \in [Lookups -> 0..MaxAttempts] /\ lastErr \in [Lookups -> BOOLEAN]
      BY DEF Returned, TypeOK
    <3> HIDE DEF IInv, RecordHealthy, RecordUnhealthy, Returned
    <3> QED BY <3>1
  <2> QED BY <2>1, <2>2, <2>3 DEF TypeOK
<1>2. ProbesRecord'
  BY DEF TypeOK, ProbesRecord, Admitted
<1>3. AttemptsLeft'
  BY DEF TypeOK, AttemptsLeft, Admitted
<1>4. AnswersGiven'
  BY DEF TypeOK, AnswersGiven, AttemptsLeft
<1>5. FailsOnlyCancelled'
  BY DEF TypeOK, FailsOnlyCancelled
<1>6. AnswerPersisted'
  BY DEF TypeOK, AnswerPersisted, AnswersGiven, AttemptsLeft
<1> QED BY <1>1, <1>2, <1>3, <1>4, <1>5, <1>6

\* An answer of the service is on its way to the database, one of the local
\* database is not; only Fallback fails a lookup.
LEMMA RememberKeeps ==
  ASSUME IInv, NEW l \in Lookups, Remember(l) \/ Fallback(l)
  PROVE  IInv'
<1> USE DEF IInv, Remember, Fallback, breaker, admin
<1>1. TypeOK'
  BY DEF TypeOK, AttemptsLeft, AnswersGiven
<1>2. ProbesRecord'
  BY DEF TypeOK, ProbesRecord, Admitted
<1>3. AttemptsLeft'
  BY DEF TypeOK, AttemptsLeft, Admitted
<1>4. AnswersGiven'
  BY DEF TypeOK, AnswersGiven, AttemptsLeft
<1>5. FailsOnlyCancelled'
  BY DEF TypeOK, FailsOnlyCancelled
<1>6. AnswerPersisted'
  BY DEF TypeOK, AnswerPersisted, AnswersGiven, AttemptsLeft
<1> QED BY <1>1, <1>2, <1>3, <1>4, <1>5, <1>6

\* Here the answer comes to the database.
LEMMA PutKeeps ==
  ASSUME IInv, NEW l \in Lookups, Put(l)
  PROVE  IInv'
<1> USE DEF IInv, Put, breaker, admin
<1>1. TypeOK'
  BY DEF TypeOK, AttemptsLeft, AnswersGiven
<1>2. ProbesRecord'
  BY DEF TypeOK, ProbesRecord, Admitted
<1>3. AttemptsLeft'
  BY DEF TypeOK, AttemptsLeft, Admitted
<1>4. AnswersGiven'
  BY DEF TypeOK, AnswersGiven, AttemptsLeft
<1>5. FailsOnlyCancelled'
  BY DEF TypeOK, FailsOnlyCancelled
<1>6. AnswerPersisted'
  BY DEF TypeOK, AnswerPersisted, AnswersGiven, AttemptsLeft
<1> QED BY <1>1, <1>2, <1>3, <1>4, <1>5, <1>6

LEMMA EndContextKeeps ==
  ASSUME IInv, NEW l \in Lookups, NEW how \in Endings, EndContext(l, how)
  PROVE  IInv'
<1> USE DEF IInv, EndContext, Running, caches, breaker, admin
<1>1. TypeOK'
  BY DEF TypeOK, AttemptsLeft, AnswersGiven
<1>2. ProbesRecord'
  BY DEF TypeOK, ProbesRecord, Admitted
<1>3. AttemptsLeft'
  BY DEF TypeOK, AttemptsLeft, Admitted
<1>4. AnswersGiven'
  BY DEF TypeOK, AnswersGiven, AttemptsLeft
<1>5. FailsOnlyCancelled'
  BY DEF TypeOK, FailsOnlyCancelled
<1>6. AnswerPersisted'
  BY DEF TypeOK, AnswerPersisted, AnswersGiven, AttemptsLeft
<1> QED BY <1>1, <1>2, <1>3, <1>4, <1>5, <1>6

\* Here it may leave it again: the deletion is younger than the answer.
LEMMA ViewerKeeps ==
  ASSUME IInv, Delete \/ \E i \in Ips : Expire(i) \/ Forget(i)
  PROVE  IInv'
<1> USE DEF IInv, Expire, Forget, Delete, lookup, breaker
<1>1. TypeOK'
  <2>1. CASE Delete
    BY <2>1 DEF TypeOK
  <2>2. ASSUME NEW i \in Ips, Expire(i) PROVE TypeOK'
    BY <2>2 DEF TypeOK, admin
  <2>3. ASSUME NEW i \in Ips, Forget(i) PROVE TypeOK'
    BY <2>3 DEF TypeOK
  <2> QED BY <2>1, <2>2, <2>3
<1>2. ProbesRecord'
  BY DEF TypeOK, ProbesRecord, Admitted
<1>3. AttemptsLeft'
  BY DEF TypeOK, AttemptsLeft, Admitted
<1>4. AnswersGiven'
  BY DEF TypeOK, AnswersGiven, AttemptsLeft
<1>5. FailsOnlyCancelled'
  BY DEF TypeOK, FailsOnlyCancelled
<1>6. AnswerPersisted'
  <2>1. CASE Delete
    BY <2>1 DEF TypeOK, AnswerPersisted, AnswersGiven
  <2>2. CASE \E i \in Ips : Expire(i) \/ Forget(i)
    BY <2>2 DEF AnswerPersisted, admin
  <2> QED BY <2>1, <2>2
<1> QED BY <1>1, <1>2, <1>3, <1>4, <1>5, <1>6

LEMMA CooldownKeeps ==
  ASSUME IInv, Cooldown \/ UNCHANGED vars
  PROVE  IInv'
<1> USE DEF IInv, Cooldown, vars, lookup, caches, breaker, admin
<1>1. TypeOK'
  BY DEF TypeOK, AttemptsLeft, AnswersGiven
<1>2. ProbesRecord'
  BY DEF TypeOK, ProbesRecord, Admitted
<1>3. AttemptsLeft'
  BY DEF TypeOK, AttemptsLeft, Admitted
<1>4. AnswersGiven'
  BY DEF TypeOK, AnswersGiven, AttemptsLeft
<1>5. FailsOnlyCancelled'
  BY DEF TypeOK, FailsOnlyCancelled
<1>6. AnswerPersisted'
  BY DEF TypeOK, AnswerPersisted, AnswersGiven, AttemptsLeft
<1> QED BY <1>1, <1>2, <1>3, <1>4, <1>5, <1>6

-----------------------------------------------------------------------------
LEMMA NextIInv == IInv /\ [Next]_vars => IInv'
BY StartKeeps, ReadsKeep, AllowKeeps, TriesKeep, AnsweredKeeps, RecordKeeps, RememberKeeps,
   PutKeeps, EndContextKeeps, ViewerKeeps, CooldownKeeps DEF Next, Step

\* The inductive invariant of the resolver holds for any number of lookups and
\* addresses, with and without a local database.
THEOREM Invariance == Spec => []IInv
<1>1. Init => IInv
  <2>1. PICK j \in Ips : j = CHOOSE i \in Ips : TRUE
    OBVIOUS
  <2>2. Init => TypeOK
    <3> SUFFICES ASSUME Init PROVE TypeOK
      OBVIOUS
    <3>1. ip = [l \in Lookups |-> j] /\ viewer = [at |-> "idle", ip |-> j]
      BY <2>1 DEF Init
    <3>2. probing = FALSE
      BY DEF Init
    <3>3. probing \in BOOLEAN
      BY <3>2
    <3> QED
      BY <3>1, <3>3 DEF Init, TypeOK
  <2>3. Init => ProbesRecord /\ AttemptsLeft /\ AnswersGiven /\ FailsOnlyCancelled /\ AnswerPersisted
    BY DEF Init, ProbesRecord, Admitted, AttemptsLeft, AnswersGiven, FailsOnlyCancelled,
       AnswerPersisted
  <2> QED BY <2>2, <2>3 DEF IInv
<1> QED BY <1>1, NextIInv, PTL DEF Spec

\* A refusing breaker has a probe under way that will record, and a local
\* database leaves cancellation as the only way to fail (circuitBreaker,
\* ResolveOne).
THEOREM NobodyTrapped == Spec => []BreakerTrapsNobody
<1>1. IInv => BreakerTrapsNobody
  BY DEF IInv, ProbesRecord, BreakerTrapsNobody, ProbeUnderWay
<1> QED BY <1>1, Invariance, PTL

\* A lookup that the service has answered leaves its answer in the database,
\* cancelled or not, unless the database refused the write or somebody deleted
\* the entry after the answer was given (ResolveOne).
THEOREM Persisted == Spec => []AnswerPersisted
<1>1. IInv => AnswerPersisted
  BY DEF IInv
<1> QED BY <1>1, Invariance, PTL
==============================================================================
