---------------------------- MODULE DialogProofs ----------------------------
(***************************************************************************)
(* For every set of workers and all settings: the pauses of the throttle   *)
(* are waited out, and no stretch as long as a pause sees more requests    *)
(* start than DelayEvery - 1 and one per worker.  For any databases and any*)
(* number of walks: the blocks of a country.  For any number of analyses,  *)
(* candidates and ports: the domain check and the origin discovery.        *)
(***************************************************************************)
EXTENDS Dialogs, FiniteSetTheorems, WellFoundedInduction, TLAPS

\* Every set of numbers has a smallest one.
LEMMA Smallest ==
  ASSUME NEW D \in SUBSET Nat, D # {} PROVE \E d \in D : \A e \in D : d <= e
<1>1. PICK d \in D : \A e \in D : ~(<<e, d>> \in OpToRel(<, Nat))
  BY WFMin, NatLessThanWellFounded
<1>2. \A e \in D : ~(e < d)
  BY <1>1 DEF OpToRel
<1>3. QED
  BY <1>2

USE ThrottleAssumption

\* The heart of it: an arriving call leaves with a waitUntil that covers every
\* cooldown opened so far, the one it opens itself included.
LEMMA FollowKeepsInvariant ==
  ASSUME NEW w \in Workers, IInv, Follow(w)
  PROVE  IInv'
<1> USE DEF IInv, Follow, Arrive
<1>1. CooldownsOrdered'
  BY DEF CooldownsOrdered
<1>2. CallCovered'
  BY DEF CallCovered, CooldownsOrdered
<1> QED BY <1>1, <1>2

LEMMA OpenKeepsInvariant ==
  ASSUME NEW w \in Workers, IInv, Open(w)
  PROVE  IInv'
<1> USE DEF IInv, Open, Arrive
<1>1. /\ Cooldown.index = count + 1 /\ Cooldown.end = now + Delay
      /\ openings' = openings \cup {Cooldown}
  BY DEF Cooldown
<1>2. \A o \in openings : o.index \in 1..count /\ o.end \in Nat /\ o.end <= now + Delay
  BY DEF CooldownsOrdered
<1>3. CooldownsOrdered'
  BY <1>1, <1>2 DEF CooldownsOrdered
<1>4. CallCovered'
  <2> SUFFICES ASSUME NEW v \in Workers
               PROVE  /\ index'[v] <= count'
                      /\ \A o \in openings' : o.index <= index'[v] => o.end <= due'[v]
                      /\ at'[v] = "cleared" => due'[v] <= now'
    BY DEF CallCovered
  <2>1. CASE v = w
    BY <1>1, <1>2, <2>1
  <2>2. CASE v # w
    BY <1>1, <1>2, <2>2 DEF CallCovered
  <2> QED BY <2>1, <2>2
<1> QED BY <1>3, <1>4

\* Every step preserves the invariant.
LEMMA StepKeepsInvariant ==
  ASSUME IInv, [Next]_vars
  PROVE  IInv'
<1>1. CASE Tick
  BY <1>1 DEF Tick, IInv, CooldownsOrdered, CallCovered, throttle, call, Ticks
<1>2. CASE Cancel
  BY <1>2 DEF Cancel, IInv, CooldownsOrdered, CallCovered, throttle, call
<1>3. ASSUME NEW w \in Workers, Wake(w) \/ Start(w) \/ Leave(w)
      PROVE  IInv'
  BY <1>3 DEF Wake, Start, Leave, IInv, CooldownsOrdered, CallCovered, throttle
<1>4. CASE UNCHANGED vars
  BY <1>4 DEF vars, IInv, CooldownsOrdered, CallCovered, throttle, call
<1> QED
  BY <1>1, <1>2, <1>3, <1>4, FollowKeepsInvariant, OpenKeepsInvariant DEF Next, Step

\* The inductive invariant of the throttle (throttle.wait).
THEOREM Invariance == Spec => []IInv
<1>1. Init => IInv
  BY DEF Init, IInv, CooldownsOrdered, CallCovered
<1> QED BY <1>1, StepKeepsInvariant, PTL DEF Spec

\* Whatever cooldowns open while a call waits, it does not pass before the end
\* of one that it or an earlier call opened.
THEOREM PauseRespected == Spec => []PauseHolds
<1>1. IInv => PauseHolds
  BY DEF IInv, CooldownsOrdered, CallCovered, PauseHolds
<1> QED BY <1>1, Invariance, PTL
-----------------------------------------------------------------------------
(* How many requests start in a stretch as long as the pause.              *)

LEMMA HeldFinite ==
  ASSUME NEW o PROVE /\ IsFiniteSet(Held(o)) /\ Cardinality(Held(o)) \in Nat
                     /\ Cardinality(Held(o)) <= Cardinality(Workers)
BY FS_Subset, FS_CardinalityType DEF Held

LEMMA LateFinite ==
  ASSUME StartsOrdered, NEW o
  PROVE  IsFiniteSet(Late(o)) /\ Cardinality(Late(o)) \in Nat
BY FS_Subset, FS_CardinalityType DEF Late, StartsOrdered

\* A step that starts no request, opens no cooldown and adds nobody to those
\* held back by one.
LEMMA NobodyAdded ==
  ASSUME LateBounded, StartsOrdered, UNCHANGED <<starts, openings>>,
         \A o \in openings : Held(o)' \subseteq Held(o)
  PROVE  LateBounded'
<1> SUFFICES ASSUME NEW o \in openings
             PROVE  Cardinality(Late(o)') + Cardinality(Held(o)') <= Cardinality(Workers)
  BY DEF LateBounded
<1>1. Late(o)' = Late(o)
  BY DEF Late
<1>2. Cardinality(Held(o)') \in Nat /\ Cardinality(Held(o)') <= Cardinality(Held(o))
  BY HeldFinite, FS_Subset, FS_CardinalityType
<1>3. Cardinality(Late(o)) + Cardinality(Held(o)) <= Cardinality(Workers)
  BY DEF LateBounded
<1>4. Cardinality(Workers) \in Nat
  BY FS_CardinalityType
<1>5. QED
  BY <1>1, <1>2, <1>3, <1>4, HeldFinite, LateFinite

\* A call arrives: its count is new, and no cooldown opened earlier holds it.
LEMMA ArriveKeepsApart ==
  ASSUME IInv, BurstInv, NEW w \in Workers, NEW u \in Nat, Arrive(w, u)
  PROVE  /\ CallsApart'
         /\ \A v \in Workers : v # w => (Waiting(v)' <=> Waiting(v)) /\ index'[v] = index[v]
         /\ index'[w] = count + 1 /\ Waiting(w)' /\ ~Waiting(w)
<1> USE DEF Arrive, IInv
<1>1. /\ at'[w] \in {"paused", "cleared"} /\ index'[w] = count + 1 /\ at[w] = "crawling"
      /\ \A v \in Workers : v # w => at'[v] = at[v] /\ index'[v] = index[v]
  OBVIOUS
<1>2. \A v \in Workers : Waiting(v) => index[v] \in 1..count
  BY DEF BurstInv, CallsApart
<1>3. \A r \in starts : r.index \in 1..count
  BY DEF BurstInv, StartsOrdered
<1>4. \A v \in Workers : v # w => (Waiting(v)' <=> Waiting(v))
  BY <1>1 DEF Waiting
<1>5. Waiting(w)' /\ ~Waiting(w)
  BY <1>1 DEF Waiting
<1>6. ASSUME NEW v \in Workers, Waiting(v)'
      PROVE  index'[v] \in 1..count' /\ \A r \in starts' : r.index # index'[v]
  <2>1. CASE v = w
    BY <1>1, <1>3, <2>1
  <2>2. CASE v # w
    BY <1>1, <1>2, <1>4, <1>6, <2>2 DEF BurstInv, CallsApart
  <2>3. QED
    BY <2>1, <2>2
<1>7. ASSUME NEW v \in Workers, NEW x \in Workers, Waiting(v)', Waiting(x)', index'[v] = index'[x]
      PROVE  v = x
  BY <1>1, <1>2, <1>4, <1>7 DEF BurstInv, CallsApart
<1>8. CallsApart'
  BY <1>6, <1>7 DEF CallsApart
<1>9. QED
  BY <1>1, <1>4, <1>5, <1>8

LEMMA FollowKeepsBurst ==
  ASSUME IInv, BurstInv, NEW w \in Workers, Follow(w) PROVE BurstInv'
<1> USE DEF Follow, IInv
<1>1. /\ CallsApart' /\ index'[w] = count + 1
      /\ \A v \in Workers : v # w => (Waiting(v)' <=> Waiting(v)) /\ index'[v] = index[v]
  BY ArriveKeepsApart
<1>2. UNCHANGED <<now, starts, openings>> /\ count' = count + 1
  BY DEF Arrive
<1>3. StartsOrdered'
  BY <1>2 DEF BurstInv, StartsOrdered
<1>4. EveryOpens'
  BY <1>2 DEF BurstInv, EveryOpens, Opens
<1>5. \A o \in openings : Held(o)' \subseteq Held(o)
  BY <1>1 DEF Held, CooldownsOrdered
<1>6. LateBounded'
  BY <1>2, <1>5, NobodyAdded DEF BurstInv
<1>7. QED
  BY <1>1, <1>3, <1>4, <1>6 DEF BurstInv

LEMMA OpenKeepsBurst ==
  ASSUME IInv, BurstInv, NEW w \in Workers, Open(w) PROVE BurstInv'
<1> USE DEF Open, IInv
<1>1. /\ CallsApart' /\ index'[w] = count + 1
      /\ \A v \in Workers : v # w => (Waiting(v)' <=> Waiting(v)) /\ index'[v] = index[v]
  BY ArriveKeepsApart
<1>2. PICK c : c = Cooldown
  OBVIOUS
<1>3. /\ c.index = count + 1 /\ c.end = now + Delay
      /\ UNCHANGED <<now, starts>> /\ count' = count + 1 /\ openings' = openings \cup {c}
  BY <1>2 DEF Arrive, Cooldown
<1>4. StartsOrdered'
  BY <1>3 DEF BurstInv, StartsOrdered
<1>5. EveryOpens'
  BY <1>3 DEF BurstInv, EveryOpens
<1>6. ASSUME NEW o \in openings
      PROVE  Cardinality(Late(o)') + Cardinality(Held(o)') <= Cardinality(Workers)
  <2>1. Held(o)' \subseteq Held(o)
    BY <1>1 DEF Held, CooldownsOrdered
  <2>2. Cardinality(Held(o)') \in Nat /\ Cardinality(Held(o)') <= Cardinality(Held(o))
    BY <2>1, HeldFinite, FS_Subset, FS_CardinalityType
  <2>3. Late(o)' = Late(o)
    BY <1>3 DEF Late
  <2>4. Cardinality(Late(o)) + Cardinality(Held(o)) <= Cardinality(Workers)
    BY DEF BurstInv, LateBounded
  <2>5. QED
    BY <2>2, <2>3, <2>4, HeldFinite, LateFinite, FS_CardinalityType DEF BurstInv
<1>7. Cardinality(Late(c)') + Cardinality(Held(c)') <= Cardinality(Workers)
  <2>1. Late(c)' = {}
    BY <1>3 DEF Late, BurstInv, StartsOrdered
  <2>2. Cardinality(Held(c)') \in Nat /\ Cardinality(Held(c)') <= Cardinality(Workers)
    <3>1. Held(c)' \subseteq Workers
      BY DEF Held
    <3>2. QED
      BY <3>1, FS_Subset, FS_CardinalityType
  <2>3. QED
    BY <2>1, <2>2, FS_EmptySet, FS_CardinalityType
<1>8. LateBounded'
  BY <1>3, <1>6, <1>7 DEF LateBounded
<1>9. QED
  BY <1>1, <1>4, <1>5, <1>8 DEF BurstInv

\* A request starts: its call was held by exactly the cooldowns not before it.
LEMMA StartKeepsBurst ==
  ASSUME IInv, BurstInv, NEW w \in Workers, Start(w) PROVE BurstInv'
<1> USE DEF Start, IInv, throttle
<1>0. PICK s : s = [index |-> index[w], at |-> now]
  OBVIOUS
<1>1. /\ at'[w] = "crawling" /\ at[w] = "cleared" /\ Waiting(w)
      /\ \A v \in Workers : v # w => at'[v] = at[v]
      /\ UNCHANGED <<now, count, index, openings>>
  BY DEF Waiting
<1>2. starts' = starts \cup {s} /\ s.index = index[w] /\ s.at = now
  BY <1>0
<1>3. /\ index[w] \in 1..count /\ \A r \in starts : r.index # index[w]
  BY <1>1 DEF BurstInv, CallsApart
<1>4. \A v \in Workers : Waiting(v)' <=> Waiting(v) /\ v # w
  BY <1>1 DEF Waiting
<1>5. CallsApart'
  <2>1. ASSUME NEW v \in Workers, Waiting(v)'
        PROVE  index'[v] \in 1..count' /\ \A r \in starts' : r.index # index'[v]
    <3>1. Waiting(v) /\ v # w /\ index[v] # index[w]
      BY <1>1, <1>4, <2>1 DEF BurstInv, CallsApart
    <3>2. index[v] \in 1..count /\ \A r \in starts : r.index # index[v]
      BY <3>1 DEF BurstInv, CallsApart
    <3>3. QED
      BY <1>1, <1>2, <3>1, <3>2
  <2>2. ASSUME NEW v \in Workers, NEW x \in Workers, Waiting(v)', Waiting(x)', index'[v] = index'[x]
        PROVE  v = x
    BY <1>1, <1>4, <2>2 DEF BurstInv, CallsApart
  <2>3. QED
    BY <2>1, <2>2 DEF CallsApart
<1>6. StartsOrdered'
  <2>1. IsFiniteSet(starts')
    <3>1. IsFiniteSet(starts)
      BY DEF BurstInv, StartsOrdered
    <3>2. QED
      BY <1>2, <3>1, FS_AddElement
  <2>2. \A r \in starts' : r.index \in 1..count' /\ r.at \in 0..now'
    BY <1>1, <1>2, <1>3 DEF BurstInv, StartsOrdered
  <2>3. \A r, q \in starts' : r.index = q.index => r = q
    BY <1>2, <1>3 DEF BurstInv, StartsOrdered
  <2>4. \A o \in openings : o.index <= index[w] => o.end <= now
    BY <1>1 DEF CallCovered, CooldownsOrdered
  <2>5. \A r \in starts', o \in openings' : o.index <= r.index => o.end <= r.at
    BY <1>1, <1>2, <2>4 DEF BurstInv, StartsOrdered
  <2>6. QED
    BY <2>1, <2>2, <2>3, <2>5 DEF StartsOrdered
<1>7. EveryOpens'
  BY <1>1 DEF BurstInv, EveryOpens
<1>8. ASSUME NEW o \in openings
      PROVE  Cardinality(Late(o)') + Cardinality(Held(o)') <= Cardinality(Workers)
  <2>1. Cardinality(Late(o)) + Cardinality(Held(o)) <= Cardinality(Workers)
    BY DEF BurstInv, LateBounded
  <2>2. Held(o)' = Held(o) \ {w}
    BY <1>1, <1>4 DEF Held
  <2>3. CASE index[w] <= o.index
    <3>1. w \in Held(o)
      BY <1>1, <2>3 DEF Held
    <3>2. Cardinality(Held(o)') = Cardinality(Held(o)) - 1
      <4>1. IsFiniteSet(Held(o))
        BY HeldFinite
      <4>2. Cardinality(Held(o) \ {w}) = Cardinality(Held(o)) - 1
        BY <3>1, <4>1, FS_RemoveElement
      <4>3. QED
        BY <2>2, <4>2
    <3>3. Late(o)' \subseteq Late(o) \cup {s}
      BY <1>2 DEF Late
    <3>4. /\ IsFiniteSet(Late(o) \cup {s})
          /\ Cardinality(Late(o) \cup {s}) <= Cardinality(Late(o)) + 1
      <4>1. IsFiniteSet(Late(o)) /\ Cardinality(Late(o)) \in Nat
        BY LateFinite DEF BurstInv
      <4>2. /\ IsFiniteSet(Late(o) \cup {s})
            /\ Cardinality(Late(o) \cup {s})
                 = IF s \in Late(o) THEN Cardinality(Late(o)) ELSE Cardinality(Late(o)) + 1
        BY <4>1, FS_AddElement, Zenon
      <4>3. QED
        BY <4>1, <4>2
    <3>5. Cardinality(Late(o)') <= Cardinality(Late(o) \cup {s})
      BY <3>3, <3>4, FS_Subset
    <3>6. Cardinality(Late(o)') \in Nat /\ Cardinality(Late(o) \cup {s}) \in Nat
      BY <3>3, <3>4, FS_Subset, FS_CardinalityType
    <3>7. QED
      BY <2>1, <3>2, <3>4, <3>5, <3>6, HeldFinite, LateFinite, FS_CardinalityType DEF BurstInv
  <2>4. CASE ~(index[w] <= o.index)
    <3>1. Late(o)' = Late(o)
      BY <1>2, <2>4 DEF Late
    <3>2. Held(o)' = Held(o)
      BY <2>2, <2>4 DEF Held
    <3>3. QED
      BY <2>1, <3>1, <3>2
  <2>5. QED
    BY <2>3, <2>4
<1>9. LateBounded'
  BY <1>1, <1>8 DEF LateBounded
<1>10. QED
  BY <1>5, <1>6, <1>7, <1>9 DEF BurstInv

\* The steps that start no request and count no call.
LEMMA OtherKeepsBurst ==
  ASSUME IInv, BurstInv,
         Tick \/ Cancel \/ (\E w \in Workers : Wake(w) \/ Leave(w)) \/ UNCHANGED vars
  PROVE  BurstInv'
<1> USE DEF IInv, Tick, Cancel, Wake, Leave, vars, throttle, call
<1>1. /\ UNCHANGED <<count, index, starts, openings>>
      /\ now' \in Nat /\ now <= now'
  BY DEF Ticks
<1>2. \A w \in Workers : Waiting(w)' => Waiting(w)
  BY DEF Waiting
<1>3. CallsApart'
  BY <1>1, <1>2 DEF BurstInv, CallsApart
<1>4. StartsOrdered'
  BY <1>1 DEF BurstInv, StartsOrdered
<1>5. EveryOpens'
  BY <1>1 DEF BurstInv, EveryOpens
<1>6. LateBounded'
  <2>1. \A o \in openings : Held(o)' \subseteq Held(o)
    BY <1>1, <1>2 DEF Held
  <2>2. QED
    BY <1>1, <2>1, NobodyAdded DEF BurstInv
<1>7. QED
  BY <1>3, <1>4, <1>5, <1>6 DEF BurstInv

LEMMA StepKeepsBurst == IInv /\ BurstInv /\ [Next]_vars => BurstInv'
<1> SUFFICES ASSUME IInv, BurstInv, [Next]_vars PROVE BurstInv'
  OBVIOUS
<1>1. CASE \E w \in Workers : Follow(w) \/ Open(w) \/ Start(w)
  BY <1>1, FollowKeepsBurst, OpenKeepsBurst, StartKeepsBurst
<1>2. CASE Tick \/ Cancel \/ (\E w \in Workers : Wake(w) \/ Leave(w)) \/ UNCHANGED vars
  BY <1>2, OtherKeepsBurst
<1>3. QED
  BY <1>1, <1>2 DEF Next, Step

\* Requests whose counts lie between two cooldowns are fewer than DelayEvery.
LEMMA FewBetween ==
  ASSUME StartsOrdered, NEW S \in SUBSET starts, NEW k \in Nat,
         \A r \in S : r.index \in (k + 1)..(k + Every - 1)
  PROVE  IsFiniteSet(S) /\ Cardinality(S) \in Nat /\ Cardinality(S) < Every
<1> DEFINE I == (k + 1)..(k + Every - 1)
           f == [r \in S |-> r.index]
<1>1. IsFiniteSet(I) /\ Cardinality(I) = Every - 1
  BY FS_Interval
<1>2. IsFiniteSet(S) /\ Cardinality(S) \in Nat
  BY FS_Subset, FS_CardinalityType DEF StartsOrdered
<1>3. f \in Injection(S, I)
  <2>1. f \in [S -> I]
    OBVIOUS
  <2>2. IsInjective(f)
    BY DEF StartsOrdered, IsInjective
  <2>3. QED
    BY <2>1, <2>2 DEF Injection
<1>4. Cardinality(S) <= Cardinality(I)
  BY <1>1, <1>3, FS_Injection
<1>5. QED
  BY <1>1, <1>2, <1>4

\* Every count has a last multiple of DelayEvery below it.
LEMMA LastMultiple ==
  ASSUME NEW n \in Nat
  PROVE  \E k \in 0..n : k % Every = 0 /\ n <= k + Every - 1
<1> DEFINE D == {n - Every * q : q \in Nat} \cap Nat
<1>1. n \in D
  <2>1. n = n - Every * 0
    OBVIOUS
  <2>2. QED
    BY <2>1
<1>2. PICK d \in D : \A e \in D : d <= e
  BY <1>1, Smallest
<1>3. PICK q \in Nat : d = n - Every * q
  OBVIOUS
<1>4. d < Every
  <2>1. SUFFICES ASSUME d >= Every PROVE FALSE
    OBVIOUS
  <2>2. d - Every = n - Every * (q + 1)
    BY <1>3
  <2>3. d - Every \in D
    <3>1. q + 1 \in Nat /\ d - Every \in Nat
      BY <2>1
    <3>2. n - Every * (q + 1) \in {n - Every * p : p \in Nat}
      BY <3>1, Zenon
    <3>3. QED
      BY <2>2, <3>1, <3>2
  <2>4. QED
    BY <1>2, <2>3
<1>5. Every * q \in 0..n /\ n <= Every * q + Every - 1
  BY <1>3, <1>4
<1>6. (Every * q) % Every = 0
  OBVIOUS
<1>7. QED
  BY <1>5, <1>6

\* Of a set of requests one has the newest call.
LEMMA NewestCall ==
  ASSUME IInv, StartsOrdered, NEW S \in SUBSET starts, S # {}
  PROVE  \E m \in S : \A r \in S : r.index <= m.index
<1> DEFINE D == {count - r.index : r \in S}
<1>1. \A r \in S : r.index \in 1..count /\ count \in Nat
  BY DEF IInv, StartsOrdered
<1>2. D \subseteq Nat /\ D # {}
  BY <1>1
<1>3. PICK d \in D : \A e \in D : d <= e
  BY <1>2, Smallest
<1>4. PICK m \in S : d = count - m.index
  OBVIOUS
<1>5. \A r \in S : count - m.index <= count - r.index
  BY <1>3, <1>4
<1>6. QED
  BY <1>1, <1>5

LEMMA WindowBounded ==
  ASSUME IInv, BurstInv, NEW t \in Ticks
  PROVE  Cardinality(InWindow(t)) < Cardinality(Workers) + Every
<1> DEFINE W == InWindow(t)
<1>1. W \subseteq starts /\ IsFiniteSet(W) /\ t \in Nat
  BY FS_Subset DEF InWindow, BurstInv, StartsOrdered, Ticks
<1>2. Cardinality(Workers) \in Nat
  BY FS_CardinalityType
<1>3. CASE W = {}
  BY <1>2, <1>3, FS_EmptySet
<1>4. CASE W # {}
  <2>1. PICK m \in W : \A r \in W : r.index <= m.index
    BY <1>1, <1>4, NewestCall DEF BurstInv
  <2>2. m.index \in 1..count /\ count \in Nat
    BY <1>1 DEF IInv, BurstInv, StartsOrdered
  <2>3. PICK k \in 0..m.index : k % Every = 0 /\ m.index <= k + Every - 1
    <3>1. m.index \in Nat
      BY <2>2
    <3>2. QED
      BY <3>1, LastMultiple, Zenon
  <2> DEFINE Young == {r \in W : r.index > k}
  <2>4. /\ IsFiniteSet(Young) /\ Cardinality(Young) \in Nat /\ Cardinality(Young) < Every
    <3>1. \A r \in Young : r.index \in (k + 1)..(k + Every - 1)
      BY <1>1, <2>1, <2>2, <2>3 DEF BurstInv, StartsOrdered
    <3>2. Young \in SUBSET starts /\ k \in Nat
      BY <1>1, <2>2
    <3>3. QED
      BY <3>1, <3>2, FewBetween DEF BurstInv
  <2>5. CASE k = 0
    <3>1. Young = W
      BY <1>1, <2>5 DEF BurstInv, StartsOrdered
    <3>2. QED
      BY <1>2, <2>4, <3>1
  <2>6. CASE k # 0
    <3>1. PICK o \in openings : o.index = k
      BY <2>2, <2>3, <2>6 DEF BurstInv, EveryOpens
    <3>2. o.end <= m.at /\ m.at < t + Delay /\ o.end \in Nat /\ m.at \in Nat
      BY <1>1, <2>2, <2>3, <3>1 DEF IInv, CooldownsOrdered, BurstInv, StartsOrdered, InWindow
    <3>3. W \subseteq Young \cup Late(o)
      <4>1. ASSUME NEW r \in W, ~(r.index > k) PROVE r \in Late(o)
        <5>1. r \in starts /\ r.at >= t /\ r.index \in Nat /\ r.at \in Nat
          BY <1>1 DEF IInv, BurstInv, StartsOrdered, InWindow
        <5>2. r.index <= o.index /\ r.at > o.end - Delay
          BY <1>1, <2>2, <3>1, <3>2, <4>1, <5>1
        <5>3. QED
          BY <5>1, <5>2 DEF Late
      <4>2. QED
        BY <4>1
    <3>4. /\ IsFiniteSet(Young \cup Late(o))
          /\ Cardinality(Young \cup Late(o)) <= Cardinality(Young) + Cardinality(Late(o))
      <4>1. /\ IsFiniteSet(Young \cap Late(o)) /\ Cardinality(Young \cap Late(o)) \in Nat
        BY <2>4, FS_Subset, FS_CardinalityType
      <4>2. IsFiniteSet(Late(o)) /\ Cardinality(Late(o)) \in Nat
        BY LateFinite DEF BurstInv
      <4>3. /\ IsFiniteSet(Young \cup Late(o))
            /\ Cardinality(Young \cup Late(o))
                 = Cardinality(Young) + Cardinality(Late(o)) - Cardinality(Young \cap Late(o))
        BY <2>4, <4>2, FS_Union
      <4>4. QED
        BY <2>4, <4>1, <4>2, <4>3
    <3>5. Cardinality(Late(o)) <= Cardinality(Workers)
      BY <1>2, HeldFinite, LateFinite DEF BurstInv, LateBounded
    <3>6. Cardinality(W) <= Cardinality(Young \cup Late(o))
      BY <3>3, <3>4, FS_Subset
    <3>7. /\ Cardinality(W) \in Nat /\ Cardinality(Young \cup Late(o)) \in Nat
          /\ Cardinality(Late(o)) \in Nat
      BY <1>1, <3>4, LateFinite, FS_CardinalityType DEF BurstInv
    <3>8. QED
      BY <1>2, <2>4, <3>4, <3>5, <3>6, <3>7
  <2>7. QED
    BY <2>5, <2>6
<1>5. QED
  BY <1>3, <1>4

\* The inductive invariant behind the bound (throttle.wait, crawlSeed's
\* semaphore).
THEOREM StartsApart == Spec => []BurstInv
<1>1. Init => BurstInv
  BY FS_EmptySet DEF Init, BurstInv, CallsApart, StartsOrdered, EveryOpens, LateBounded, Waiting
<1>2. QED
  BY <1>1, Invariance, StepKeepsBurst, PTL DEF Spec

\* In any stretch as long as the pause fewer requests start than DelayEvery and
\* one per worker.
THEOREM BurstsAreBounded == Spec => []BurstBounded
<1>1. IInv /\ BurstInv => BurstBounded
  BY WindowBounded DEF BurstBounded
<1>2. QED
  BY <1>1, Invariance, StartsApart, PTL

-----------------------------------------------------------------------------
(* Country blocks.                                                         *)

\* An operation that is started gets a number nobody has.
LEMMA CountryFresh ==
  ASSUME Blocks!CountryAssumption, Blocks!CanStart PROVE Blocks!Fresh \in Blocks!Ops /\ op[Blocks!Fresh] = Blocks!Off
<1> DEFINE T == {o \in Blocks!Ops : op[o] = Blocks!Off}
<1>1. T \in SUBSET Nat /\ T # {}
  <2>1. Blocks!Ops \subseteq Nat
    BY DEF Blocks!Ops, Blocks!CountryAssumption
  <2> QED BY <2>1 DEF Blocks!CanStart
<1>2. \E m \in T : \A x \in T : m <= x
  BY <1>1, Smallest
<1> HIDE DEF T
<1>3. PICK m \in T : \A x \in T : m <= x
  BY <1>2
<1> QED BY <1>3 DEF Blocks!Fresh, T

\* What stop() changes: nothing, or the flag of an operation that is under way.
LEMMA CountryStop ==
  ASSUME Blocks!CountryAssumption, Blocks!TypeOK, Blocks!OpsAreHonest, Blocks!SlotIsLive
  PROVE  /\ DOMAIN Blocks!Stop = Blocks!Ops
         /\ \A o \in Blocks!Ops : /\ Blocks!Stop[o] = op[o] \/ (slot = o /\ Blocks!Stop[o] = [op[o] EXCEPT !.cancelled = TRUE])
                                  /\ op[o] \in {Blocks!Off, Blocks!Over} => Blocks!Stop[o] = op[o]
                                  /\ op[o] \notin {Blocks!Off, Blocks!Over} =>
                                       /\ Blocks!Stop[o] \notin {Blocks!Off, Blocks!Over} /\ Blocks!Stop[o].at = op[o].at
                                       /\ Blocks!Stop[o].kind = op[o].kind
                                  /\ Blocks!OpIsHonest(Blocks!Stop[o])
<1> SUFFICES ASSUME NEW o \in Blocks!Ops
             PROVE /\ Blocks!Stop[o] = op[o] \/ (slot = o /\ Blocks!Stop[o] = [op[o] EXCEPT !.cancelled = TRUE])
                   /\ op[o] \in {Blocks!Off, Blocks!Over} => Blocks!Stop[o] = op[o]
                   /\ op[o] \notin {Blocks!Off, Blocks!Over} =>
                        /\ Blocks!Stop[o] \notin {Blocks!Off, Blocks!Over} /\ Blocks!Stop[o].at = op[o].at
                        /\ Blocks!Stop[o].kind = op[o].kind
                   /\ Blocks!OpIsHonest(Blocks!Stop[o])
  BY DEF Blocks!Stop, Blocks!OpsAreHonest
<1>1. Blocks!OpIsHonest(op[o])
  BY DEF Blocks!OpsAreHonest
<1>2. CASE slot # o
  BY <1>1, <1>2 DEF Blocks!Stop, Blocks!OpsAreHonest, Blocks!TypeOK
<1>3. CASE slot = o
  <2>1. Blocks!Stop[o] = [op[o] EXCEPT !.cancelled = TRUE]
    BY <1>3 DEF Blocks!Stop, Blocks!OpsAreHonest, Blocks!Ops, Blocks!CountryAssumption
  <2>2. op[o].at \in {"lock", "walk", "unlock"}
    BY <1>3 DEF Blocks!SlotIsLive, Blocks!Ops, Blocks!CountryAssumption
  <2>3. op[o] \notin {Blocks!Off, Blocks!Over}
    BY <2>2 DEF Blocks!Off, Blocks!Over
  <2>4. op[o] \in Blocks!OpRecords
    BY <1>1, <2>3 DEF Blocks!OpIsHonest
  <2>5. /\ Blocks!Stop[o] \in Blocks!OpRecords /\ Blocks!Stop[o].at = op[o].at /\ Blocks!Stop[o].kind = op[o].kind
        /\ Blocks!Stop[o].db = op[o].db /\ Blocks!Stop[o].country = op[o].country /\ Blocks!Stop[o].next = op[o].next
        /\ Blocks!Stop[o].out = op[o].out /\ Blocks!Stop[o].result = op[o].result
    BY <2>1, <2>4 DEF Blocks!OpRecords
  <2>6. Blocks!Stop[o] \notin {Blocks!Off, Blocks!Over}
    BY <2>2, <2>5 DEF Blocks!Off, Blocks!Over
  <2>7. Blocks!OpIsHonest(Blocks!Stop[o])
    BY <1>1, <2>3, <2>5 DEF Blocks!OpIsHonest
  <2> QED BY <1>3, <2>1, <2>3, <2>5, <2>6, <2>7
<1> QED BY <1>2, <1>3

\* A step that gives one operation its next record, or its first.
LEMMA CountryStep ==
  ASSUME Blocks!CountryAssumption, Blocks!IInv, NEW Q, Q = op \/ Q = Blocks!Stop,
         NEW o \in Blocks!Ops, NEW x, op' = [Q EXCEPT ![o] = x], Blocks!OpIsHonest(x), x \notin {Blocks!Off, Blocks!Over},
         \/ op[o] = Blocks!Off
         \/ op[o].at = "begin"
         \/ op[o].at \in {"lock", "walk"} /\ x.at \in {"lock", "walk", "unlock"},
         db' = db, slot' = slot \/ (slot' = o /\ x.at = "lock"), posted' = posted
  PROVE  Blocks!OpsAreHonest' /\ Blocks!SlotIsLive' /\ Blocks!PostedOnce'
<1> USE DEF Blocks!IInv
<1>1. /\ DOMAIN Q = Blocks!Ops
      /\ \A p \in Blocks!Ops : /\ Blocks!OpIsHonest(Q[p])
                               /\ op[p] \notin {Blocks!Off, Blocks!Over} => Q[p].at = op[p].at /\ Q[p].kind = op[p].kind
  <2>1. CASE Q = op
    BY <2>1 DEF Blocks!OpsAreHonest
  <2>2. CASE Q = Blocks!Stop
    BY <2>2, CountryStop
  <2> QED BY <2>1, <2>2
<1>2. DOMAIN op' = Blocks!Ops /\ \A p \in Blocks!Ops : op'[p] = IF p = o THEN x ELSE Q[p]
  BY <1>1
<1>3. \A p \in Blocks!Ops : Blocks!OpIsHonest(op'[p])
  BY <1>1, <1>2
<1>4. Blocks!OpsAreHonest'
  <2>1. ASSUME NEW p \in Blocks!Ops PROVE Blocks!OpIsHonest(op[p])'
    <3>1. Blocks!OpIsHonest(op'[p])
      BY <1>3
    <3> QED BY <3>1 DEF Blocks!OpIsHonest, Blocks!OpRecords, Blocks!BlocksOf
  <2> QED BY <1>2, <2>1 DEF Blocks!OpsAreHonest, Blocks!Ops
<1>5. ASSUME NEW p \in Blocks!Ops, p # o, op[p].at \in {"lock", "walk", "unlock", "posted"}
      PROVE  op'[p].at = op[p].at /\ op'[p].kind = op[p].kind
  <2>1. op[p] \notin {Blocks!Off, Blocks!Over}
    BY <1>5 DEF Blocks!Off, Blocks!Over
  <2> QED BY <1>1, <1>2, <1>5, <2>1
<1>6. op'[o] = x /\ op[o].at # "posted"
  BY <1>2 DEF Blocks!Off
<1>7. Blocks!SlotIsLive'
  <2>1. CASE slot' = o
    <3>1. CASE x.at = "lock"
      BY <2>1, <3>1, <1>6 DEF Blocks!SlotIsLive
    <3>2. CASE slot = o /\ x.at # "lock"
      <4>1. o # 0 => op[o].at \in {"lock", "walk", "unlock"}
        BY <3>2 DEF Blocks!SlotIsLive
      <4>2. o # 0
        BY DEF Blocks!Ops, Blocks!CountryAssumption
      <4>3. x.at \in {"lock", "walk", "unlock"}
        BY <4>1, <4>2 DEF Blocks!Off
      <4> QED BY <2>1, <4>3, <1>6 DEF Blocks!SlotIsLive
    <3> QED BY <2>1, <3>1, <3>2
  <2>2. CASE slot' # o
    <3>1. slot' = slot /\ slot \in {0} \cup Blocks!Ops
      BY <2>2 DEF Blocks!TypeOK
    <3> QED BY <2>2, <3>1, <1>5 DEF Blocks!SlotIsLive
  <2> QED BY <2>1, <2>2
<1>8. Blocks!PostedOnce'
  <2>1. ASSUME NEW i \in DOMAIN posted PROVE op'[posted[i]].at = "posted" /\ op'[posted[i]].kind = "query"
    <3>1. posted[i] \in Blocks!Ops /\ op[posted[i]].at = "posted" /\ op[posted[i]].kind = "query"
      BY DEF Blocks!PostedOnce
    <3>2. posted[i] # o
      BY <3>1, <1>6
    <3> QED BY <3>1, <3>2, <1>5
  <2> QED BY <2>1 DEF Blocks!PostedOnce, Blocks!Ops
<1> QED BY <1>4, <1>7, <1>8

\* A step that leaves the blocks in the dialog alone.
LEMMA CountryPane ==
  ASSUME Blocks!CountryAssumption, Blocks!IInv, gui'.shows = gui.shows, db' \in {db, db + 1}
  PROVE  Blocks!ShownIsComplete'
<1>1. 1..db \subseteq 1..db'
  BY DEF Blocks!TypeOK, Blocks!Dbs, Blocks!CountryAssumption, Blocks!IInv
<1>2. CASE gui.shows.country \in {"none", Unknown}
  BY <1>2 DEF Blocks!ShownIsComplete
<1>3. CASE gui.shows.country \notin {"none", Unknown}
  <2>1. PICK d \in 1..db, family \in Families :
          LET page == Blocks!Paginate(Blocks!BlocksOf(d, gui.shows.country), family)
          IN gui.shows.blocks = page.blocks /\ gui.shows.more = page.more
    BY <1>3 DEF Blocks!IInv, Blocks!ShownIsComplete
  <2> QED BY <1>1, <2>1 DEF Blocks!ShownIsComplete
<1> QED BY <1>2, <1>3

\* Databases and operations are numbers.
LEMMA CountryTyped ==
  ASSUME Blocks!CountryAssumption, Blocks!TypeOK
  PROVE  /\ Blocks!Dbs = 1..Len(Owners) /\ Len(Owners) \in Nat /\ db \in Nat /\ db \in 1..db
         /\ 1..db \subseteq Blocks!Dbs /\ Blocks!Ops \subseteq Nat \ {0} /\ 0 \notin Blocks!Ops
         /\ \A d \in Blocks!Dbs : Owners[d] \in Seq(Blocks!Codes)
<1>1. Owners \in Seq(Seq(Blocks!Codes))
  BY DEF Blocks!CountryAssumption
<1>2. Blocks!Dbs = 1..Len(Owners) /\ Len(Owners) \in Nat /\ \A d \in Blocks!Dbs : Owners[d] \in Seq(Blocks!Codes)
  <2> HIDE DEF Blocks!Codes
  <2> QED BY <1>1 DEF Blocks!Dbs
<1>3. db \in Blocks!Dbs
  BY DEF Blocks!TypeOK
<1> QED BY <1>2, <1>3 DEF Blocks!Ops, Blocks!CountryAssumption

\* An operation that starts with the names the dialog has, or is about to have.
LEMMA CountryStarted ==
  ASSUME Blocks!CountryAssumption, Blocks!IInv, NEW kind \in {"query", "countries", "export", "release"},
         NEW code \in Blocks!Codes \cup {"none"}, NEW family \in Families,
         kind \in {"query", "export"} => code \in Blocks!Codes
  PROVE  /\ Blocks!OpIsHonest([Blocks!Started(kind) EXCEPT !.country = code, !.family = family])
         /\ [Blocks!Started(kind) EXCEPT !.country = code, !.family = family].at = "begin"
         /\ Blocks!Started(kind).at = "begin"
         /\ code = gui.current =>
              Blocks!OpIsHonest(Blocks!Started(kind)) /\ Blocks!OpIsHonest([Blocks!Started(kind) EXCEPT !.at = "lock"])
<1> DEFINE s == Blocks!Started(kind)
           x == [s EXCEPT !.country = code, !.family = family]
           y == [s EXCEPT !.at = "lock"]
<1>1. s \in Blocks!OpRecords /\ s.at = "begin" /\ s.kind = kind /\ s.next = 1 /\ s.out = {}
      /\ s.country = gui.current /\ s.family = gui.family
  <2>1. db \in 1..db
    BY CountryTyped DEF Blocks!IInv
  <2>2. gui.current \in Blocks!Codes \cup {"none"} /\ gui.family \in Families
    BY DEF Blocks!IInv, Blocks!DialogIsWhole
  <2>3. 1 \in Nat \ {0} /\ {} \in SUBSET Nat /\ FALSE \in BOOLEAN
    OBVIOUS
  <2>4. s = [at |-> "begin", kind |-> kind, db |-> db, country |-> gui.current,
             family |-> gui.family, next |-> 1, out |-> {}, cancelled |-> FALSE, result |-> "none"]
    BY DEF Blocks!Started
  <2> HIDE DEF s
  <2> QED BY <2>1, <2>2, <2>3, <2>4 DEF Blocks!OpRecords
<1> HIDE DEF s
<1>2. x \in Blocks!OpRecords /\ x.at = "begin" /\ x.kind = kind /\ x.next = 1 /\ x.out = {} /\ x.country = code
  BY <1>1 DEF Blocks!OpRecords
<1>3. y \in Blocks!OpRecords /\ y.at = "lock" /\ y.kind = kind /\ y.next = 1 /\ y.out = {} /\ y.country = gui.current
  BY <1>1 DEF Blocks!OpRecords
<1>4. Blocks!OpIsHonest(x)
  BY <1>2 DEF Blocks!OpIsHonest
<1> HIDE DEF x, y
<1>5. code = gui.current => Blocks!OpIsHonest(s) /\ Blocks!OpIsHonest(y)
  BY <1>1, <1>3 DEF Blocks!OpIsHonest
<1> QED BY <1>1, <1>2, <1>4, <1>5 DEF s, x, y

\* No database is open and nothing shown at first.
LEMMA CountryInit == Blocks!CountryAssumption /\ Blocks!Init => Blocks!IInv
<1> SUFFICES ASSUME Blocks!CountryAssumption, Blocks!Init PROVE Blocks!IInv
  OBVIOUS
<1>1. Blocks!Dbs = 1..Len(Owners) /\ Len(Owners) \in Nat \ {0}
  <2> HIDE DEF Blocks!Codes
  <2> QED BY DEF Blocks!CountryAssumption, Blocks!Dbs
<1>2. Blocks!TypeOK
  <2>1. 1 \in Blocks!Dbs
    BY <1>1
  <2> QED BY <2>1 DEF Blocks!Init, Blocks!TypeOK, Blocks!Empty
<1>3. Blocks!OpsAreHonest
  BY DEF Blocks!Init, Blocks!OpsAreHonest, Blocks!OpIsHonest
<1>4. Blocks!CacheIsComplete
  <2>1. Blocks!Empty \in [loaded : BOOLEAN, key : Blocks!Codes \cup {Unknown}, blocks : SUBSET Nat]
    <3>1. FALSE \in BOOLEAN /\ {} \in SUBSET Nat
      OBVIOUS
    <3> QED BY <3>1 DEF Blocks!Empty
  <2>2. Blocks!Empty.key = Unknown
    BY DEF Blocks!Empty
  <2>3. kept = [d \in Blocks!Dbs |-> Blocks!Empty]
    BY DEF Blocks!Init
  <2> QED BY <2>1, <2>2, <2>3 DEF Blocks!CacheIsComplete
<1>5. Blocks!SlotIsLive /\ Blocks!PostedOnce
  <2>1. posted = <<>> /\ posted \in Seq(Blocks!Ops) /\ DOMAIN posted = {}
    BY DEF Blocks!Init
  <2> QED BY <2>1 DEF Blocks!Init, Blocks!SlotIsLive, Blocks!PostedOnce
<1>6. Blocks!DialogIsWhole /\ Blocks!ShownIsComplete
  <2>1. gui = [busy |-> 0, current |-> "none", family |-> "all", pane |-> "empty", shows |-> Blocks!NoBlocks]
    BY DEF Blocks!Init
  <2>2. gui.current = "none" /\ gui.family = "all" /\ gui.shows.country = "none"
    BY <2>1 DEF Blocks!NoBlocks
  <2> QED BY <2>1, <2>2 DEF Blocks!DialogIsWhole, Blocks!ShownIsComplete, Blocks!CountryAssumption
<1> QED BY <1>2, <1>3, <1>4, <1>5, <1>6 DEF Blocks!IInv

\* What a change of the dialog's names keeps.
LEMMA CountryGui ==
  ASSUME Blocks!IInv, NEW busy, NEW current \in Blocks!Codes \cup {"none"}, NEW family \in Families, NEW pane,
         NEW shows,
         gui' = [gui EXCEPT !.busy = busy, !.current = current, !.family = family, !.pane = pane,
                            !.shows = shows]
  PROVE  gui'.busy = busy /\ gui'.shows = shows /\ Blocks!DialogIsWhole'
<1>1. gui = [busy |-> gui.busy, current |-> gui.current, family |-> gui.family, pane |-> gui.pane,
            shows |-> gui.shows]
  BY DEF Blocks!IInv, Blocks!DialogIsWhole
<1>2. gui' = [busy |-> busy, current |-> current, family |-> family, pane |-> pane,
              shows |-> shows]
  BY <1>1
<1> QED BY <1>2 DEF Blocks!DialogIsWhole

\* What the dialog names is a country and a family.
LEMMA CountryNames ==
  ASSUME Blocks!IInv PROVE gui.current \in Blocks!Codes \cup {"none"} /\ gui.family \in Families
BY DEF Blocks!IInv, Blocks!DialogIsWhole

\* The cache is complete as long as nobody writes it.
LEMMA CountryKept == ASSUME Blocks!IInv, kept' = kept PROVE Blocks!CacheIsComplete'
BY DEF Blocks!IInv, Blocks!CacheIsComplete, Blocks!BlocksOf, Blocks!Dbs, Blocks!Codes

\* A query that starts is about the country and family that are selected.
LEMMA CountryQuery ==
  ASSUME Blocks!CountryAssumption, Blocks!IInv, Blocks!CanStart, NEW code \in Blocks!Codes, NEW family \in Families,
         Blocks!Query(code, family), UNCHANGED <<db, closed, kept, mu, slot, posted>>
  PROVE  Blocks!IInv'
<1> DEFINE x == [Blocks!Started("query") EXCEPT !.country = code, !.family = family]
<1>2. Blocks!OpIsHonest(x) /\ x.at = "begin"
  BY CountryStarted
<1>3. Blocks!Fresh \in Blocks!Ops /\ op[Blocks!Fresh] = Blocks!Off
  BY CountryFresh
<1>4. op' = [op EXCEPT ![Blocks!Fresh] = x]
  BY DEF Blocks!Query
<1> HIDE DEF x
<1>5. Blocks!OpsAreHonest' /\ Blocks!SlotIsLive' /\ Blocks!PostedOnce'
  <2>1. x \notin {Blocks!Off, Blocks!Over}
    BY <1>2 DEF Blocks!Off, Blocks!Over
  <2> QED BY <1>2, <1>3, <1>4, <2>1, CountryStep
<1>6. gui' = [gui EXCEPT !.busy = gui.busy, !.current = code, !.family = family, !.pane = "loading",
                         !.shows = gui.shows]
  BY DEF Blocks!Query, Blocks!IInv, Blocks!DialogIsWhole
<1>7. gui'.busy = gui.busy /\ gui'.shows = gui.shows /\ Blocks!DialogIsWhole'
  BY <1>6, CountryGui
<1>8. Blocks!TypeOK'
  BY <1>7 DEF Blocks!TypeOK, Blocks!IInv
<1>9. Blocks!ShownIsComplete' /\ Blocks!CacheIsComplete'
  BY <1>7, CountryPane, CountryKept
<1> QED BY <1>5, <1>7, <1>8, <1>9 DEF Blocks!IInv

\* A selection or filter empties the list, or starts a query of its own.
LEMMA CountrySelects ==
  ASSUME Blocks!CountryAssumption, Blocks!IInv,
         (\E code \in Blocks!Codes : Blocks!SelectCountry(code)) \/ (\E family \in Families : Blocks!FilterChanged(family))
  PROVE  Blocks!IInv'
<1>1. ASSUME NEW code \in Blocks!Codes, Blocks!SelectCountry(code) PROVE Blocks!IInv'
  <2>1. gui.family \in Families /\ Blocks!CanStart /\ Blocks!Query(code, gui.family)
        /\ UNCHANGED <<db, closed, kept, mu, slot, posted>>
    BY <1>1, CountryNames DEF Blocks!SelectCountry
  <2> QED BY <2>1, CountryQuery
<1>2. ASSUME NEW family \in Families, Blocks!FilterChanged(family) PROVE Blocks!IInv'
  <2>1. Blocks!CanStart /\ UNCHANGED <<db, closed, kept, mu, slot, posted>>
    BY <1>2 DEF Blocks!FilterChanged
  <2>2. CASE gui.current \in {"none", Unknown}
    <3>1. gui' = [gui EXCEPT !.family = family] /\ op' = op
      BY <1>2, <2>2 DEF Blocks!FilterChanged
    <3>2. gui' = [gui EXCEPT !.busy = gui.busy, !.current = gui.current, !.family = family,
                             !.pane = gui.pane, !.shows = gui.shows]
      BY <3>1 DEF Blocks!IInv, Blocks!DialogIsWhole
    <3>3. gui'.busy = gui.busy /\ gui'.shows = gui.shows /\ Blocks!DialogIsWhole'
      BY <3>2, CountryGui, CountryNames
    <3>4. Blocks!TypeOK'
      BY <2>1, <3>3 DEF Blocks!TypeOK, Blocks!IInv
    <3>5. Blocks!ShownIsComplete' /\ Blocks!CacheIsComplete'
      BY <2>1, <3>3, CountryPane, CountryKept
    <3>6. Blocks!OpsAreHonest' /\ Blocks!SlotIsLive' /\ Blocks!PostedOnce'
      BY <2>1, <3>1 DEF Blocks!IInv, Blocks!OpsAreHonest, Blocks!OpIsHonest, Blocks!OpRecords,
         Blocks!SlotIsLive, Blocks!PostedOnce
    <3> QED BY <3>3, <3>4, <3>5, <3>6 DEF Blocks!IInv
  <2>3. CASE gui.current \notin {"none", Unknown}
    <3>1. gui.current \in Blocks!Codes /\ Blocks!Query(gui.current, family)
      BY <1>2, <2>3, CountryNames DEF Blocks!FilterChanged
    <3> QED BY <2>1, <3>1, CountryQuery
  <2> QED BY <2>2, <2>3
<1> QED BY <1>1, <1>2

\* A walk on the GUI thread starts: the list of countries, an export or the
\* release, which also tells the running walk to stop.
LEMMA CountryWaits ==
  ASSUME Blocks!CountryAssumption, Blocks!IInv, (\E kind \in {"countries", "export"} : Blocks!Wait(kind)) \/ Blocks!Release
  PROVE  Blocks!IInv'
<1>0. Blocks!CanStart /\ UNCHANGED <<db, closed, kept, mu, slot, posted>>
      /\ gui' = [gui EXCEPT !.busy = Blocks!Fresh]
  BY DEF Blocks!Wait, Blocks!Release
<1>1. PICK x, Q :
        /\ Q = op \/ Q = Blocks!Stop
        /\ op' = [Q EXCEPT ![Blocks!Fresh] = x]
        /\ Blocks!OpIsHonest(x) /\ x.at \in {"begin", "lock"}
  <2>1. /\ gui.current \in Blocks!Codes \cup {"none"} /\ gui.family \in Families
    BY CountryNames
  <2>2. ASSUME NEW kind \in {"countries", "export"}, Blocks!Wait(kind)
        PROVE  /\ Blocks!OpIsHonest(Blocks!Started(kind)) /\ Blocks!Started(kind).at = "begin"
               /\ op' = [op EXCEPT ![Blocks!Fresh] = Blocks!Started(kind)]
    <3>1. kind = "export" => gui.current \in Blocks!Codes
      BY <2>1, <2>2 DEF Blocks!Wait
    <3>2. kind \in {"query", "countries", "export", "release"}
      OBVIOUS
    <3>3. Blocks!OpIsHonest(Blocks!Started(kind)) /\ Blocks!Started(kind).at = "begin"
      BY <2>1, <3>1, <3>2, CountryStarted
    <3> QED BY <2>2, <3>3 DEF Blocks!Wait
  <2>3. CASE Blocks!Release
    <3> DEFINE x == [Blocks!Started("release") EXCEPT !.at = "lock"]
    <3>1. Blocks!OpIsHonest(x)
      BY <2>1, CountryStarted
    <3>2. x.at = "lock"
      BY DEF Blocks!Started
    <3>3. op' = [Blocks!Stop EXCEPT ![Blocks!Fresh] = x]
      BY <2>3 DEF Blocks!Release
    <3> QED BY <3>1, <3>2, <3>3
  <2> QED BY <2>2, <2>3
<1>3. Blocks!Fresh \in Blocks!Ops /\ op[Blocks!Fresh] = Blocks!Off
  BY <1>0, CountryFresh
<1>5. Blocks!OpsAreHonest' /\ Blocks!SlotIsLive' /\ Blocks!PostedOnce'
  <2>1. x \notin {Blocks!Off, Blocks!Over}
    BY <1>1 DEF Blocks!Off, Blocks!Over
  <2> QED BY <1>0, <1>1, <1>3, <2>1, CountryStep
<1>6. gui' = [gui EXCEPT !.busy = Blocks!Fresh, !.current = gui.current, !.family = gui.family,
                         !.pane = gui.pane, !.shows = gui.shows]
  BY <1>0 DEF Blocks!IInv, Blocks!DialogIsWhole
<1>7. gui'.busy = Blocks!Fresh /\ gui'.shows = gui.shows /\ Blocks!DialogIsWhole'
  BY <1>6, CountryGui, CountryNames
<1>8. Blocks!TypeOK'
  BY <1>0, <1>3, <1>7 DEF Blocks!TypeOK, Blocks!IInv
<1>9. Blocks!ShownIsComplete' /\ Blocks!CacheIsComplete'
  BY <1>0, <1>7, CountryPane, CountryKept
<1> QED BY <1>5, <1>7, <1>8, <1>9 DEF Blocks!IInv

\* A new database takes over from the old one, whose walks may go on.
LEMMA CountryOpens ==
  ASSUME Blocks!CountryAssumption, Blocks!IInv, Blocks!OpenDatabase PROVE Blocks!IInv'
<1>1. /\ db' = db + 1 /\ db' \in Blocks!Dbs /\ op' = Blocks!Stop /\ closed' = closed \cup {db}
      /\ UNCHANGED <<kept, mu, slot, gui, posted>>
  BY DEF Blocks!OpenDatabase
<1>2. Blocks!TypeOK'
  <2>1. 1..(db' - 1) = 1..db /\ db \in 1..db /\ 1..(db - 1) \subseteq 1..db
    BY <1>1, CountryTyped DEF Blocks!IInv
  <2> QED BY <1>1, <2>1 DEF Blocks!IInv, Blocks!TypeOK
<1>3. /\ DOMAIN op' = Blocks!Ops
      /\ \A o \in Blocks!Ops : /\ Blocks!OpIsHonest(op'[o])
                               /\ op[o] \notin {Blocks!Off, Blocks!Over} => op'[o].at = op[o].at /\ op'[o].kind = op[o].kind
  BY <1>1, CountryStop DEF Blocks!IInv
<1>4. Blocks!OpsAreHonest'
  <2>1. ASSUME NEW o \in Blocks!Ops PROVE Blocks!OpIsHonest(op[o])'
    <3>1. Blocks!OpIsHonest(op'[o])
      BY <1>3
    <3>2. CASE op'[o] \in {Blocks!Off, Blocks!Over}
      BY <3>2 DEF Blocks!OpIsHonest
    <3>3. CASE op'[o] \notin {Blocks!Off, Blocks!Over}
      <4> DEFINE x == op'[o]
      <4>1. x \in Blocks!OpRecords
        BY <3>1, <3>3 DEF Blocks!OpIsHonest
      <4>2. x.db \in 1..(db + 1)
        BY <4>1, CountryTyped DEF Blocks!OpRecords, Blocks!IInv
      <4>3. op'[o] \in Blocks!OpRecords'
        BY <4>1, <4>2, <1>1 DEF Blocks!OpRecords
      <4> QED BY <3>1, <3>3, <4>3 DEF Blocks!OpIsHonest, Blocks!BlocksOf
    <3> QED BY <3>2, <3>3
  <2> QED BY <1>3, <2>1 DEF Blocks!OpsAreHonest, Blocks!Ops
<1>5. ASSUME NEW o \in Blocks!Ops, op[o].at \in {"lock", "walk", "unlock", "posted"}
      PROVE  op'[o].at = op[o].at /\ op'[o].kind = op[o].kind
  <2>1. op[o] \notin {Blocks!Off, Blocks!Over}
    BY <1>5 DEF Blocks!Off, Blocks!Over
  <2> QED BY <1>3, <2>1
<1>6. Blocks!SlotIsLive'
  <2>1. slot \in {0} \cup Blocks!Ops
    BY DEF Blocks!IInv, Blocks!TypeOK
  <2> QED BY <1>1, <1>5, <2>1 DEF Blocks!IInv, Blocks!SlotIsLive
<1>7. Blocks!PostedOnce'
  <2>1. posted \in Seq(Blocks!Ops) /\ \A i \in DOMAIN posted : posted[i] \in Blocks!Ops
    BY DEF Blocks!IInv, Blocks!PostedOnce
  <2> QED BY <1>1, <1>5, <2>1 DEF Blocks!IInv, Blocks!PostedOnce, Blocks!Ops
<1>8. Blocks!CacheIsComplete' /\ Blocks!ShownIsComplete'
  BY <1>1, CountryKept, CountryPane
<1>9. Blocks!DialogIsWhole'
  BY <1>1 DEF Blocks!IInv, Blocks!DialogIsWhole
<1> QED BY <1>2, <1>4, <1>6, <1>7, <1>8, <1>9 DEF Blocks!IInv

\* The blocks that reach the dialog are a query's, which is complete.
LEMMA CountryApply ==
  ASSUME Blocks!CountryAssumption, Blocks!IInv, Blocks!Apply PROVE Blocks!IInv'
<1> DEFINE h == Head(posted)
<1>1. /\ posted # <<>> /\ posted' = Tail(posted) /\ op' = [op EXCEPT ![h] = Blocks!Over]
      /\ UNCHANGED <<db, closed, kept, mu, slot>>
  BY DEF Blocks!Apply
<1>2. /\ posted \in Seq(Blocks!Ops) /\ h = posted[1] /\ 1 \in DOMAIN posted /\ h \in Blocks!Ops
      /\ op[h].at = "posted" /\ op[h].kind = "query"
  BY <1>1 DEF Blocks!IInv, Blocks!PostedOnce
<1>3. /\ Tail(posted) \in Seq(Blocks!Ops)
      /\ \A i \in DOMAIN Tail(posted) : /\ i \in DOMAIN posted /\ i + 1 \in DOMAIN posted
                                        /\ Tail(posted)[i] = posted[i + 1] /\ i + 1 # 1
  BY <1>1, <1>2
<1>4. /\ Blocks!OpIsHonest(op[h]) /\ op[h] \notin {Blocks!Off, Blocks!Over}
  BY <1>2 DEF Blocks!IInv, Blocks!OpsAreHonest, Blocks!Off, Blocks!Over
<1>5. DOMAIN op' = Blocks!Ops /\ op'[h] = Blocks!Over /\ \A o \in Blocks!Ops : o # h => op'[o] = op[o]
  BY <1>1, <1>2 DEF Blocks!IInv, Blocks!OpsAreHonest
<1> HIDE DEF h
<1>6. Blocks!OpsAreHonest'
  <2>1. \A o \in Blocks!Ops : Blocks!OpIsHonest(op'[o])
    BY <1>5 DEF Blocks!IInv, Blocks!OpsAreHonest, Blocks!OpIsHonest
  <2>2. ASSUME NEW o \in Blocks!Ops PROVE Blocks!OpIsHonest(op[o])'
    <3>1. Blocks!OpIsHonest(op'[o])
      BY <2>1
    <3> QED BY <1>1, <3>1 DEF Blocks!OpIsHonest, Blocks!OpRecords, Blocks!BlocksOf
  <2> QED BY <1>5, <2>2 DEF Blocks!OpsAreHonest, Blocks!Ops
<1>7. Blocks!SlotIsLive'
  <2>1. slot # h
    BY <1>2, CountryTyped DEF Blocks!IInv, Blocks!SlotIsLive
  <2>2. slot \in {0} \cup Blocks!Ops
    BY DEF Blocks!IInv, Blocks!TypeOK
  <2> QED BY <1>1, <1>5, <2>1, <2>2 DEF Blocks!IInv, Blocks!SlotIsLive
<1>8. Blocks!PostedOnce'
  <2>1. \A i \in DOMAIN Tail(posted) : Tail(posted)[i] # h /\ Tail(posted)[i] \in Blocks!Ops
    BY <1>2, <1>3 DEF Blocks!IInv, Blocks!PostedOnce
  <2>2. \A i, j \in DOMAIN Tail(posted) : Tail(posted)[i] = Tail(posted)[j] => i = j
    <3>1. SUFFICES ASSUME NEW i \in DOMAIN Tail(posted), NEW j \in DOMAIN Tail(posted),
                          Tail(posted)[i] = Tail(posted)[j]
                   PROVE  i = j
      OBVIOUS
    <3>2. i + 1 = j + 1
      BY <1>3, <3>1 DEF Blocks!IInv, Blocks!PostedOnce
    <3>3. i \in Nat /\ j \in Nat
      BY <1>3
    <3> QED BY <3>2, <3>3
  <2>3. ASSUME NEW i \in DOMAIN Tail(posted)
        PROVE  op'[Tail(posted)[i]].at = "posted" /\ op'[Tail(posted)[i]].kind = "query"
    BY <1>3, <1>5, <2>1 DEF Blocks!IInv, Blocks!PostedOnce
  <2> QED BY <1>1, <1>3, <2>2, <2>3 DEF Blocks!PostedOnce, Blocks!Ops
<1>9. PICK pane, shows :
        /\ gui' = [gui EXCEPT !.pane = pane, !.shows = shows]
        /\ \/ shows = gui.shows \/ shows = Blocks!NoBlocks
           \/ /\ op[h].result = "shown"
              /\ shows = Blocks!Shown(op[h].country, Blocks!Paginate(op[h].out, op[h].family))
  <2>1. gui = [gui EXCEPT !.pane = gui.pane, !.shows = gui.shows]
    BY DEF Blocks!IInv, Blocks!DialogIsWhole
  <2>2. \/ gui' = gui
        \/ gui' = [gui EXCEPT !.pane = op[h].result, !.shows = Blocks!NoBlocks]
        \/ /\ op[h].result = "shown"
           /\ gui' = [gui EXCEPT !.pane = op[h].result,
                        !.shows = Blocks!Shown(op[h].country, Blocks!Paginate(op[h].out, op[h].family))]
    BY DEF Blocks!Apply, h
  <2> QED BY <2>1, <2>2
<1>10. gui' = [gui EXCEPT !.busy = gui.busy, !.current = gui.current, !.family = gui.family,
                          !.pane = pane, !.shows = shows]
  BY <1>9 DEF Blocks!IInv, Blocks!DialogIsWhole
<1>11. gui'.busy = gui.busy /\ gui'.shows = shows /\ Blocks!DialogIsWhole'
  BY <1>10, CountryGui, CountryNames
<1>12. Blocks!TypeOK' /\ Blocks!CacheIsComplete'
  BY <1>1, <1>11, CountryKept DEF Blocks!IInv, Blocks!TypeOK
<1>13. Blocks!ShownIsComplete'
  <2>1. CASE shows = gui.shows
    BY <1>1, <1>11, <2>1, CountryPane
  <2>2. CASE shows = Blocks!NoBlocks
    BY <1>11, <2>2 DEF Blocks!ShownIsComplete, Blocks!NoBlocks
  <2>3. CASE op[h].result = "shown" /\ shows = Blocks!Shown(op[h].country, Blocks!Paginate(op[h].out, op[h].family))
    <3>1. op[h].db \in 1..db /\ op[h].family \in Families
      BY <1>4 DEF Blocks!OpIsHonest, Blocks!OpRecords
    <3>2. op[h].country # Unknown => op[h].out = Blocks!BlocksOf(op[h].db, op[h].country)
      BY <1>2, <1>4, <2>3 DEF Blocks!OpIsHonest
    <3> DEFINE page == Blocks!Paginate(op[h].out, op[h].family)
    <3>3. shows.country = op[h].country /\ shows.blocks = page.blocks /\ shows.more = page.more
      BY <2>3 DEF Blocks!Shown
    <3> HIDE DEF page
    <3>4. SUFFICES ASSUME shows.country \notin {"none", Unknown}
                   PROVE  \E d \in 1..db : \E family \in Families :
                            /\ shows.blocks = Blocks!Paginate(Blocks!BlocksOf(d, shows.country), family).blocks
                            /\ shows.more = Blocks!Paginate(Blocks!BlocksOf(d, shows.country), family).more
      BY <1>1, <1>11 DEF Blocks!ShownIsComplete
    <3>5. page = Blocks!Paginate(Blocks!BlocksOf(op[h].db, shows.country), op[h].family)
      BY <3>2, <3>3, <3>4 DEF page
    <3> QED BY <3>1, <3>3, <3>5
  <2> QED BY <1>9, <2>1, <2>2, <2>3
<1> QED BY <1>6, <1>7, <1>8, <1>11, <1>12, <1>13 DEF Blocks!IInv

\* What a step of an operation that leaves the dialog alone still has to show.
LEMMA CountryFrame ==
  ASSUME Blocks!CountryAssumption, Blocks!IInv, UNCHANGED <<db, closed, gui>>,
         Blocks!OpsAreHonest', Blocks!SlotIsLive', Blocks!PostedOnce', Blocks!CacheIsComplete',
         mu' \in [Blocks!Dbs -> {0} \cup Blocks!Ops], slot' \in {0} \cup Blocks!Ops
  PROVE  Blocks!IInv'
<1>1. Blocks!ShownIsComplete'
  BY CountryPane
<1>2. Blocks!DialogIsWhole'
  BY DEF Blocks!IInv, Blocks!DialogIsWhole
<1>3. Blocks!TypeOK'
  BY DEF Blocks!IInv, Blocks!TypeOK, Blocks!CacheIsComplete, Blocks!Dbs, Blocks!Ops, Blocks!Codes
<1> QED BY <1>1, <1>2, <1>3 DEF Blocks!IInv

\* An operation that begins takes the slot.
LEMMA CountryBegin ==
  ASSUME Blocks!CountryAssumption, Blocks!IInv, NEW o \in Blocks!Ops, Blocks!Begin(o) PROVE Blocks!IInv'
<1>1. /\ op[o].at = "begin" /\ op' = [Blocks!Stop EXCEPT ![o].at = "lock"] /\ slot' = o
      /\ UNCHANGED <<db, closed, kept, mu, gui, posted>>
  BY DEF Blocks!Begin
<1> DEFINE x == [Blocks!Stop[o] EXCEPT !.at = "lock"]
<1>2. op' = [Blocks!Stop EXCEPT ![o] = x]
  BY <1>1, CountryStop DEF Blocks!IInv
<1>3. /\ Blocks!OpIsHonest(Blocks!Stop[o]) /\ Blocks!Stop[o].at = "begin" /\ Blocks!Stop[o] \notin {Blocks!Off, Blocks!Over}
      /\ Blocks!Stop[o] \in Blocks!OpRecords
  <2>1. op[o] \notin {Blocks!Off, Blocks!Over}
    BY <1>1 DEF Blocks!Off, Blocks!Over
  <2>2. Blocks!OpIsHonest(Blocks!Stop[o]) /\ Blocks!Stop[o].at = "begin" /\ Blocks!Stop[o] \notin {Blocks!Off, Blocks!Over}
    BY <1>1, <2>1, CountryStop DEF Blocks!IInv
  <2> QED BY <2>2 DEF Blocks!OpIsHonest
<1>4. /\ x \in Blocks!OpRecords /\ x.at = "lock" /\ x.kind = Blocks!Stop[o].kind /\ x.country = Blocks!Stop[o].country
      /\ x.next = Blocks!Stop[o].next /\ x.out = Blocks!Stop[o].out
  BY <1>3 DEF Blocks!OpRecords
<1>5. Blocks!OpIsHonest(x) /\ x \notin {Blocks!Off, Blocks!Over}
  <2>1. x \notin {Blocks!Off, Blocks!Over}
    BY <1>4 DEF Blocks!Off, Blocks!Over
  <2> HIDE DEF x
  <2> QED BY <1>3, <1>4, <2>1 DEF Blocks!OpIsHonest
<1> HIDE DEF x
<1>6. Blocks!OpsAreHonest' /\ Blocks!SlotIsLive' /\ Blocks!PostedOnce'
  BY <1>1, <1>2, <1>4, <1>5, CountryStep
<1>7. Blocks!CacheIsComplete'
  BY <1>1, CountryKept
<1> QED BY <1>1, <1>6, <1>7, CountryFrame DEF Blocks!IInv, Blocks!TypeOK

\* A live operation's record, before its next step.
LEMMA CountryLive ==
  ASSUME Blocks!CountryAssumption, Blocks!IInv, NEW o \in Blocks!Ops, op[o].at \in {"lock", "walk", "unlock"}
  PROVE  /\ op[o] \notin {Blocks!Off, Blocks!Over} /\ op[o] \in Blocks!OpRecords /\ Blocks!OpIsHonest(op[o])
         /\ op[o].db \in Blocks!Dbs /\ op[o].db \in 1..db
<1>1. op[o] \notin {Blocks!Off, Blocks!Over}
  BY DEF Blocks!Off, Blocks!Over
<1>2. Blocks!OpIsHonest(op[o]) /\ op[o] \in Blocks!OpRecords
  BY <1>1 DEF Blocks!IInv, Blocks!OpsAreHonest, Blocks!OpIsHonest
<1>3. op[o].db \in 1..db /\ 1..db \subseteq Blocks!Dbs
  BY <1>2, CountryTyped DEF Blocks!OpRecords, Blocks!IInv
<1> QED BY <1>1, <1>2, <1>3

\* A step of an operation that holds its place in the slot and posts nothing.
LEMMA CountryMoves ==
  ASSUME Blocks!CountryAssumption, Blocks!IInv, NEW o \in Blocks!Ops, NEW x, op' = [op EXCEPT ![o] = x],
         op[o].at \in {"lock", "walk"}, x.at \in {"walk", "unlock"}, Blocks!OpIsHonest(x),
         UNCHANGED <<db, closed, slot, gui, posted>>,
         mu' = mu \/ mu' = [mu EXCEPT ![op[o].db] = o], Blocks!CacheIsComplete'
  PROVE  Blocks!IInv'
<1>1. x \notin {Blocks!Off, Blocks!Over}
  BY DEF Blocks!Off, Blocks!Over
<1>2. Blocks!OpsAreHonest' /\ Blocks!SlotIsLive' /\ Blocks!PostedOnce'
  BY <1>1, CountryStep
<1>3. mu' \in [Blocks!Dbs -> {0} \cup Blocks!Ops]
  BY DEF Blocks!IInv, Blocks!TypeOK
<1> QED BY <1>2, <1>3, CountryFrame DEF Blocks!IInv, Blocks!TypeOK

\* A step that ends a walk with a result that is not a query's blocks.
LEMMA CountryGivesUp ==
  ASSUME Blocks!CountryAssumption, Blocks!IInv, NEW o \in Blocks!Ops,
         op[o].at \in {"lock", "walk"},
         NEW r \in {"shown", "cancelled", "error"}, r = "shown" => op[o].kind # "query",
         NEW y, y = op[o] \/ y = [op[o] EXCEPT !.out = {}],
         NEW x, x = [y EXCEPT !.at = "unlock", !.result = r]
  PROVE  Blocks!OpIsHonest(x) /\ x.at = "unlock"
<1>1. op[o] \in Blocks!OpRecords /\ Blocks!OpIsHonest(op[o]) /\ op[o] \notin {Blocks!Off, Blocks!Over}
  BY CountryLive
<1>2. y \in Blocks!OpRecords /\ y.kind = op[o].kind /\ y.country = op[o].country
  BY <1>1 DEF Blocks!OpRecords
<1>3. x \in Blocks!OpRecords /\ x.at = "unlock" /\ x.kind = y.kind /\ x.country = y.country /\ x.result = r
  BY <1>2 DEF Blocks!OpRecords
<1>4. Blocks!OpIsHonest(x)
  BY <1>1, <1>2, <1>3 DEF Blocks!OpIsHonest
<1> QED BY <1>3, <1>4

\* Under the lock the cache answers for the country it was filled for.
LEMMA CountryLock ==
  ASSUME Blocks!CountryAssumption, Blocks!IInv, NEW o \in Blocks!Ops, Blocks!Lock(o) PROVE Blocks!IInv'
<1> DEFINE d == op[o].db
<1>1. /\ op[o].at = "lock" /\ UNCHANGED <<db, closed, slot, gui, posted>>
      /\ mu' = [mu EXCEPT ![op[o].db] = o]
  BY DEF Blocks!Lock
<1>2. /\ op[o] \notin {Blocks!Off, Blocks!Over} /\ op[o] \in Blocks!OpRecords /\ Blocks!OpIsHonest(op[o])
      /\ d \in Blocks!Dbs /\ d \in 1..db
  BY <1>1, CountryLive
<1>3. CASE op[o].kind = "release"
  <2>1. /\ kept' = [kept EXCEPT ![d].key = Unknown, ![d].blocks = {}]
        /\ op' = [op EXCEPT ![o].at = "unlock", ![o].result = "shown"]
    BY <1>3 DEF Blocks!Lock
  <2> DEFINE x == [op[o] EXCEPT !.at = "unlock", !.result = "shown"]
  <2>2. op' = [op EXCEPT ![o] = x]
    BY <2>1 DEF Blocks!IInv, Blocks!OpsAreHonest
  <2>3. Blocks!OpIsHonest(x) /\ x.at = "unlock"
    BY <1>1, <1>3, CountryGivesUp
  <2>4. Blocks!CacheIsComplete'
    <3> HIDE DEF d
    <3>1. kept \in [Blocks!Dbs -> [loaded : BOOLEAN, key : Blocks!Codes \cup {Unknown}, blocks : SUBSET Nat]]
      BY DEF Blocks!IInv, Blocks!CacheIsComplete
    <3>2. /\ kept' \in [Blocks!Dbs -> [loaded : BOOLEAN, key : Blocks!Codes \cup {Unknown}, blocks : SUBSET Nat]]
          /\ kept'[d].key = Unknown /\ \A e \in Blocks!Dbs : e # d => kept'[e] = kept[e]
      BY <1>2, <2>1, <3>1
    <3> QED BY <3>2 DEF Blocks!IInv, Blocks!CacheIsComplete, Blocks!BlocksOf, Blocks!Dbs,
               Blocks!Codes
  <2> HIDE DEF x
  <2> QED BY <1>1, <2>2, <2>3, <2>4, CountryMoves
<1>4. CASE op[o].kind # "release"
  <2>1. kept' = kept
    BY <1>4 DEF Blocks!Lock
  <2>2. Blocks!CacheIsComplete'
    BY <2>1, CountryKept
  <2>3. CASE op' = [op EXCEPT ![o].at = "walk"]
    <3> DEFINE x == [op[o] EXCEPT !.at = "walk"]
    <3>1. op' = [op EXCEPT ![o] = x]
      BY <2>3 DEF Blocks!IInv, Blocks!OpsAreHonest
    <3>2. /\ x \in Blocks!OpRecords /\ x.at = "walk" /\ x.kind = op[o].kind /\ x.country = op[o].country
          /\ x.next = op[o].next /\ x.out = op[o].out /\ x.db = op[o].db
      BY <1>2 DEF Blocks!OpRecords
    <3> HIDE DEF x
    <3>3. op[o].next = 1 /\ op[o].out = {}
      BY <1>1, <1>2 DEF Blocks!OpIsHonest
    <3>4. /\ 1 <= Len(Owners[d]) + 1 
          /\ {n \in Blocks!BlocksOf(d, op[o].country) : n < 1} = {}
      <4>1. Owners[d] \in Seq(Blocks!Codes)
        BY <1>2, CountryTyped DEF Blocks!IInv
      <4>2. Len(Owners[d]) \in Nat /\ DOMAIN Owners[d] = 1..Len(Owners[d])
        BY <4>1
      <4> QED BY <4>2 DEF Blocks!BlocksOf
    <3>5. Blocks!OpIsHonest(x)
      BY <1>2, <1>4, <3>2, <3>3, <3>4 DEF Blocks!OpIsHonest
    <3> QED BY <1>1, <2>2, <3>1, <3>2, <3>5, CountryMoves
  <2>4. CASE op' # [op EXCEPT ![o].at = "walk"]
    <3>1. /\ op[o].kind # "countries" => kept[d].key = op[o].country
          /\ op' = [op EXCEPT ![o].at = "unlock", ![o].result = "shown", ![o].out = kept[d].blocks]
      BY <1>4, <2>4 DEF Blocks!Lock
    <3> DEFINE x == [op[o] EXCEPT !.at = "unlock", !.result = "shown", !.out = kept[d].blocks]
    <3>2. op' = [op EXCEPT ![o] = x]
      BY <3>1 DEF Blocks!IInv, Blocks!OpsAreHonest
    <3>3. kept[d].blocks \in SUBSET Nat
      BY <1>2 DEF Blocks!IInv, Blocks!CacheIsComplete
    <3>4. /\ x \in Blocks!OpRecords /\ x.at = "unlock" /\ x.kind = op[o].kind /\ x.country = op[o].country
          /\ x.out = kept[d].blocks /\ x.db = d
      BY <1>2, <3>3 DEF Blocks!OpRecords
    <3> HIDE DEF x
    <3>5. x.kind = "query" /\ x.country # Unknown => x.out = Blocks!BlocksOf(x.db, x.country)
      BY <1>2, <3>1, <3>4 DEF Blocks!IInv, Blocks!CacheIsComplete
    <3>6. Blocks!OpIsHonest(x)
      BY <1>2, <3>4, <3>5 DEF Blocks!OpIsHonest
    <3> QED BY <1>1, <2>2, <3>2, <3>4, <3>6, CountryMoves
  <2> QED BY <2>3, <2>4
<1> QED BY <1>3, <1>4

\* A walk goes through the rows of the database it was begun on.
LEMMA CountryWalk ==
  ASSUME Blocks!CountryAssumption, Blocks!IInv, NEW o \in Blocks!Ops, Blocks!Walk(o) PROVE Blocks!IInv'
<1> DEFINE d == op[o].db
           n == op[o].next
<1>1. /\ op[o].at = "walk" /\ n <= Len(Owners[d])
      /\ UNCHANGED <<db, closed, kept, mu, slot, gui, posted>>
  BY DEF Blocks!Walk
<1>2. /\ op[o] \notin {Blocks!Off, Blocks!Over} /\ op[o] \in Blocks!OpRecords /\ Blocks!OpIsHonest(op[o])
      /\ d \in Blocks!Dbs
  BY <1>1, CountryLive
<1>3. Blocks!CacheIsComplete'
  BY <1>1, CountryKept
<1>4. CASE op[o].cancelled
  <2> DEFINE y == [op[o] EXCEPT !.out = {}]
             x == [y EXCEPT !.at = "unlock", !.result = "cancelled"]
  <2>1. op' = [op EXCEPT ![o].at = "unlock", ![o].result = "cancelled", ![o].out = {}]
    BY <1>4 DEF Blocks!Walk
  <2>2. op' = [op EXCEPT ![o] = x]
    BY <2>1 DEF Blocks!IInv, Blocks!OpsAreHonest
  <2>3. Blocks!OpIsHonest(x) /\ x.at = "unlock"
    <3>1. y = [op[o] EXCEPT !.out = {}]
      OBVIOUS
    <3>2. "cancelled" \in {"shown", "cancelled", "error"} /\ "cancelled" # "shown"
      OBVIOUS
    <3>3. op[o].at \in {"lock", "walk"}
      BY <1>1
    <3>4. x = [y EXCEPT !.at = "unlock", !.result = "cancelled"]
      OBVIOUS
    <3> HIDE DEF x, y
    <3> QED BY <3>1, <3>2, <3>3, <3>4, CountryGivesUp
  <2> HIDE DEF x
  <2> QED BY <1>1, <1>3, <2>2, <2>3, CountryMoves
<1>5. CASE ~op[o].cancelled
  <2> DEFINE new == IF Owners[d][n] = op[o].country THEN op[o].out \cup {n} ELSE op[o].out
             x == [op[o] EXCEPT !.next = n + 1, !.out = new]
  <2>1. op' = [op EXCEPT ![o] = x]
    BY <1>5 DEF Blocks!Walk, Blocks!IInv, Blocks!OpsAreHonest
  <2>2. n \in Nat \ {0} /\ op[o].out \in SUBSET Nat
    BY <1>2 DEF Blocks!OpRecords
  <2>3. new \in SUBSET Nat
    BY <2>2
  <2>4. new = {m \in Blocks!BlocksOf(d, op[o].country) : m < n + 1}
    <3>1. op[o].out = {m \in Blocks!BlocksOf(d, op[o].country) : m < n}
      BY <1>1, <1>2 DEF Blocks!OpIsHonest
    <3>2. Owners[d] \in Seq(Blocks!Codes)
      BY <1>2, CountryTyped DEF Blocks!IInv
    <3>3. Len(Owners[d]) \in Nat /\ DOMAIN Owners[d] = 1..Len(Owners[d])
      BY <3>2
    <3>4. n \in Blocks!BlocksOf(d, op[o].country) <=> Owners[d][n] = op[o].country
      BY <1>1, <2>2, <3>3 DEF Blocks!BlocksOf
    <3>5. \A m \in Blocks!BlocksOf(d, op[o].country) : m \in Nat /\ (m < n + 1 <=> m < n \/ m = n)
      BY <2>2, <3>3 DEF Blocks!BlocksOf
    <3> QED BY <2>2, <3>1, <3>4, <3>5
  <2> HIDE DEF new
  <2>5. /\ x \in Blocks!OpRecords /\ x.at = "walk" /\ x.kind = op[o].kind /\ x.country = op[o].country
        /\ x.next = n + 1 /\ x.out = new /\ x.db = d
    <3>1. n + 1 \in Nat \ {0}
      BY <2>2
    <3> HIDE DEF n
    <3> QED BY <1>1, <1>2, <2>3, <3>1 DEF Blocks!OpRecords
  <2> HIDE DEF x
  <2>6. n + 1 <= Len(Owners[d]) + 1
    <3>1. Owners[d] \in Seq(Blocks!Codes)
      BY <1>2, CountryTyped DEF Blocks!IInv
    <3>2. Len(Owners[d]) \in Nat
      BY <3>1
    <3> QED BY <1>1, <2>2, <3>2
  <2>7. Blocks!OpIsHonest(x)
    BY <1>1, <1>2, <2>4, <2>5, <2>6 DEF Blocks!OpIsHonest
  <2> QED BY <1>1, <1>3, <2>1, <2>5, <2>7, CountryMoves
<1> QED BY <1>4, <1>5

\* The walk of a database that was closed under it fails.
LEMMA CountryWalkClosed ==
  ASSUME Blocks!CountryAssumption, Blocks!IInv, NEW o \in Blocks!Ops, Blocks!WalkClosed(o) PROVE Blocks!IInv'
<1> DEFINE x == [op[o] EXCEPT !.at = "unlock", !.result = "error"]
<1>1. /\ op[o].at = "walk" /\ UNCHANGED <<db, closed, kept, mu, slot, gui, posted>>
      /\ op' = [op EXCEPT ![o].at = "unlock", ![o].result = "error"]
  BY DEF Blocks!WalkClosed
<1>2. op' = [op EXCEPT ![o] = x]
  BY <1>1 DEF Blocks!IInv, Blocks!OpsAreHonest
<1>3. Blocks!OpIsHonest(x) /\ x.at = "unlock"
  BY <1>1, CountryGivesUp
<1>4. Blocks!CacheIsComplete'
  BY <1>1, CountryKept
<1> HIDE DEF x
<1> QED BY <1>1, <1>2, <1>3, <1>4, CountryMoves

\* A walk that ended is kept under its country, unless it was given up.
LEMMA CountryKeep ==
  ASSUME Blocks!CountryAssumption, Blocks!IInv, NEW o \in Blocks!Ops, Blocks!Keep(o) PROVE Blocks!IInv'
<1> DEFINE d == op[o].db
           x == [op[o] EXCEPT !.at = "unlock", !.result = "shown"]
<1>1. /\ op[o].at = "walk" /\ op[o].next > Len(Owners[d])
      /\ UNCHANGED <<db, closed, mu, slot, gui, posted>>
      /\ op' = [op EXCEPT ![o].at = "unlock", ![o].result = "shown"]
  BY DEF Blocks!Keep
<1>2. /\ op[o] \notin {Blocks!Off, Blocks!Over} /\ op[o] \in Blocks!OpRecords /\ Blocks!OpIsHonest(op[o])
      /\ d \in Blocks!Dbs
  BY <1>1, CountryLive
<1>3. op' = [op EXCEPT ![o] = x]
  BY <1>1 DEF Blocks!IInv, Blocks!OpsAreHonest
<1>4. op[o].out = Blocks!BlocksOf(d, op[o].country)
  <2>1. op[o].out = {m \in Blocks!BlocksOf(d, op[o].country) : m < op[o].next}
    BY <1>1, <1>2 DEF Blocks!OpIsHonest
  <2>2. Owners[d] \in Seq(Blocks!Codes)
    BY <1>2, CountryTyped DEF Blocks!IInv
  <2>3. Len(Owners[d]) \in Nat /\ DOMAIN Owners[d] = 1..Len(Owners[d])
    BY <2>2
  <2>4. op[o].next \in Nat
    BY <1>2 DEF Blocks!OpRecords
  <2>5. \A m \in Blocks!BlocksOf(d, op[o].country) : m < op[o].next
    BY <1>1, <2>3, <2>4 DEF Blocks!BlocksOf
  <2> QED BY <2>1, <2>5
<1>5. /\ x \in Blocks!OpRecords /\ x.at = "unlock" /\ x.kind = op[o].kind /\ x.country = op[o].country
      /\ x.out = op[o].out /\ x.db = d
  BY <1>2 DEF Blocks!OpRecords
<1> HIDE DEF x
<1>6. Blocks!OpIsHonest(x)
  BY <1>2, <1>4, <1>5 DEF Blocks!OpIsHonest
<1>7. Blocks!CacheIsComplete'
  <2>1. kept \in [Blocks!Dbs -> [loaded : BOOLEAN, key : Blocks!Codes \cup {Unknown}, blocks : SUBSET Nat]]
    BY DEF Blocks!IInv, Blocks!CacheIsComplete
  <2>2. CASE op[o].kind = "countries"
    <3>1. kept' = [kept EXCEPT ![d].loaded = TRUE]
      BY <2>2 DEF Blocks!Keep
    <3> HIDE DEF d
    <3>2. kept' = [kept EXCEPT ![d] = [kept[d] EXCEPT !.loaded = TRUE]]
      BY <1>2, <2>1, <3>1
    <3>3. /\ [kept[d] EXCEPT !.loaded = TRUE] \in [loaded : BOOLEAN, key : Blocks!Codes \cup {Unknown}, blocks : SUBSET Nat]
          /\ [kept[d] EXCEPT !.loaded = TRUE].key = kept[d].key
          /\ [kept[d] EXCEPT !.loaded = TRUE].blocks = kept[d].blocks
      BY <1>2, <2>1
    <3>4. /\ kept' \in [Blocks!Dbs -> [loaded : BOOLEAN, key : Blocks!Codes \cup {Unknown}, blocks : SUBSET Nat]]
          /\ \A e \in Blocks!Dbs : kept'[e].key = kept[e].key /\ kept'[e].blocks = kept[e].blocks
      BY <1>2, <2>1, <3>2, <3>3
    <3> QED BY <3>4 DEF Blocks!IInv, Blocks!CacheIsComplete, Blocks!BlocksOf, Blocks!Dbs,
               Blocks!Codes
  <2>3. CASE op[o].kind # "countries"
    <3> DEFINE k == [kept[d] EXCEPT !.key = op[o].country, !.blocks = op[o].out]
    <3>1. kept' = [kept EXCEPT ![d].key = op[o].country, ![d].blocks = op[o].out]
      BY <2>3 DEF Blocks!Keep
    <3>2. kept' = [kept EXCEPT ![d] = k]
      BY <1>2, <2>1, <3>1
    <3>3. op[o].country \in Blocks!Codes /\ op[o].out \in SUBSET Nat
      BY <1>1, <1>2, <2>3 DEF Blocks!OpIsHonest, Blocks!OpRecords
    <3>4. /\ k \in [loaded : BOOLEAN, key : Blocks!Codes \cup {Unknown}, blocks : SUBSET Nat]
          /\ k.key = op[o].country /\ k.blocks = op[o].out
      BY <1>2, <2>1, <3>3
    <3> HIDE DEF k
    <3>5. /\ kept' \in [Blocks!Dbs -> [loaded : BOOLEAN, key : Blocks!Codes \cup {Unknown}, blocks : SUBSET Nat]]
          /\ kept'[d] = k /\ \A e \in Blocks!Dbs : e # d => kept'[e] = kept[e]
      BY <1>2, <2>1, <3>2, <3>4
    <3>6. \A e \in Blocks!Dbs : kept'[e].key # Unknown => kept'[e].blocks = Blocks!BlocksOf(e, kept'[e].key)
      BY <1>2, <1>4, <3>4, <3>5 DEF Blocks!IInv, Blocks!CacheIsComplete
    <3> QED BY <3>5, <3>6 DEF Blocks!CacheIsComplete, Blocks!BlocksOf, Blocks!Dbs, Blocks!Codes
  <2> QED BY <2>2, <2>3
<1> QED BY <1>1, <1>3, <1>5, <1>6, <1>7, CountryMoves

\* The lock is left with a cache that is complete.
LEMMA CountryEnd ==
  ASSUME Blocks!CountryAssumption, Blocks!IInv, NEW o \in Blocks!Ops, Blocks!End(o) PROVE Blocks!IInv'
<1>1. /\ op[o].at = "unlock" /\ mu' = [mu EXCEPT ![op[o].db] = 0]
      /\ slot' = (IF slot = o THEN 0 ELSE slot) /\ UNCHANGED <<db, closed, kept>>
      /\ gui' = (IF gui.busy = o THEN [gui EXCEPT !.busy = 0] ELSE gui)
  BY DEF Blocks!End
<1>2. /\ op[o] \notin {Blocks!Off, Blocks!Over} /\ op[o] \in Blocks!OpRecords /\ Blocks!OpIsHonest(op[o])
  BY <1>1, CountryLive
<1>3. PICK x :
        /\ op' = [op EXCEPT ![o] = x] /\ Blocks!OpIsHonest(x)
        /\ \/ posted' = posted
           \/ posted' = Append(posted, o) /\ x.at = "posted" /\ x.kind = "query"
  <2>1. CASE op[o].kind = "query"
    <3> DEFINE x == [op[o] EXCEPT !.at = "posted"]
    <3>1. op' = [op EXCEPT ![o] = x] /\ posted' = Append(posted, o)
      BY <1>1, <2>1 DEF Blocks!End, Blocks!IInv, Blocks!OpsAreHonest
    <3>2. /\ x \in Blocks!OpRecords /\ x.at = "posted" /\ x.kind = "query" /\ x.country = op[o].country
          /\ x.out = op[o].out /\ x.db = op[o].db /\ x.result = op[o].result
      BY <1>2, <2>1 DEF Blocks!OpRecords
    <3> HIDE DEF x
    <3>3. Blocks!OpIsHonest(x)
      BY <1>1, <1>2, <2>1, <3>2 DEF Blocks!OpIsHonest
    <3> QED BY <3>1, <3>2, <3>3
  <2>2. CASE op[o].kind # "query"
    <3>1. op' = [op EXCEPT ![o] = Blocks!Over] /\ posted' = posted
      BY <2>2 DEF Blocks!End
    <3>2. Blocks!OpIsHonest(Blocks!Over)
      BY DEF Blocks!OpIsHonest
    <3> QED BY <3>1, <3>2
  <2> QED BY <2>1, <2>2
<1>4. DOMAIN op' = Blocks!Ops /\ op'[o] = x /\ \A p \in Blocks!Ops : p # o => op'[p] = op[p]
  BY <1>3 DEF Blocks!IInv, Blocks!OpsAreHonest
<1>5. Blocks!OpsAreHonest'
  <2>1. \A p \in Blocks!Ops : Blocks!OpIsHonest(op'[p])
    BY <1>3, <1>4 DEF Blocks!IInv, Blocks!OpsAreHonest
  <2>2. ASSUME NEW p \in Blocks!Ops PROVE Blocks!OpIsHonest(op[p])'
    <3>1. Blocks!OpIsHonest(op'[p])
      BY <2>1
    <3> QED BY <1>1, <3>1 DEF Blocks!OpIsHonest, Blocks!OpRecords, Blocks!BlocksOf
  <2> QED BY <1>4, <2>2 DEF Blocks!OpsAreHonest, Blocks!Ops
<1>6. Blocks!SlotIsLive'
  <2>1. slot \in {0} \cup Blocks!Ops
    BY DEF Blocks!IInv, Blocks!TypeOK
  <2> QED BY <1>1, <1>4, <2>1 DEF Blocks!IInv, Blocks!SlotIsLive
<1>7. \A i \in DOMAIN posted : posted[i] # o /\ posted[i] \in Blocks!Ops
  BY <1>1 DEF Blocks!IInv, Blocks!PostedOnce
<1>8. Blocks!PostedOnce'
  <2>1. CASE posted' = posted
    BY <1>4, <1>7, <2>1 DEF Blocks!IInv, Blocks!PostedOnce, Blocks!Ops
  <2>2. CASE posted' = Append(posted, o) /\ x.at = "posted" /\ x.kind = "query"
    <3>1. posted \in Seq(Blocks!Ops)
      BY DEF Blocks!IInv, Blocks!PostedOnce
    <3>2. /\ posted' \in Seq(Blocks!Ops) /\ Len(posted') = Len(posted) + 1 /\ Len(posted) \in Nat
          /\ DOMAIN posted' = 1..Len(posted) + 1 /\ DOMAIN posted = 1..Len(posted)
          /\ posted'[Len(posted) + 1] = o
          /\ \A i \in DOMAIN posted : posted'[i] = posted[i]
      BY <2>2, <3>1
    <3>3. \A i \in DOMAIN posted' : i \in DOMAIN posted \/ i = Len(posted) + 1
      BY <3>2
    <3>4. \A i, j \in DOMAIN posted' : posted'[i] = posted'[j] => i = j
      BY <1>7, <3>2, <3>3 DEF Blocks!IInv, Blocks!PostedOnce
    <3>5. \A i \in DOMAIN posted' : op'[posted'[i]].at = "posted" /\ op'[posted'[i]].kind = "query"
      BY <1>4, <1>7, <2>2, <3>2, <3>3 DEF Blocks!IInv, Blocks!PostedOnce
    <3> QED BY <3>2, <3>4, <3>5 DEF Blocks!PostedOnce, Blocks!Ops
  <2> QED BY <1>3, <2>1, <2>2
<1>9. PICK busy \in {0} \cup Blocks!Ops :
        gui' = [gui EXCEPT !.busy = busy, !.current = gui.current, !.family = gui.family,
                           !.pane = gui.pane, !.shows = gui.shows]
  <2>1. gui = [busy |-> gui.busy, current |-> gui.current, family |-> gui.family,
               pane |-> gui.pane, shows |-> gui.shows] /\ gui.busy \in {0} \cup Blocks!Ops
    BY DEF Blocks!IInv, Blocks!DialogIsWhole, Blocks!TypeOK
  <2> QED BY <1>1, <2>1
<1>10. gui'.busy = busy /\ gui'.shows = gui.shows /\ Blocks!DialogIsWhole'
  BY <1>9, CountryGui, CountryNames
<1>11. Blocks!TypeOK'
  <2>1. mu' \in [Blocks!Dbs -> {0} \cup Blocks!Ops] /\ slot' \in {0} \cup Blocks!Ops
    BY <1>1 DEF Blocks!IInv, Blocks!TypeOK
  <2> QED BY <1>1, <1>10, <2>1 DEF Blocks!IInv, Blocks!TypeOK
<1>12. Blocks!ShownIsComplete' /\ Blocks!CacheIsComplete'
  BY <1>1, <1>10, CountryPane, CountryKept
<1> QED BY <1>5, <1>6, <1>8, <1>10, <1>11, <1>12 DEF Blocks!IInv

\* Every step preserves the invariant.
LEMMA CountryNext ==
  ASSUME Blocks!CountryAssumption, Blocks!IInv, [Blocks!Next]_Blocks!vars PROVE Blocks!IInv'
<1>1. CASE UNCHANGED Blocks!vars
  <2>1. UNCHANGED <<db, closed, kept, mu, op, slot, gui, posted>>
    BY <1>1 DEF Blocks!vars
  <2>2. Blocks!OpsAreHonest'
    BY <2>1 DEF Blocks!IInv, Blocks!OpsAreHonest, Blocks!OpIsHonest, Blocks!OpRecords
  <2>3. Blocks!SlotIsLive' /\ Blocks!PostedOnce' /\ Blocks!CacheIsComplete'
    BY <2>1, CountryKept DEF Blocks!IInv, Blocks!SlotIsLive, Blocks!PostedOnce
  <2> QED BY <2>1, <2>2, <2>3, CountryFrame DEF Blocks!IInv, Blocks!TypeOK
<1>2. ASSUME NEW o \in Blocks!Ops, Blocks!Operation(o) PROVE Blocks!IInv'
  BY <1>2, CountryBegin, CountryLock, CountryWalk, CountryWalkClosed, CountryKeep, CountryEnd
     DEF Blocks!Operation
<1> QED
  BY <1>1, <1>2, CountrySelects, CountryWaits, CountryOpens, CountryApply DEF Blocks!Next

\* Whatever was cancelled, cleared or replaced before, the blocks shown for a
\* known country are complete, whatever the databases and however many walks.
THEOREM CountriesAreComplete == Blocks!Spec => []ShownIsComplete
<1>1. Blocks!Init => Blocks!IInv
  BY DialogsAssumption, CountryInit
<1>2. Blocks!IInv /\ [Blocks!Next]_Blocks!vars => Blocks!IInv'
  BY DialogsAssumption, CountryNext
<1>3. Blocks!IInv => ShownIsComplete
  BY DEF Blocks!IInv, ShownIsComplete
<1> QED
  BY <1>1, <1>2, <1>3, PTL DEF Blocks!Spec

-----------------------------------------------------------------------------
(* Domain analysis.                                                        *)

\* The instance counts as this module does.
LEMMA DomainSets ==
  /\ \A S : Domain!Cardinality(S) = Cardinality(S)
  /\ \A S : Domain!IsFiniteSet(S) <=> IsFiniteSet(S)
BY DEF Domain!Cardinality, Domain!IsFiniteSet, Cardinality, IsFiniteSet

\* What is posted stays a sequence when it is prolonged and when its head is
\* taken.
LEMMA CheckAppend ==
  ASSUME NEW s, s \in Seq({s[i] : i \in DOMAIN s}), NEW e
  PROVE  LET t == Append(s, e)
         IN /\ t \in Seq({t[i] : i \in DOMAIN t})
            /\ \A i \in DOMAIN t : t[i] = e \/ \E j \in DOMAIN s : t[i] = s[j]
<1> DEFINE S == {s[i] : i \in DOMAIN s} \cup {e}
           t == Append(s, e)
           T == {t[i] : i \in DOMAIN t}
<1>1. s \in Seq(S)
  OBVIOUS
<1> HIDE DEF S
<1>2. e \in S
  BY DEF S
<1>3. /\ t \in Seq(S) /\ Len(t) \in Nat /\ DOMAIN t = 1..Len(t) /\ Len(t) = Len(s) + 1
      /\ DOMAIN s = 1..Len(s) /\ Len(s) \in Nat /\ t[Len(s) + 1] = e
      /\ \A i \in 1..Len(s) : t[i] = s[i]
  BY <1>1, <1>2
<1>4. t \in [1..Len(t) -> T]
  <2>1. \A i \in 1..Len(t) : t[i] \in T
    BY <1>3
  <2> HIDE DEF T, t
  <2>2. t \in [1..Len(t) -> S]
    BY <1>3
  <2> QED BY <2>1, <2>2
<1>5. t \in Seq(T)
  <2> HIDE DEF T, t
  <2> QED BY <1>3, <1>4
<1>6. \A i \in DOMAIN t : t[i] = e \/ \E j \in DOMAIN s : t[i] = s[j]
  <2> HIDE DEF t
  <2>1. \A i \in DOMAIN t : i \in 1..Len(s) \/ i = Len(s) + 1
    BY <1>3
  <2> QED BY <1>3, <2>1
<1> QED BY <1>5, <1>6

\* A sequence of events without its first one.
LEMMA CheckTail ==
  ASSUME NEW s, s \in Seq({s[i] : i \in DOMAIN s}), s # <<>>
  PROVE  LET t == Tail(s)
         IN /\ t \in Seq({t[i] : i \in DOMAIN t})
            /\ \A i \in DOMAIN t : \E j \in DOMAIN s : t[i] = s[j]
            /\ \E j \in DOMAIN s : Head(s) = s[j]
<1> DEFINE S == {s[i] : i \in DOMAIN s}
           t == Tail(s)
           T == {t[i] : i \in DOMAIN t}
<1>1. s \in Seq(S)
  OBVIOUS
<1> HIDE DEF S
<1>3. /\ t \in Seq(S) /\ Len(t) \in Nat /\ DOMAIN t = 1..Len(t) /\ Len(t) = Len(s) - 1
      /\ DOMAIN s = 1..Len(s) /\ Len(s) \in Nat /\ Head(s) = s[1] /\ 1 \in DOMAIN s
      /\ \A i \in 1..Len(t) : t[i] = s[i + 1] /\ i + 1 \in DOMAIN s
  BY <1>1
<1>4. t \in [1..Len(t) -> T]
  <2>1. \A i \in 1..Len(t) : t[i] \in T
    BY <1>3
  <2> HIDE DEF T, t
  <2>2. t \in [1..Len(t) -> S]
    BY <1>3
  <2> QED BY <2>1, <2>2
<1>5. t \in Seq(T)
  <2>1. Len(t) \in Nat
    BY <1>3
  <2> HIDE DEF T, t
  <2> QED BY <1>4, <2>1
<1> QED BY <1>3, <1>5

\* The score of a checklist is a percentage.
LEMMA CheckRatio ==
  ASSUME NEW a \in Nat, NEW b \in Nat, NEW c \in Nat, a + b + c # 0
  PROVE  (100 * (2 * a + b) + (a + b + c)) \div (2 * (a + b + c)) \in 0..100
<1> DEFINE t == a + b + c
           n == 100 * (2 * a + b) + t
           q == n \div (2 * t)
<1>1. t \in Nat /\ t > 0 /\ n \in Nat /\ 2 * t \in Nat /\ 2 * t > 0 /\ n < 101 * (2 * t)
  OBVIOUS
<1> HIDE DEF n, t
<1>2. q \in Int /\ (2 * t) * q <= n /\ n < (2 * t) * (q + 1)
  <2> DEFINE d == 2 * t
  <2>1. d \in Nat /\ d > 0
    BY <1>1
  <2> HIDE DEF d
  <2>2. n \div d \in Int /\ d * (n \div d) <= n /\ n < d * ((n \div d) + 1)
    BY <1>1, <2>1
  <2> QED BY <2>2 DEF d
<1>3. q < 101
  <2>1. SUFFICES ASSUME q >= 101 PROVE FALSE
    BY <1>2
  <2>2. (2 * t) * q >= (2 * t) * 101
    BY <1>1, <1>2, <2>1
  <2> QED BY <1>1, <1>2, <2>2
<1>4. q >= 0
  <2>1. SUFFICES ASSUME q + 1 <= 0 PROVE FALSE
    BY <1>2
  <2>2. (2 * t) * (q + 1) <= 0
    BY <1>1, <1>2, <2>1
  <2> QED BY <1>1, <1>2, <2>2
<1> QED BY <1>2, <1>3, <1>4 DEF n, t

\* A score is a percentage.
LEMMA CheckScore ==
  ASSUME NEW checks, Domain!IsFiniteSet(checks) PROVE Domain!Score(checks) \in 0..100
<1>1. \A status : Domain!Cardinality({c \in checks : c.status = status}) \in Nat
  BY FS_Subset, FS_CardinalityType, DomainSets
<1> DEFINE of(status) == Domain!Cardinality({c \in checks : c.status = status})
<1>2. of("pass") \in Nat /\ of("warn") \in Nat /\ of("fail") \in Nat
  BY <1>1
<1>3. Domain!Score(checks) = IF of("pass") + of("warn") + of("fail") = 0 THEN 0
               ELSE (100 * (2 * of("pass") + of("warn")) + (of("pass") + of("warn") + of("fail")))
                      \div (2 * (of("pass") + of("warn") + of("fail")))
  BY DEF Domain!Score
<1> DEFINE p == of("pass")
           w == of("warn")
           f == of("fail")
<1> HIDE DEF p, w, f
<1>4. p \in Nat /\ w \in Nat /\ f \in Nat
  BY <1>2 DEF p, w, f
<1>5. p + w + f # 0 => (100 * (2 * p + w) + (p + w + f)) \div (2 * (p + w + f)) \in 0..100
  BY <1>4, CheckRatio
<1>6. Domain!Score(checks) = IF p + w + f = 0 THEN 0
                             ELSE (100 * (2 * p + w) + (p + w + f)) \div (2 * (p + w + f))
  BY <1>3, Zenon DEF p, w, f
<1> QED BY <1>5, <1>6

\* The sets the checklist is made of are finite.
LEMMA CheckFinite ==
  ASSUME NEW a, NEW b, NEW c, NEW d, NEW e, NEW f
  PROVE  /\ Domain!IsFiniteSet({}) /\ Domain!IsFiniteSet({a}) /\ Domain!IsFiniteSet({a, b}) /\ Domain!IsFiniteSet({a, b, c})
         /\ Domain!IsFiniteSet({a, b, c, d, e}) /\ Domain!IsFiniteSet({a, b, c, d, e, f})
<1>1. /\ {a} = {} \cup {a} /\ {a, b} = {a} \cup {b} /\ {a, b, c} = {a, b} \cup {c}
      /\ {a, b, c, d} = {a, b, c} \cup {d} /\ {a, b, c, d, e} = {a, b, c, d} \cup {e}
      /\ {a, b, c, d, e, f} = {a, b, c, d, e} \cup {f}
  OBVIOUS
<1>2. Domain!IsFiniteSet({})
  BY FS_EmptySet, DomainSets
<1>3. Domain!IsFiniteSet({a})
  BY FS_Singleton, DomainSets
<1>4. Domain!IsFiniteSet({a, b})
  BY <1>1, <1>3, FS_AddElement, DomainSets
<1>5. Domain!IsFiniteSet({a, b, c})
  BY <1>1, <1>4, FS_AddElement, DomainSets
<1>6. Domain!IsFiniteSet({a, b, c, d})
  BY <1>1, <1>5, FS_AddElement, DomainSets
<1>7. Domain!IsFiniteSet({a, b, c, d, e})
  BY <1>1, <1>6, FS_AddElement, DomainSets
<1>8. Domain!IsFiniteSet({a, b, c, d, e, f})
  BY <1>1, <1>7, FS_AddElement, DomainSets
<1> QED BY <1>2, <1>3, <1>4, <1>5, <1>7, <1>8

\* A checklist is finite, whatever was found.
LEMMA CheckList ==
  ASSUME NEW reg, NEW dns, NEW web PROVE Domain!IsFiniteSet(Domain!BuildChecks(reg, dns, web))
<1>1. Domain!IsFiniteSet(Domain!RegistrationChecks(reg))
  BY CheckFinite DEF Domain!RegistrationChecks
<1>2. Domain!IsFiniteSet(Domain!DNSChecks(dns))
  BY CheckFinite DEF Domain!DNSChecks
<1>3. Domain!IsFiniteSet(Domain!EmailChecks(dns))
  <2>1. Domain!IsFiniteSet(Domain!SPFChecks(dns))
    BY CheckFinite DEF Domain!SPFChecks
  <2>2. Domain!IsFiniteSet(Domain!DMARCChecks(dns))
    <3>1. {Domain!Check("email-dmarc-rua", "pass") : x \in dns \cap {"dmarc-rua"}}
            \in {{}, {Domain!Check("email-dmarc-rua", "pass")}}
      OBVIOUS
    <3>2. Domain!IsFiniteSet({Domain!Check("email-dmarc-rua", "pass") : x \in dns \cap {"dmarc-rua"}})
      BY <3>1, CheckFinite
    <3>3. Domain!IsFiniteSet({ Domain!Check("email-dmarc", "pass"), Domain!Tri("email-dmarc-policy", "dmarc-policy" \in dns, "warn") })
      BY CheckFinite
    <3>4. Domain!IsFiniteSet({Domain!Check("email-dmarc", "fail")})
      BY CheckFinite
    <3> QED BY <3>2, <3>3, <3>4, FS_Union, DomainSets DEF Domain!DMARCChecks
  <2>3. Domain!IsFiniteSet({ Domain!Tri("email-dkim", "dkim" \in dns, "warn"),
          Domain!Tri("email-mta-sts", "mta-sts" \in dns, "info"), Domain!Tri("email-tls-rpt", "tls-rpt" \in dns, "info") })
    BY CheckFinite
  <2> QED BY <2>1, <2>2, <2>3, FS_Union, DomainSets DEF Domain!EmailChecks
<1>4. Domain!IsFiniteSet(Domain!WebChecks(web))
  <2>1. {Domain!Check("web-tls-version", "warn") : x \in web \cap {"old-tls"}}
          \in {{}, {Domain!Check("web-tls-version", "warn")}}
    OBVIOUS
  <2>2. Domain!IsFiniteSet({Domain!Check("web-tls-version", "warn") : x \in web \cap {"old-tls"}})
    BY <2>1, CheckFinite
  <2>3. Domain!IsFiniteSet({ Domain!Tri("web-https", "https" \in web, "warn"), Domain!Tri("web-redirect", "redirect" \in web, "warn"),
          Domain!Check("web-cert", Domain!CertStatus(web)),
          Domain!Tri("web-hsts", "hsts" \in web, "warn"), Domain!Tri("web-headers", "headers" \in web, "warn") })
    BY CheckFinite
  <2> QED BY <2>2, <2>3, FS_Union, DomainSets DEF Domain!WebChecks
<1> QED BY <1>1, <1>2, <1>3, <1>4, FS_Union, DomainSets DEF Domain!BuildChecks

\* No dialog is open at first.
LEMMA CheckInit == Domain!CheckAssumption /\ Domain!Init => Domain!IInv
<1> SUFFICES ASSUME Domain!CheckAssumption, Domain!Init PROVE Domain!IInv
  OBVIOUS
<1>1. \A r \in Domain!Runs : analysis[r] = Domain!Off /\ report[r] = [status |-> 0, report |-> Domain!Off]
  BY DEF Domain!Init
<1>2. Domain!Off.at = "off" /\ analyses = 0 /\ \A r \in Domain!Runs : r > analyses
  BY DEF Domain!Off, Domain!Init, Domain!Runs, Domain!CheckAssumption
<1>3. Domain!TypeOK
  <2>1. 0 \in 0..0 /\ 0 \in 0..MaxRuns
    BY DEF Domain!CheckAssumption
  <2> QED BY <1>1, <1>2, <2>1 DEF Domain!Init, Domain!TypeOK
<1>4. Domain!EventsAreWhole
  <2>1. events = <<>> /\ DOMAIN events = {} /\ events \in Seq({events[i] : i \in DOMAIN events})
    BY DEF Domain!Init
  <2> QED BY <2>1 DEF Domain!EventsAreWhole
<1>5. Domain!AnalysesAreOpened
  BY <1>1, <1>2 DEF Domain!Init, Domain!AnalysesAreOpened
<1>6. Domain!ReportIsWhole
  BY <1>1 DEF Domain!ReportIsWhole
<1> QED BY <1>3, <1>4, <1>5, <1>6 DEF Domain!IInv

\* Exactly the analyses that were opened have begun.
LEMMA CheckTyped ==
  ASSUME Domain!CheckAssumption, Domain!IInv
  PROVE  /\ analyses \in Nat /\ analyses \in 0..MaxRuns /\ Domain!Runs = 1..MaxRuns /\ 1..analyses \subseteq Domain!Runs
         /\ domainSlot \in 0..analyses
         /\ \A r \in Domain!Runs : analysis[r].at # "off" => r \in 1..analyses
<1>1. analyses \in 0..MaxRuns /\ MaxRuns \in Nat /\ Domain!Runs = 1..MaxRuns /\ domainSlot \in 0..analyses
  BY DEF Domain!IInv, Domain!TypeOK, Domain!CheckAssumption, Domain!Runs
<1>2. \A r \in Domain!Runs : analysis[r].at # "off" => r <= analyses
  BY <1>1 DEF Domain!IInv, Domain!AnalysesAreOpened, Domain!Off
<1> QED BY <1>1, <1>2

\* The parts of an analysis, which its report is made of.
SameParts(a, b) ==
  b.at = a.at /\ b.reg = a.reg /\ b.registration = a.registration /\ b.dns = a.dns /\ b.web = a.web

\* A step leaves the analyses alone that have come back, and makes no other of them.
KeepsReports ==
  \A r \in Domain!Runs : analysis[r].at = "back" => SameParts(analysis[r], analysis'[r])

\* An event that is whole after the step.
BecomesWhole(e) ==
  /\ e.what \in {"progress", "report"} /\ e.run \in 1..analyses'
  /\ e.what = "report" => Domain!Whole(analysis'[e.run], e.report)

LEMMA CheckKept ==
  ASSUME NEW a, NEW b, NEW r, Domain!Whole(a, r), SameParts(a, b) PROVE Domain!Whole(b, r)
BY DEF Domain!Whole, Domain!Report, SameParts

\* An analysis under way is a record of its fields.
LEMMA CheckLive ==
  ASSUME Domain!CheckAssumption, Domain!IInv, NEW r \in Domain!Runs, analysis[r].at = "parts"
  PROVE  DOMAIN analysis[r] = Domain!RunFields /\ "at" \in DOMAIN analysis[r]
<1>1. ~(r > analyses)
  BY CheckTyped
<1> QED BY <1>1 DEF Domain!IInv, Domain!AnalysesAreOpened, Domain!RunFields

\* What an event says stays true when a later dialog is opened, and while other
\* analyses go on.
LEMMA CheckEvents ==
  ASSUME Domain!CheckAssumption, Domain!IInv, analyses' \in {analyses, analyses + 1}, KeepsReports,
         NEW e, Domain!EventIsWhole(e)
  PROVE  BecomesWhole(e)
<1>1. 1..analyses \subseteq 1..analyses' /\ 1..analyses \subseteq Domain!Runs
  BY CheckTyped
<1>2. e.what = "report" => Domain!Whole(analysis'[e.run], e.report)
  <2>1. SUFFICES ASSUME e.what = "report" PROVE Domain!Whole(analysis'[e.run], e.report)
    OBVIOUS
  <2>2. Domain!Whole(analysis[e.run], e.report) /\ e.run \in Domain!Runs
    BY <1>1, <2>1 DEF Domain!EventIsWhole
  <2>3. SameParts(analysis[e.run], analysis'[e.run])
    BY <2>2 DEF Domain!Whole, KeepsReports
  <2> QED BY <2>2, <2>3, CheckKept
<1> QED BY <1>1, <1>2 DEF Domain!EventIsWhole, BecomesWhole

\* So does a report that is shown.
LEMMA CheckReports ==
  ASSUME Domain!IInv, KeepsReports, NEW r \in Domain!Runs, report[r].report # Domain!Off
  PROVE  Domain!Whole(analysis'[r], report[r].report)
<1>1. Domain!Whole(analysis[r], report[r].report)
  BY DEF Domain!IInv, Domain!ReportIsWhole
<1>2. SameParts(analysis[r], analysis'[r])
  BY <1>1 DEF Domain!Whole, KeepsReports
<1> QED BY <1>1, <1>2, CheckKept

\* A step of one analysis, or a cancellation, that leaves the dialogs alone.
LEMMA CheckRuns ==
  ASSUME Domain!CheckAssumption, Domain!IInv, UNCHANGED <<report, analyses>>,
         bootstrap' \in {"none", "index", "failed", "cancelled"}, domainSlot' \in 0..analyses,
         DOMAIN analysis' = Domain!Runs, KeepsReports,
         \A r \in Domain!Runs : \/ analysis'[r] = analysis[r]
                                \/ /\ DOMAIN analysis'[r] = Domain!RunFields
                                   /\ analysis'[r].at \in {"begin", "parts", "back"} /\ r <= analyses,
         events' \in Seq({events'[i] : i \in DOMAIN events'}),
         \A i \in DOMAIN events' : BecomesWhole(events'[i])
  PROVE  Domain!IInv'
<1>1. Domain!TypeOK'
  BY DEF Domain!IInv, Domain!TypeOK, Domain!Runs
<1>2. Domain!EventsAreWhole'
  BY DEF Domain!EventsAreWhole, Domain!EventIsWhole, BecomesWhole
<1>3. Domain!AnalysesAreOpened'
  <2>1. ASSUME NEW r \in Domain!Runs
        PROVE  IF r > analyses THEN analysis'[r] = Domain!Off ELSE DOMAIN analysis'[r] = Domain!RunFields
    <3>1. CASE analysis'[r] = analysis[r]
      BY <3>1 DEF Domain!IInv, Domain!AnalysesAreOpened
    <3>2. CASE r <= analyses /\ DOMAIN analysis'[r] = Domain!RunFields
      BY <3>2, CheckTyped
    <3> QED BY <3>1, <3>2
  <2> QED BY <2>1 DEF Domain!IInv, Domain!AnalysesAreOpened, Domain!Runs, Domain!Off, Domain!RunFields
<1>4. Domain!ReportIsWhole'
  BY CheckReports DEF Domain!ReportIsWhole, Domain!Runs, Domain!Off
<1> QED BY <1>1, <1>2, <1>3, <1>4 DEF Domain!IInv

\* What the cancellation of the slot's analysis changes.
LEMMA CheckCancels ==
  ASSUME Domain!CheckAssumption, Domain!IInv
  PROVE  /\ DOMAIN Domain!CancelSlot = Domain!Runs
         /\ \A r \in Domain!Runs :
              /\ DOMAIN Domain!CancelSlot[r] = DOMAIN analysis[r]
              /\ \/ Domain!CancelSlot[r] = analysis[r]
                 \/ /\ r = domainSlot /\ r \in 1..analyses /\ DOMAIN analysis[r] = Domain!RunFields
                    /\ SameParts(analysis[r], Domain!CancelSlot[r])
<1>1. DOMAIN analysis = Domain!Runs
  BY DEF Domain!IInv, Domain!AnalysesAreOpened
<1>2. CASE domainSlot = 0
  BY <1>1, <1>2 DEF Domain!CancelSlot
<1>3. CASE domainSlot # 0
  <2>1. domainSlot \in Domain!Runs /\ domainSlot \in 1..analyses /\ ~(domainSlot > analyses)
    BY <1>3, CheckTyped
  <2> DEFINE x == [analysis[domainSlot] EXCEPT !.cancelled = TRUE]
  <2>2. Domain!CancelSlot = [analysis EXCEPT ![domainSlot] = x]
    BY <1>1, <1>3, <2>1 DEF Domain!CancelSlot
  <2>3. DOMAIN analysis[domainSlot] = Domain!RunFields
    BY <2>1 DEF Domain!IInv, Domain!AnalysesAreOpened
  <2>4. DOMAIN x = Domain!RunFields /\ SameParts(analysis[domainSlot], x)
    BY <2>3 DEF Domain!RunFields, SameParts
  <2> HIDE DEF x
  <2> QED BY <1>1, <2>1, <2>2, <2>3, <2>4
<1> QED BY <1>2, <1>3

\* What is on its way to the main thread is whole.
LEMMA CheckPosted ==
  ASSUME Domain!CheckAssumption, Domain!IInv
  PROVE  /\ events \in Seq({events[i] : i \in DOMAIN events})
         /\ \A i \in DOMAIN events : Domain!EventIsWhole(events[i])
BY DEF Domain!IInv, Domain!EventsAreWhole

\* A progress event joins it.
LEMMA CheckProgress ==
  ASSUME Domain!CheckAssumption, Domain!IInv, NEW r \in 1..analyses
  PROVE  /\ Domain!Progress(r) \in Seq({Domain!Progress(r)[i] : i \in DOMAIN Domain!Progress(r)})
         /\ \A i \in DOMAIN Domain!Progress(r) : Domain!EventIsWhole(Domain!Progress(r)[i])
<1> DEFINE e == [what |-> "progress", run |-> r]
<1>1. Domain!EventIsWhole(e)
  BY DEF Domain!EventIsWhole
<1> HIDE DEF e
<1> DEFINE s == events
           t == Append(s, e)
<1>2. Domain!Progress(r) = t
  BY DEF Domain!Progress, e
<1>3. s \in Seq({s[i] : i \in DOMAIN s}) /\ \A i \in DOMAIN s : Domain!EventIsWhole(s[i])
  BY CheckPosted
<1> HIDE DEF s
<1>6. t = Append(s, e)
  OBVIOUS
<1> HIDE DEF t
<1>4. /\ t \in Seq({t[i] : i \in DOMAIN t})
      /\ \A i \in DOMAIN t : t[i] = e \/ \E j \in DOMAIN s : t[i] = s[j]
  BY <1>6, <1>3, CheckAppend, SMTT(30)
<1>5. \A i \in DOMAIN t : Domain!EventIsWhole(t[i])
  BY <1>1, <1>3, <1>4
<1> QED BY <1>2, <1>4, <1>5

\* The dialogs: opened, cancelled, and served in the order of the events.
LEMMA CheckDialogs ==
  ASSUME Domain!CheckAssumption, Domain!IInv, Domain!OpenDialog \/ Domain!CancelAnalysis \/ Domain!Deliver \/ UNCHANGED Domain!vars
  PROVE  Domain!IInv'
<1>1. CASE UNCHANGED Domain!vars
  BY <1>1 DEF Domain!vars, Domain!IInv, Domain!TypeOK, Domain!EventsAreWhole,
     Domain!EventIsWhole, Domain!AnalysesAreOpened, Domain!ReportIsWhole
<1>2. CASE Domain!CancelAnalysis
  <2>1. domainSlot # 0 /\ analysis' = Domain!CancelSlot /\ UNCHANGED <<bootstrap, domainSlot, report, analyses, events>>
    BY <1>2 DEF Domain!CancelAnalysis
  <2>2. KeepsReports
    BY <2>1, CheckCancels DEF KeepsReports, SameParts
  <2>3. \A r \in Domain!Runs : \/ analysis'[r] = analysis[r]
                               \/ /\ DOMAIN analysis'[r] = Domain!RunFields /\ r <= analyses
                                  /\ analysis'[r].at = analysis[r].at
    BY <2>1, CheckCancels, CheckTyped DEF SameParts
  <2>4. Domain!TypeOK'
    BY <2>1, <2>3 DEF Domain!IInv, Domain!TypeOK, Domain!Runs
  <2>5. Domain!AnalysesAreOpened'
    <3>1. ASSUME NEW r \in Domain!Runs
          PROVE  IF r > analyses THEN analysis'[r] = Domain!Off ELSE DOMAIN analysis'[r] = Domain!RunFields
      <4>1. CASE r > analyses
        <5>1. ~(r <= analyses)
          BY <4>1, CheckTyped
        <5>2. analysis'[r] = analysis[r]
          BY <2>3, <5>1
        <5> QED BY <4>1, <5>2 DEF Domain!IInv, Domain!AnalysesAreOpened
      <4>2. CASE ~(r > analyses)
        <5>1. DOMAIN analysis[r] = Domain!RunFields
          BY <4>2 DEF Domain!IInv, Domain!AnalysesAreOpened
        <5> QED BY <2>3, <4>2, <5>1
      <4> QED BY <4>1, <4>2
    <3>2. DOMAIN analysis' = Domain!Runs
      BY <2>1, CheckCancels
    <3> QED BY <2>1, <3>1, <3>2 DEF Domain!IInv, Domain!AnalysesAreOpened, Domain!Runs, Domain!Off, Domain!RunFields
  <2>6. Domain!EventsAreWhole'
    <3>1. \A i \in DOMAIN events : BecomesWhole(events[i])
      BY <2>1, <2>2, CheckPosted, CheckEvents
    <3> QED BY <2>1, <3>1, CheckPosted DEF Domain!EventsAreWhole, Domain!EventIsWhole, BecomesWhole
  <2>7. Domain!ReportIsWhole'
    BY <2>1, <2>2, CheckReports DEF Domain!ReportIsWhole, Domain!Runs, Domain!Off
  <2> QED BY <2>4, <2>5, <2>6, <2>7 DEF Domain!IInv
<1>3. CASE Domain!OpenDialog
  <2> DEFINE x == [at |-> "begin", cancelled |-> FALSE, reg |-> "base", registration |-> Domain!NotFound,
                   error |-> "none", dns |-> Domain!Pending, web |-> Domain!Pending]
             n == analyses + 1
  <2>1. /\ analyses < MaxRuns /\ analyses' = n /\ analysis' = [analysis EXCEPT ![n] = x]
        /\ UNCHANGED <<bootstrap, domainSlot, report, events>>
    BY <1>3 DEF Domain!OpenDialog
  <2>2. x.at = "begin" /\ DOMAIN x = Domain!RunFields
    BY DEF Domain!RunFields
  <2> HIDE DEF x
  <2>3. /\ n \in Domain!Runs /\ n \in 0..MaxRuns /\ 0..analyses \subseteq 0..n /\ ~(n > n) /\ n > analyses
        /\ \A r \in Domain!Runs : r # n => (r > n <=> r > analyses)
    BY <2>1, CheckTyped, Domain!CheckAssumption DEF Domain!CheckAssumption
  <2>4. DOMAIN analysis' = Domain!Runs /\ analysis'[n] = x /\ \A r \in Domain!Runs : r # n => analysis'[r] = analysis[r]
    BY <2>1, <2>3 DEF Domain!IInv, Domain!AnalysesAreOpened
  <2>5. KeepsReports
    <3>1. analysis[n].at = "off"
      BY <2>3 DEF Domain!IInv, Domain!AnalysesAreOpened, Domain!Off
    <3> QED BY <2>4, <3>1 DEF KeepsReports, SameParts
  <2>6. Domain!EventsAreWhole'
    <3>1. \A i \in DOMAIN events : BecomesWhole(events[i])
      BY <2>1, <2>5, CheckPosted, CheckEvents
    <3> QED BY <2>1, <3>1, CheckPosted DEF Domain!EventsAreWhole, Domain!EventIsWhole, BecomesWhole
  <2>7. Domain!ReportIsWhole'
    BY <2>1, <2>5, CheckReports DEF Domain!ReportIsWhole, Domain!Runs, Domain!Off
  <2> HIDE DEF n
  <2>8. Domain!TypeOK'
    BY <2>1, <2>2, <2>3, <2>4 DEF Domain!IInv, Domain!TypeOK, Domain!Runs
  <2>9. Domain!AnalysesAreOpened'
    <3>1. ASSUME NEW r \in Domain!Runs
          PROVE  IF r > n THEN analysis'[r] = Domain!Off ELSE DOMAIN analysis'[r] = Domain!RunFields
      BY <2>2, <2>3, <2>4 DEF Domain!IInv, Domain!AnalysesAreOpened
    <3> QED BY <2>1, <2>4, <3>1 DEF Domain!IInv, Domain!AnalysesAreOpened, Domain!Runs, Domain!Off, Domain!RunFields
  <2> QED BY <2>6, <2>7, <2>8, <2>9 DEF Domain!IInv
<1>4. CASE Domain!Deliver
  <2> DEFINE e == Head(events)
  <2>1. /\ events # <<>> /\ events' = Tail(events) /\ UNCHANGED <<bootstrap, domainSlot, analysis, analyses>>
        /\ report' = IF e.what = "progress" THEN [report EXCEPT ![analyses].status = e.run]
                     ELSE [report EXCEPT ![e.run] = [status |-> 0, report |-> e.report]]
    BY <1>4 DEF Domain!Deliver
  <2>2. /\ events' \in Seq({events'[i] : i \in DOMAIN events'})
        /\ \A i \in DOMAIN events' : Domain!EventIsWhole(events'[i])
        /\ Domain!EventIsWhole(e)
    <3> DEFINE s == events
               t == Tail(s)
    <3>1. s \in Seq({s[i] : i \in DOMAIN s}) /\ \A i \in DOMAIN s : Domain!EventIsWhole(s[i])
      BY CheckPosted
    <3> HIDE DEF s
    <3>2. /\ t \in Seq({t[i] : i \in DOMAIN t}) /\ \A i \in DOMAIN t : \E j \in DOMAIN s : t[i] = s[j]
          /\ \E j \in DOMAIN s : Head(s) = s[j]
      BY <2>1, <3>1, CheckTail DEF s
    <3> HIDE DEF t
    <3>3. \A i \in DOMAIN t : Domain!EventIsWhole(t[i])
      BY <3>1, <3>2
    <3>4. events' = t /\ e = Head(s)
      BY <2>1 DEF s, t
    <3> QED BY <3>1, <3>2, <3>3, <3>4
  <2> HIDE DEF e
  <2>3. Domain!TypeOK' /\ Domain!EventsAreWhole'
    BY <2>1, <2>2 DEF Domain!IInv, Domain!TypeOK, Domain!EventsAreWhole, Domain!EventIsWhole,
       Domain!Runs
  <2>4. e.run \in Domain!Runs /\ analyses \in Domain!Runs
    BY <2>2, CheckTyped DEF Domain!EventIsWhole
  <2>5. PICK d, y :
          /\ d \in Domain!Runs
          /\ report' = [report EXCEPT ![d] = y] /\ DOMAIN y = {"status", "report"}
          /\ y.report = report[d].report \/ Domain!Whole(analysis[d], y.report)
    <3>1. CASE e.what = "progress"
      <4> DEFINE y == [report[analyses] EXCEPT !.status = e.run]
      <4>1. report' = [report EXCEPT ![analyses] = y]
        BY <2>1, <2>4, <3>1 DEF Domain!IInv, Domain!AnalysesAreOpened
      <4>2. DOMAIN y = {"status", "report"} /\ y.report = report[analyses].report
        BY <2>4 DEF Domain!IInv, Domain!AnalysesAreOpened
      <4> HIDE DEF y
      <4> QED BY <2>4, <4>1, <4>2
    <3>2. CASE e.what # "progress"
      <4> DEFINE y == [status |-> 0, report |-> e.report]
      <4>1. report' = [report EXCEPT ![e.run] = y]
        BY <2>1, <3>2
      <4>2. DOMAIN y = {"status", "report"} /\ y.report = e.report
        OBVIOUS
      <4>3. Domain!Whole(analysis[e.run], e.report)
        BY <2>2, <3>2 DEF Domain!EventIsWhole
      <4> HIDE DEF y
      <4> QED BY <2>4, <4>1, <4>2, <4>3
    <3> QED BY <3>1, <3>2
  <2>6. DOMAIN report' = Domain!Runs /\ report'[d] = y /\ \A r \in Domain!Runs : r # d => report'[r] = report[r]
    BY <2>5 DEF Domain!IInv, Domain!AnalysesAreOpened
  <2>7. Domain!AnalysesAreOpened'
    BY <2>1, <2>5, <2>6 DEF Domain!IInv, Domain!AnalysesAreOpened, Domain!Runs, Domain!Off, Domain!RunFields
  <2>8. Domain!ReportIsWhole'
    <3>1. ASSUME NEW r \in Domain!Runs, report'[r].report # Domain!Off
          PROVE  Domain!Whole(analysis[r], report'[r].report)
      BY <2>5, <2>6, <3>1 DEF Domain!IInv, Domain!ReportIsWhole
    <3> QED BY <2>1, <3>1 DEF Domain!ReportIsWhole, Domain!Runs, Domain!Off
  <2> QED BY <2>3, <2>7, <2>8 DEF Domain!IInv
<1> QED BY <1>1, <1>2, <1>3, <1>4

\* A report is posted only when all three parts have ended, and its score is one.
LEMMA CheckAssembles ==
  ASSUME Domain!CheckAssumption, Domain!IInv, NEW r \in Domain!Runs, Domain!Assemble(r) PROVE Domain!IInv'
<1> DEFINE e == [what |-> "report", run |-> r, report |-> Domain!Report(analysis[r])]
           x == [analysis[r] EXCEPT !.at = "back"]
<1>0. DOMAIN analysis = Domain!Runs
  BY DEF Domain!IInv, Domain!AnalysesAreOpened
<1>1. /\ analysis[r].at = "parts" /\ analysis[r].reg = "done" /\ analysis[r].dns # Domain!Pending
      /\ analysis[r].web # Domain!Pending /\ domainSlot' = (IF domainSlot = r THEN 0 ELSE domainSlot)
      /\ events' = Append(Domain!Progress(r), e) /\ UNCHANGED <<bootstrap, report, analyses>>
      /\ analysis' = [analysis EXCEPT ![r] = x]
  BY <1>0 DEF Domain!Assemble, Domain!Finish
<1>2. r \in 1..analyses /\ ~(r > analyses)
  BY <1>1, CheckTyped
<1>3. DOMAIN analysis[r] = Domain!RunFields
  BY <1>2 DEF Domain!IInv, Domain!AnalysesAreOpened
<1>4. /\ x.at = "back" /\ x.reg = analysis[r].reg /\ x.dns = analysis[r].dns /\ x.web = analysis[r].web
      /\ x.registration = analysis[r].registration /\ DOMAIN x = Domain!RunFields
  BY <1>3 DEF Domain!RunFields
<1> HIDE DEF x
<1>5. DOMAIN analysis' = Domain!Runs /\ analysis'[r] = x /\ \A q \in Domain!Runs : q # r => analysis'[q] = analysis[q]
  BY <1>0, <1>1
<1>6. Domain!Whole(x, Domain!Report(analysis[r]))
  <2>1. Domain!Report(analysis[r]).score \in 0..100
    BY CheckList, CheckScore DEF Domain!Report
  <2>2. Domain!Report(x) = Domain!Report(analysis[r])
    BY <1>4 DEF Domain!Report
  <2> QED BY <1>1, <1>4, <2>1, <2>2 DEF Domain!Whole
<1>7. BecomesWhole(e)
  <2>1. e.what = "report" /\ e.run = r /\ e.report = Domain!Report(analysis[r])
    OBVIOUS
  <2> HIDE DEF e
  <2> QED BY <1>1, <1>2, <1>5, <1>6, <2>1 DEF BecomesWhole
<1>8. KeepsReports
  BY <1>1, <1>5 DEF KeepsReports, SameParts
<1> HIDE DEF e
<1>9. /\ events' \in Seq({events'[i] : i \in DOMAIN events'})
      /\ \A i \in DOMAIN events' : BecomesWhole(events'[i])
  <2> DEFINE s == Domain!Progress(r)
  <2>1. s \in Seq({s[i] : i \in DOMAIN s}) /\ \A i \in DOMAIN s : Domain!EventIsWhole(s[i])
    BY <1>2, CheckProgress
  <2>2. \A i \in DOMAIN s : BecomesWhole(s[i])
    BY <1>1, <1>8, <2>1, CheckEvents
  <2> HIDE DEF s
  <2>3. events' = Append(s, e)
    BY <1>1 DEF s
  <2> QED BY <1>7, <2>1, <2>2, <2>3, CheckAppend
<1>10. domainSlot' \in 0..analyses /\ bootstrap' \in {"none", "index", "failed", "cancelled"}
  BY <1>1, CheckTyped DEF Domain!IInv, Domain!TypeOK
<1>11. \A q \in Domain!Runs : \/ analysis'[q] = analysis[q]
                              \/ /\ DOMAIN analysis'[q] = Domain!RunFields
                                 /\ analysis'[q].at \in {"begin", "parts", "back"} /\ q <= analyses
  BY <1>2, <1>4, <1>5
<1>12. UNCHANGED <<report, analyses>>
  BY <1>1
<1> QED BY <1>5, <1>8, <1>9, <1>10, <1>11, <1>12, CheckRuns

\* The other steps of an analysis change its record, its phase at most once, and
\* what the bootstrap is.
LEMMA CheckAnalysis ==
  ASSUME Domain!CheckAssumption, Domain!IInv, NEW r \in Domain!Runs, Domain!Analysis(r) PROVE Domain!IInv'
<1>1. CASE Domain!Begin(r)
  <2> DEFINE x == [Domain!CancelSlot[r] EXCEPT !.at = "parts"]
  <2>1. /\ analysis[r].at = "begin" /\ analysis' = [Domain!CancelSlot EXCEPT ![r].at = "parts"] /\ domainSlot' = r
        /\ events' = Domain!Progress(r) /\ UNCHANGED <<bootstrap, report, analyses>>
    BY <1>1 DEF Domain!Begin
  <2>2. r \in 1..analyses /\ ~(r > analyses)
    BY <2>1, CheckTyped
  <2>3. analysis' = [Domain!CancelSlot EXCEPT ![r] = x]
    BY <2>1, CheckCancels
  <2>4. DOMAIN Domain!CancelSlot[r] = Domain!RunFields
    BY <2>2, CheckCancels DEF Domain!IInv, Domain!AnalysesAreOpened
  <2>5. x.at = "parts" /\ DOMAIN x = Domain!RunFields
    BY <2>4 DEF Domain!RunFields
  <2> HIDE DEF x
  <2>6. DOMAIN analysis' = Domain!Runs /\ analysis'[r] = x /\ \A q \in Domain!Runs : q # r => analysis'[q] = Domain!CancelSlot[q]
    BY <2>3, CheckCancels
  <2>7. \A q \in Domain!Runs :
          \/ analysis'[q] = analysis[q]
          \/ /\ q \in 1..analyses /\ q # r /\ DOMAIN analysis'[q] = Domain!RunFields
             /\ SameParts(analysis[q], analysis'[q])
          \/ q = r
    BY <2>6, CheckCancels
  <2>8. Domain!TypeOK'
    BY <2>1, <2>2, <2>5, <2>6, <2>7, CheckTyped DEF Domain!IInv, Domain!TypeOK, Domain!Runs, SameParts
  <2>9. Domain!AnalysesAreOpened'
    <3>1. ASSUME NEW q \in Domain!Runs
          PROVE  IF q > analyses THEN analysis'[q] = Domain!Off ELSE DOMAIN analysis'[q] = Domain!RunFields
      BY <2>2, <2>5, <2>6, <2>7, CheckTyped DEF Domain!IInv, Domain!AnalysesAreOpened
    <3> QED BY <2>1, <2>6, <3>1 DEF Domain!IInv, Domain!AnalysesAreOpened, Domain!Runs, Domain!Off, Domain!RunFields
  <2>10. KeepsReports
    BY <2>1, <2>7 DEF KeepsReports, SameParts
  <2>11. Domain!EventsAreWhole'
    <3> DEFINE s == Domain!Progress(r)
    <3>1. s \in Seq({s[i] : i \in DOMAIN s}) /\ \A i \in DOMAIN s : Domain!EventIsWhole(s[i])
      BY <2>2, CheckProgress
    <3>2. \A i \in DOMAIN s : BecomesWhole(s[i])
      BY <2>1, <2>10, <3>1, CheckEvents
    <3> HIDE DEF s
    <3>3. events' = s
      BY <2>1 DEF s
    <3> QED BY <3>1, <3>2, <3>3 DEF Domain!EventsAreWhole, Domain!EventIsWhole, BecomesWhole
  <2>12. Domain!ReportIsWhole'
    BY <2>1, <2>10, CheckReports DEF Domain!ReportIsWhole, Domain!Runs, Domain!Off
  <2> QED BY <2>8, <2>9, <2>11, <2>12 DEF Domain!IInv
<1>2. CASE Domain!Assemble(r)
  BY <1>2, CheckAssembles
<1>3. ASSUME NEW x, analysis' = [analysis EXCEPT ![r] = x], DOMAIN x = DOMAIN analysis[r], x.at = "parts", analysis[r].at = "parts",
             UNCHANGED <<domainSlot, report, analyses, events>>,
             bootstrap' \in {"none", "index", "failed", "cancelled"}
      PROVE  Domain!IInv'
  <2>1. r \in 1..analyses /\ ~(r > analyses)
    BY <1>3, CheckTyped
  <2>2. DOMAIN analysis' = Domain!Runs /\ analysis'[r] = x /\ \A q \in Domain!Runs : q # r => analysis'[q] = analysis[q]
    BY <1>3 DEF Domain!IInv, Domain!AnalysesAreOpened
  <2>3. DOMAIN x = Domain!RunFields
    BY <1>3, <2>1 DEF Domain!IInv, Domain!AnalysesAreOpened
  <2>4. \A q \in Domain!Runs : \/ analysis'[q] = analysis[q]
                               \/ /\ DOMAIN analysis'[q] = Domain!RunFields
                                  /\ analysis'[q].at \in {"begin", "parts", "back"} /\ q <= analyses
    BY <1>3, <2>1, <2>2, <2>3
  <2>5. KeepsReports
    BY <1>3, <2>2 DEF KeepsReports, SameParts
  <2>6. /\ events' \in Seq({events'[i] : i \in DOMAIN events'})
        /\ \A i \in DOMAIN events' : BecomesWhole(events'[i])
    <3>1. \A i \in DOMAIN events : BecomesWhole(events[i])
      BY <1>3, <2>5, CheckPosted, CheckEvents
    <3> QED BY <1>3, <3>1, CheckPosted
  <2>7. domainSlot' \in 0..analyses
    BY <1>3, CheckTyped
  <2> QED BY <1>3, <2>2, <2>4, <2>5, <2>6, <2>7, CheckRuns
<1>4. ASSUME NEW a, NEW b, analysis[r].at = "parts", analysis' = [analysis EXCEPT ![r].reg = a, ![r].error = b],
             UNCHANGED <<domainSlot, report, analyses, events>>,
             bootstrap' \in {"none", "index", "failed", "cancelled"}
      PROVE  Domain!IInv'
  <2> DEFINE x == [analysis[r] EXCEPT !.reg = a, !.error = b]
  <2>1. x.at = "parts" /\ DOMAIN x = DOMAIN analysis[r]
    BY <1>4, CheckLive
  <2>2. analysis' = [analysis EXCEPT ![r] = x]
    BY <1>4 DEF Domain!IInv, Domain!AnalysesAreOpened
  <2> HIDE DEF x
  <2> QED BY <1>3, <1>4, <2>1, <2>2
<1>5. ASSUME NEW a, NEW b, analysis[r].at = "parts",
             \/ analysis' = [analysis EXCEPT ![r].reg = a, ![r].registration = b]
             \/ analysis' = [analysis EXCEPT ![r].dns = a]
             \/ analysis' = [analysis EXCEPT ![r].web = a],
             UNCHANGED <<bootstrap, domainSlot, report, analyses, events>>
      PROVE  Domain!IInv'
  <2>1. "at" \in DOMAIN analysis[r] /\ DOMAIN analysis = Domain!Runs
    BY <1>5, CheckLive DEF Domain!IInv, Domain!AnalysesAreOpened
  <2>2. PICK x : DOMAIN x = DOMAIN analysis[r] /\ x.at = "parts" /\ analysis' = [analysis EXCEPT ![r] = x]
    <3>1. CASE analysis' = [analysis EXCEPT ![r].reg = a, ![r].registration = b]
      <4> DEFINE x == [analysis[r] EXCEPT !.reg = a, !.registration = b]
      <4>1. DOMAIN x = DOMAIN analysis[r] /\ x.at = "parts" /\ analysis' = [analysis EXCEPT ![r] = x]
        BY <1>5, <2>1, <3>1
      <4> QED BY <4>1
    <3>2. CASE analysis' = [analysis EXCEPT ![r].dns = a]
      <4> DEFINE x == [analysis[r] EXCEPT !.dns = a]
      <4>1. DOMAIN x = DOMAIN analysis[r] /\ x.at = "parts" /\ analysis' = [analysis EXCEPT ![r] = x]
        BY <1>5, <2>1, <3>2
      <4> QED BY <4>1
    <3>3. CASE analysis' = [analysis EXCEPT ![r].web = a]
      <4> DEFINE x == [analysis[r] EXCEPT !.web = a]
      <4>1. DOMAIN x = DOMAIN analysis[r] /\ x.at = "parts" /\ analysis' = [analysis EXCEPT ![r] = x]
        BY <1>5, <2>1, <3>3
      <4> QED BY <4>1
    <3> QED BY <1>5, <3>1, <3>2, <3>3
  <2>3. bootstrap' \in {"none", "index", "failed", "cancelled"}
    BY <1>5 DEF Domain!IInv, Domain!TypeOK
  <2> QED BY <1>3, <1>5, <2>2, <2>3
<1>6. CASE Domain!RdapBase(r)
  BY <1>4, <1>6 DEF Domain!RdapBase, Domain!Registering, Domain!IInv, Domain!TypeOK
<1>7. ASSUME NEW outcome \in {"index", "failed", "cancelled"}, Domain!FetchBootstrap(r, outcome) PROVE Domain!IInv'
  <2>1. bootstrap' \in {"none", "index", "failed", "cancelled"}
    BY <1>7 DEF Domain!FetchBootstrap, Domain!IInv, Domain!TypeOK
  <2> QED BY <1>4, <1>7, <2>1 DEF Domain!FetchBootstrap, Domain!Registering
<1>8. ASSUME NEW reg \in Domain!Answers, Domain!Rdap(r, reg) \/ Domain!Whois(r, reg) PROVE Domain!IInv'
  <2>1. CASE Domain!Rdap(r, reg)
    BY <1>5, <2>1 DEF Domain!Rdap, Domain!Registering
  <2>2. CASE Domain!Whois(r, reg)
    BY <1>5, <2>2 DEF Domain!Whois, Domain!Registering
  <2> QED BY <1>8, <2>1, <2>2
<1>9. ASSUME NEW part, Domain!DnsPart(r, part) \/ Domain!WebPart(r, part) PROVE Domain!IInv'
  BY <1>5, <1>9 DEF Domain!DnsPart, Domain!WebPart
<1> QED BY <1>1, <1>2, <1>6, <1>7, <1>8, <1>9 DEF Domain!Analysis

\* Every step preserves the invariant.
LEMMA CheckNext == ASSUME Domain!CheckAssumption, Domain!IInv, [Domain!Next]_Domain!vars PROVE Domain!IInv'
BY CheckDialogs, CheckAnalysis DEF Domain!Next

\* The bootstrap that the first fetch brought is never replaced, although the
\* lock is not held during a fetch.
LEMMA CheckBootstrap ==
  ASSUME [Domain!Next]_Domain!vars PROVE [bootstrap = "none" \/ bootstrap' = bootstrap]_Domain!vars
<1>1. ASSUME NEW r \in Domain!Runs, Domain!Analysis(r) PROVE bootstrap = "none" \/ bootstrap' = bootstrap
  BY <1>1 DEF Domain!Analysis, Domain!Begin, Domain!RdapBase, Domain!Assemble,
     Domain!Finish, Domain!FetchBootstrap, Domain!Rdap, Domain!Whois, Domain!DnsPart, Domain!WebPart
<1>2. Domain!OpenDialog \/ Domain!CancelAnalysis \/ Domain!Deliver => bootstrap' = bootstrap
  BY DEF Domain!OpenDialog, Domain!CancelAnalysis, Domain!Deliver
<1> QED BY <1>1, <1>2 DEF Domain!Next

\* All analyses see the bootstrap of the first fetch, and a report that is shown
\* is that of its own analysis, whose registration, dns and web parts had ended.
THEOREM AnalysesStayApart == Domain!Spec => AnalysesAreApart
<1>1. Domain!Init => Domain!IInv
  BY DialogsAssumption, CheckInit
<1>2. Domain!IInv /\ [Domain!Next]_Domain!vars => Domain!IInv'
  BY DialogsAssumption, CheckNext
<1>3. Domain!IInv => Domain!ReportIsWhole
  BY DEF Domain!IInv
<1>4. [Domain!Next]_Domain!vars => [bootstrap = "none" \/ bootstrap' = bootstrap]_Domain!vars
  BY CheckBootstrap
<1> QED
  BY <1>1, <1>2, <1>3, <1>4, PTL DEF Domain!Spec, AnalysesAreApart, Domain!AnalysesAreApart,
                                    Domain!BootstrapIsStable

-----------------------------------------------------------------------------
(* Origin discovery.                                                       *)

\* The score of some evidence.
LEMMA OriginScore == ASSUME NEW E PROVE Unmask!Score(E) \in 0..10
<1>1. /\ (IF "favicon" \in E THEN 4 ELSE 0) \in {0, 4}
      /\ (IF "body" \in E THEN 3 ELSE 0) \in {0, 3}
      /\ (IF "cert" \in E THEN 2 ELSE 0) \in {0, 2}
      /\ (IF "status" \in E THEN 1 ELSE 0) \in {0, 1}
  OBVIOUS
<1> QED BY <1>1 DEF Unmask!Score

\* Of some answers one is the best: the strongest, and of those the first.
LEMMA OriginBest ==
  ASSUME NEW H, H # {}, \A h \in H : h.port \in Nat
  PROVE  \E h \in H : Unmask!Best(H).evidence = h.evidence
<1> DEFINE T == {10 - Unmask!Score(g.evidence) : g \in H}
           IsBest(h) == \A g \in H :
                Unmask!Score(g.evidence) < Unmask!Score(h.evidence)
                \/ (Unmask!Score(g.evidence) = Unmask!Score(h.evidence) /\ h.port <= g.port)
<1>1. T \in SUBSET Nat /\ T # {}
  BY OriginScore
<1>2. PICK t \in T : \A e \in T : t <= e
  BY <1>1, Smallest
<1>3. PICK a \in H : t = 10 - Unmask!Score(a.evidence)
  BY <1>2
<1>4. \A g \in H : Unmask!Score(g.evidence) <= Unmask!Score(a.evidence)
  <2>1. SUFFICES ASSUME NEW g \in H PROVE Unmask!Score(g.evidence) <= Unmask!Score(a.evidence)
    OBVIOUS
  <2>2. Unmask!Score(g.evidence) \in 0..10 /\ Unmask!Score(a.evidence) \in 0..10
    BY OriginScore
  <2>3. t <= 10 - Unmask!Score(g.evidence)
    BY <1>2
  <2> QED BY <1>3, <2>2, <2>3
<1> DEFINE P == {h.port : h \in {g \in H : Unmask!Score(g.evidence) = Unmask!Score(a.evidence)}}
<1>5. P \in SUBSET Nat /\ P # {}
  BY <1>3
<1>6. PICK p \in P : \A q \in P : p <= q
  BY <1>5, Smallest
<1>7. PICK h \in H : Unmask!Score(h.evidence) = Unmask!Score(a.evidence) /\ h.port = p
  BY <1>6
<1>8. IsBest(h)
  <2>1. SUFFICES ASSUME NEW g \in H
                 PROVE  \/ Unmask!Score(g.evidence) < Unmask!Score(h.evidence)
                        \/ Unmask!Score(g.evidence) = Unmask!Score(h.evidence) /\ h.port <= g.port
    OBVIOUS
  <2>2. Unmask!Score(g.evidence) \in 0..10 /\ Unmask!Score(h.evidence) \in 0..10
    BY OriginScore
  <2>3. Unmask!Score(g.evidence) = Unmask!Score(h.evidence) => h.port <= g.port
    BY <1>6, <1>7
  <2> QED BY <1>4, <1>7, <2>2, <2>3
<1> DEFINE best == CHOOSE b \in H : IsBest(b)
<1>9. best \in H
  BY <1>8
<1>10. Unmask!Best(H).evidence = best.evidence
  BY DEF Unmask!Best
<1> HIDE DEF best
<1> QED BY <1>9, <1>10

\* A verdict above unlikely rests on a match, and on nothing of an intermediary.
LEMMA OriginClass ==
  ASSUME NEW E, Unmask!Classify(E) \in {"confirmed", "likely"}
  PROVE  "sni" \notin E /\ "proxy" \notin E /\ E \cap {"favicon", "body", "cert"} # {}
BY DEF Unmask!Classify

\* What is taken for an origin has earned it.
LEMMA OriginEarned ==
  ASSUME Unmask!OriginAssumption, NEW r \in Unmask!Runs, NEW c \in Candidates,
         Unmask!Follows(discovery[r], probe[r][c], c, found[r][c]),
         found[r][c].verdict \in {"confirmed", "likely"}
  PROVE  Unmask!Earned(r, c)
<1> DEFINE ports == Unmask!Asked(probe[r][c]) \ probe[r][c].failed
           H == Unmask!Hits(discovery[r].base, c, ports)
           sni == found[r][c].sni
           E == Unmask!Best(H).evidence \cup (IF sni THEN {"sni"} ELSE {})
<1>1. found[r][c] = Unmask!Deserved(discovery[r], probe[r][c], c, sni)
  BY DEF Unmask!Follows
<1>2. ~Unmask!IsFront(discovery[r], c) /\ H # {}
  <2>1. found[r][c] = IF Unmask!IsFront(discovery[r], c) THEN [Unmask!Dead EXCEPT !.verdict = "proxy"]
                      ELSE Unmask!Verdict(H, sni)
    BY <1>1 DEF Unmask!Deserved
  <2> HIDE DEF H, sni
  <2>2. ~Unmask!IsFront(discovery[r], c)
    BY <2>1 DEF Unmask!Dead
  <2>3. H # {}
    BY <2>1, <2>2 DEF Unmask!Verdict, Unmask!Dead
  <2> QED BY <2>2, <2>3
<1>3. found[r][c].verdict = Unmask!Classify(E)
  <2>1. found[r][c] = Unmask!Verdict(H, sni)
    BY <1>1, <1>2 DEF Unmask!Deserved
  <2> HIDE DEF H, sni
  <2> QED BY <1>2, <2>1 DEF Unmask!Verdict
<1>4. ports \subseteq Unmask!Probes \ probe[r][c].failed /\ Unmask!Probes \subseteq Nat
  BY <1>2 DEF Unmask!Follows, Unmask!OriginAssumption
<1> HIDE DEF ports
<1>5. \A h \in H : h.port \in Nat
  <2>1. \A n \in ports : Unmask!Hit(discovery[r].base, c, n).port \in Nat
    BY <1>4 DEF Unmask!Hit
  <2> QED BY <2>1 DEF Unmask!Hits
<1>6. PICK h \in H : Unmask!Best(H).evidence = h.evidence
  BY <1>2, <1>5, OriginBest
<1>7. "sni" \notin E /\ "proxy" \notin E /\ E \cap {"favicon", "body", "cert"} # {}
  BY <1>3, OriginClass
<1>8. ~sni
  BY <1>7
<1>9. PICK n \in ports : h = Unmask!Hit(discovery[r].base, c, n)
  BY <1>6 DEF Unmask!Hits
<1>10. h.evidence = Unmask!Compare(discovery[r].base, Unmask!Served(c, n))
  BY <1>9 DEF Unmask!Hit
<1>11. /\ "proxy" \notin Unmask!Served(c, n)
       /\ Unmask!Served(c, n) \cap discovery[r].base \cap {"favicon", "body", "cert"} # {}
  BY <1>6, <1>7, <1>8, <1>10 DEF Unmask!Compare
<1> QED BY <1>2, <1>4, <1>8, <1>11 DEF Unmask!Earned

\* No discovery has begun at first.
LEMMA OriginInit == Unmask!OriginAssumption /\ Unmask!Init => Unmask!IInv
<1> SUFFICES ASSUME Unmask!OriginAssumption, Unmask!Init PROVE Unmask!IInv
  OBVIOUS
<1>0. Unmask!Runs = 1..MaxDiscoveries /\ discoveries = 0 /\ \A r \in Unmask!Runs : ~(r <= 0) /\ discovery[r] = Unmask!Off /\ Unmask!Off.at = "off"
  BY DEF Unmask!OriginAssumption, Unmask!Runs, Unmask!Init, Unmask!Off
<1>1. \A r \in Unmask!Runs, c \in Candidates : probe[r][c] = Unmask!Idle
  BY DEF Unmask!Init
<1>2. Unmask!Idle.at = "none" /\ Unmask!Idle.out = {} /\ Unmask!Idle \in Unmask!ProbeRecords
  BY DEF Unmask!Idle, Unmask!ProbeRecords
<1>3. Unmask!TypeOK
  <2>1. 0 \in 0..0 /\ 0 \in 0..MaxDiscoveries
    BY DEF Unmask!OriginAssumption
  <2> QED BY <1>0, <1>1, <1>2, <2>1 DEF Unmask!Init, Unmask!TypeOK
<1>4. Unmask!RunsAreOpened
  <2>1. results = <<>> /\ results \in Seq(1..discoveries)
    BY DEF Unmask!Init
  <2> QED BY <1>0, <2>1 DEF Unmask!Init, Unmask!RunsAreOpened
<1>5. DOMAIN found = Unmask!Runs /\ \A r \in Unmask!Runs : DOMAIN found[r] = {}
  BY DEF Unmask!Init, Unmask!Nothing
<1>6. Unmask!ProbesAreRecords
  BY <1>0, <1>1, <1>2, <1>5 DEF Unmask!Init, Unmask!ProbesAreRecords
<1>7. Unmask!HitsAreAnswers
  BY <1>1, <1>2 DEF Unmask!HitsAreAnswers
<1>8. Unmask!VerdictsFollowProbes
  BY <1>0, <1>5 DEF Unmask!VerdictsFollowProbes
<1>9. Unmask!OriginsReachTheMap
  BY <1>0 DEF Unmask!Init, Unmask!OriginsReachTheMap
<1> QED BY <1>3, <1>4, <1>6, <1>7, <1>8, <1>9 DEF Unmask!IInv

\* Exactly the discoveries that were opened are records.
LEMMA OriginTyped ==
  ASSUME Unmask!OriginAssumption, Unmask!IInv
  PROVE  /\ discoveries \in Nat /\ discoveries \in 0..MaxDiscoveries /\ Unmask!Runs \subseteq Nat \ {0} /\ 1..discoveries \subseteq Unmask!Runs
         /\ \A r \in Unmask!Runs : discovery[r] # Unmask!Off => discovery[r] \in Unmask!RunRecords /\ r \in 1..discoveries
         /\ \A r \in Unmask!Runs : discovery[r].at # "off" => discovery[r] # Unmask!Off
         /\ \A r \in 1..discoveries : discovery[r] # Unmask!Off
<1>1. discoveries \in 0..MaxDiscoveries /\ MaxDiscoveries \in Nat /\ Unmask!Runs = 1..MaxDiscoveries
  BY DEF Unmask!IInv, Unmask!TypeOK, Unmask!OriginAssumption, Unmask!Runs
<1>2. \A r \in Unmask!Runs : discovery[r] # Unmask!Off => discovery[r] \in Unmask!RunRecords /\ r \in 1..discoveries
  BY <1>1 DEF Unmask!IInv, Unmask!RunsAreOpened
<1>3. \A r \in Unmask!Runs : discovery[r].at # "off" => discovery[r] # Unmask!Off
  BY DEF Unmask!Off
<1>4. \A r \in 1..discoveries : discovery[r].at # "off"
  <2>1. ASSUME NEW r \in 1..discoveries PROVE discovery[r].at # "off"
    <3>1. discovery[r] \in Unmask!RunRecords
      BY <1>1 DEF Unmask!IInv, Unmask!RunsAreOpened
    <3> QED BY <3>1 DEF Unmask!RunRecords
  <2> QED BY <2>1
<1>5. \A r \in 1..discoveries : discovery[r] # Unmask!Off
  BY <1>4 DEF Unmask!Off
<1> QED BY <1>1, <1>2, <1>3, <1>5

\* Nothing that a run has found depends on what else becomes of it: another
\* phase before the candidates are known, a cancellation, or a delivery.
LEMMA OriginRuns ==
  ASSUME Unmask!OriginAssumption, Unmask!IInv, DOMAIN discovery' = Unmask!Runs,
         \A r \in Unmask!Runs :
           \/ discovery'[r] = discovery[r]
           \/ /\ discovery[r] \in Unmask!RunRecords /\ discovery'[r] \in Unmask!RunRecords
              /\ discovery'[r].base = discovery[r].base /\ discovery'[r].proxied = discovery[r].proxied
              /\ discovery'[r].located = discovery[r].located /\ (discovery[r].cancelled => discovery'[r].cancelled)
              /\ discovery'[r].at = discovery[r].at \/ {discovery[r].at, discovery'[r].at} \subseteq {"begin", "baseline"},
         UNCHANGED <<probe, found, discoveries>>, originSlot' \in 0..discoveries, results' \in Seq(1..discoveries),
         markers' \subseteq Candidates,
         \A c \in markers' : \E r \in Unmask!Runs : c \in Unmask!Origins(r)
  PROVE  Unmask!IInv'
<1>1. ASSUME NEW r \in Unmask!Runs PROVE discovery[r] # Unmask!Off <=> discovery'[r] # Unmask!Off
  <2>1. discovery[r] \in Unmask!RunRecords => discovery[r] # Unmask!Off
    BY DEF Unmask!RunRecords, Unmask!Off
  <2>2. discovery'[r] \in Unmask!RunRecords => discovery'[r] # Unmask!Off
    BY DEF Unmask!RunRecords, Unmask!Off
  <2> QED BY <2>1, <2>2
<1>2. \A r \in Unmask!Runs : discovery[r].cancelled => discovery'[r].cancelled
  OBVIOUS
<1>3. \A r \in Unmask!Runs : /\ discovery'[r].base = discovery[r].base /\ discovery'[r].proxied = discovery[r].proxied
                             /\ discovery'[r].located = discovery[r].located
                             /\ discovery'[r].at = discovery[r].at \/ {discovery[r].at, discovery'[r].at} \subseteq {"begin", "baseline"}
  OBVIOUS
<1>4. Unmask!TypeOK' /\ Unmask!RunsAreOpened'
  <2>1. Unmask!TypeOK'
    BY DEF Unmask!IInv, Unmask!TypeOK, Unmask!Runs
  <2>2. \A r \in Unmask!Runs : IF r <= discoveries THEN discovery'[r] \in Unmask!RunRecords ELSE discovery'[r] = Unmask!Off
    <3>1. ASSUME NEW r \in Unmask!Runs, ~(r <= discoveries) PROVE discovery'[r] = Unmask!Off
      <4>1. discovery[r] = Unmask!Off
        BY <3>1 DEF Unmask!IInv, Unmask!RunsAreOpened
      <4>2. discovery[r] \notin Unmask!RunRecords
        BY <4>1 DEF Unmask!Off, Unmask!RunRecords
      <4> QED BY <4>1, <4>2
    <3>2. ASSUME NEW r \in Unmask!Runs, r <= discoveries PROVE discovery'[r] \in Unmask!RunRecords
      BY <3>2 DEF Unmask!IInv, Unmask!RunsAreOpened
    <3> QED BY <3>1, <3>2
  <2> QED BY <2>1, <2>2 DEF Unmask!RunsAreOpened, Unmask!RunRecords, Unmask!Bases, Unmask!Runs,
             Unmask!Off
<1>5. Unmask!ProbesAreRecords'
  BY <1>3 DEF Unmask!IInv, Unmask!ProbesAreRecords, Unmask!ProbeRecords, Unmask!AllEvidence,
     Unmask!Runs
<1>6. Unmask!HitsAreAnswers'
  BY <1>3 DEF Unmask!IInv, Unmask!HitsAreAnswers, Unmask!Runs, Unmask!IsFront
<1>7. Unmask!VerdictsFollowProbes'
  <2>1. ASSUME NEW r \in Unmask!Runs
        PROVE  /\ \A c \in DOMAIN found[r] : Unmask!Follows(discovery'[r], probe[r][c], c, found[r][c])
               /\ \A c \in Candidates : Unmask!Complete(discovery'[r], probe[r][c], c)
                                        <=> Unmask!Complete(discovery[r], probe[r][c], c)
    <3>1. ASSUME NEW c \in Candidates
          PROVE  Unmask!IsFront(discovery'[r], c) <=> Unmask!IsFront(discovery[r], c)
      BY <1>3 DEF Unmask!IsFront
    <3>2. ASSUME NEW c \in DOMAIN found[r]
          PROVE  Unmask!Follows(discovery'[r], probe[r][c], c, found[r][c])
      <4>1. c \in Candidates /\ Unmask!Follows(discovery[r], probe[r][c], c, found[r][c])
        BY DEF Unmask!IInv, Unmask!VerdictsFollowProbes
      <4>2. discovery'[r].base = discovery[r].base
        BY <1>3
      <4> QED BY <3>1, <4>1, <4>2 DEF Unmask!Follows, Unmask!Deserved
    <3>3. ASSUME NEW c \in Candidates
          PROVE  Unmask!Complete(discovery'[r], probe[r][c], c)
                   <=> Unmask!Complete(discovery[r], probe[r][c], c)
      BY <3>1 DEF Unmask!Complete
    <3> QED BY <3>2, <3>3
  <2>2. ASSUME NEW r \in Unmask!Runs
        PROVE  /\ DOMAIN found[r] \subseteq {c \in Candidates : probe[r][c].at = "over"}
               /\ discovery'[r] # Unmask!Off /\ ~discovery'[r].cancelled =>
                    \A c \in Candidates : probe[r][c].at = "over" =>
                       c \in DOMAIN found[r] /\ Unmask!Complete(discovery'[r], probe[r][c], c)
    BY <1>1, <1>2, <2>1 DEF Unmask!IInv, Unmask!VerdictsFollowProbes
  <2> QED BY <2>1, <2>2 DEF Unmask!VerdictsFollowProbes, Unmask!Runs
<1>8. Unmask!OriginsReachTheMap'
  BY <1>1, <1>3 DEF Unmask!IInv, Unmask!OriginsReachTheMap, Unmask!Origins, Unmask!Runs
<1> QED BY <1>4, <1>5, <1>6, <1>7, <1>8 DEF Unmask!IInv

\* What the cancellation of the slot's run changes.
LEMMA OriginCancels ==
  ASSUME Unmask!OriginAssumption, Unmask!IInv
  PROVE  /\ DOMAIN Unmask!CancelSlot = Unmask!Runs
         /\ \A r \in Unmask!Runs :
              \/ Unmask!CancelSlot[r] = discovery[r]
              \/ /\ discovery[r] \in Unmask!RunRecords /\ Unmask!CancelSlot[r] \in Unmask!RunRecords
                 /\ Unmask!CancelSlot[r].base = discovery[r].base /\ Unmask!CancelSlot[r].proxied = discovery[r].proxied
                 /\ Unmask!CancelSlot[r].located = discovery[r].located /\ Unmask!CancelSlot[r].cancelled
                 /\ Unmask!CancelSlot[r].at = discovery[r].at
<1>1. DOMAIN discovery = Unmask!Runs /\ originSlot \in 0..discoveries
  BY DEF Unmask!IInv, Unmask!RunsAreOpened, Unmask!TypeOK
<1>2. CASE originSlot = 0
  BY <1>1, <1>2 DEF Unmask!CancelSlot
<1>3. CASE originSlot # 0
  <2>1. originSlot \in 1..discoveries /\ originSlot \in Unmask!Runs
    BY <1>1, <1>3, OriginTyped
  <2>2. discovery[originSlot] \in Unmask!RunRecords
    BY <2>1, OriginTyped
  <2> DEFINE x == [discovery[originSlot] EXCEPT !.cancelled = TRUE]
  <2>3. /\ x \in Unmask!RunRecords /\ x.base = discovery[originSlot].base /\ x.proxied = discovery[originSlot].proxied
        /\ x.located = discovery[originSlot].located /\ x.cancelled /\ x.at = discovery[originSlot].at
    BY <2>2 DEF Unmask!RunRecords
  <2>4. Unmask!CancelSlot = [discovery EXCEPT ![originSlot] = x]
    BY <1>1, <1>3, <2>1 DEF Unmask!CancelSlot
  <2> HIDE DEF x
  <2> QED BY <1>1, <2>1, <2>2, <2>3, <2>4
<1> QED BY <1>2, <1>3

\* The dialog only reads what a discovery has posted.
LEMMA OriginDialog ==
  ASSUME Unmask!OriginAssumption, Unmask!IInv, Unmask!CancelUnmask \/ Unmask!Deliver \/ UNCHANGED Unmask!vars PROVE Unmask!IInv'
<1>1. CASE Unmask!CancelUnmask
  <2>1. discovery' = Unmask!CancelSlot /\ UNCHANGED <<originSlot, probe, found, shown, markers, discoveries, results>>
    BY <1>1 DEF Unmask!CancelUnmask
  <2> QED BY <2>1, OriginCancels, OriginRuns DEF Unmask!IInv, Unmask!TypeOK,
             Unmask!RunsAreOpened, Unmask!OriginsReachTheMap
<1>2. CASE UNCHANGED Unmask!vars
  <2>1. UNCHANGED <<discovery, originSlot, probe, found, shown, markers, discoveries, results>>
    BY <1>2 DEF Unmask!vars
  <2> QED BY <2>1, OriginRuns DEF Unmask!IInv, Unmask!TypeOK, Unmask!RunsAreOpened,
             Unmask!OriginsReachTheMap
<1>3. CASE Unmask!Deliver
  <2> DEFINE r == Head(results)
  <2>1. /\ results # <<>> /\ results' = Tail(results) /\ markers' = markers \cup discovery[r].located
        /\ UNCHANGED <<discovery, originSlot, probe, found, discoveries>>
    BY <1>3 DEF Unmask!Deliver
  <2>2. results \in Seq(1..discoveries)
    BY DEF Unmask!IInv, Unmask!RunsAreOpened
  <2>3. r \in 1..discoveries /\ results' \in Seq(1..discoveries)
    <3> DEFINE S == 1..discoveries
    <3>1. results \in Seq(S) /\ results # <<>>
      BY <2>1, <2>2
    <3> HIDE DEF S
    <3>2. Head(results) \in S /\ Tail(results) \in Seq(S)
      BY <3>1
    <3> QED BY <2>1, <3>2 DEF S
  <2> HIDE DEF r
  <2>4. r \in Unmask!Runs /\ discovery[r] # Unmask!Off /\ discovery[r].located \subseteq Candidates
    BY <2>3, OriginTyped DEF Unmask!RunRecords
  <2>5. \A c \in markers' : \E q \in Unmask!Runs : c \in Unmask!Origins(q)
    BY <2>1, <2>4 DEF Unmask!IInv, Unmask!OriginsReachTheMap
  <2> QED BY <2>1, <2>3, <2>4, <2>5, OriginRuns DEF Unmask!IInv, Unmask!TypeOK, Unmask!RunsAreOpened
<1> QED BY <1>1, <1>2, <1>3

\* A discovery that begins takes the slot.
LEMMA OriginBegin ==
  ASSUME Unmask!OriginAssumption, Unmask!IInv, NEW r \in Unmask!Runs, Unmask!Begin(r) PROVE Unmask!IInv'
<1>1. /\ discovery[r].at = "begin" /\ discovery' = [Unmask!CancelSlot EXCEPT ![r].at = "baseline"] /\ originSlot' = r
      /\ UNCHANGED <<probe, found, shown, markers, discoveries, results>>
  BY DEF Unmask!Begin
<1>2. discovery[r] # Unmask!Off
  BY <1>1 DEF Unmask!Off
<1>3. discovery[r] \in Unmask!RunRecords /\ r \in 1..discoveries
  BY <1>2, OriginTyped
<1> DEFINE y == Unmask!CancelSlot[r]
           x == [y EXCEPT !.at = "baseline"]
<1>4. /\ y \in Unmask!RunRecords /\ y.base = discovery[r].base /\ y.proxied = discovery[r].proxied
      /\ y.located = discovery[r].located /\ (discovery[r].cancelled => y.cancelled) /\ y.at = discovery[r].at
  BY <1>3, OriginCancels
<1>5. discovery' = [Unmask!CancelSlot EXCEPT ![r] = x]
  BY <1>1, OriginCancels
<1> HIDE DEF y
<1>6. /\ x \in Unmask!RunRecords /\ x.base = y.base /\ x.proxied = y.proxied
      /\ x.located = y.located /\ x.cancelled = y.cancelled /\ x.at = "baseline"
  BY <1>4 DEF Unmask!RunRecords
<1> HIDE DEF x
<1>7. DOMAIN discovery' = Unmask!Runs /\ discovery'[r] = x /\ \A q \in Unmask!Runs : q # r => discovery'[q] = Unmask!CancelSlot[q]
  BY <1>5, OriginCancels
<1>8. \A q \in Unmask!Runs :
           \/ discovery'[q] = discovery[q]
           \/ /\ discovery[q] \in Unmask!RunRecords /\ discovery'[q] \in Unmask!RunRecords
              /\ discovery'[q].base = discovery[q].base /\ discovery'[q].proxied = discovery[q].proxied
              /\ discovery'[q].located = discovery[q].located /\ (discovery[q].cancelled => discovery'[q].cancelled)
              /\ discovery'[q].at = discovery[q].at \/ {discovery[q].at, discovery'[q].at} \subseteq {"begin", "baseline"}
  <2>1. TAKE q \in Unmask!Runs
  <2>2. CASE q = r
    BY <1>1, <1>3, <1>4, <1>6, <1>7, <2>2
  <2>3. CASE q # r
    BY <1>7, <2>3, OriginCancels
  <2> QED BY <2>2, <2>3
<1>9. originSlot' \in 0..discoveries
  BY <1>1, <1>3, OriginTyped
<1> QED BY <1>1, <1>7, <1>8, <1>9, OriginRuns DEF Unmask!IInv, Unmask!TypeOK,
           Unmask!RunsAreOpened, Unmask!OriginsReachTheMap

\* A new discovery starts with no evidence.
LEMMA OriginOpens ==
  ASSUME Unmask!OriginAssumption, Unmask!IInv, Unmask!OpenDialog PROVE Unmask!IInv'
<1> DEFINE n == discoveries + 1
           x == [at |-> "begin", cancelled |-> FALSE, proxied |-> FALSE, base |-> {}, located |-> {}]
<1>1. /\ discoveries < MaxDiscoveries /\ discoveries' = n /\ discovery' = [discovery EXCEPT ![n] = x]
      /\ UNCHANGED <<originSlot, probe, found, shown, markers, results>>
  BY DEF Unmask!OpenDialog
<1>2. n \in Unmask!Runs /\ discoveries \in Nat /\ MaxDiscoveries \in Nat /\ n \in Nat /\ ~(n <= discoveries)
      /\ 1..discoveries \subseteq 1..n /\ n \in 0..MaxDiscoveries /\ 0..discoveries \subseteq 0..n
      /\ \A r \in Unmask!Runs : r # n => (r <= n <=> r <= discoveries)
  BY <1>1, OriginTyped DEF Unmask!Runs, Unmask!OriginAssumption
<1>3. discovery[n] = Unmask!Off
  BY <1>2 DEF Unmask!IInv, Unmask!RunsAreOpened
<1>4. /\ x \in Unmask!RunRecords /\ x.at = "begin" /\ x.located = {} /\ ~x.cancelled
  <2>1. FALSE \in BOOLEAN /\ {} \in Unmask!Bases /\ {} \in SUBSET Candidates
    BY DEF Unmask!Bases
  <2>2. x.at = "begin" /\ x.located = {} /\ ~x.cancelled
    OBVIOUS
  <2> QED BY <2>1, <2>2 DEF Unmask!RunRecords
<1> HIDE DEF x
<1>5. DOMAIN discovery' = Unmask!Runs /\ discovery'[n] = x /\ \A r \in Unmask!Runs : r # n => discovery'[r] = discovery[r]
  BY <1>1, <1>2 DEF Unmask!IInv, Unmask!RunsAreOpened
<1>6. Unmask!Off.at = "off"
  BY DEF Unmask!Off
<1>7. Unmask!TypeOK'
  BY <1>1, <1>2 DEF Unmask!IInv, Unmask!TypeOK, Unmask!Runs
<1>8. Unmask!RunsAreOpened'
  <2>1. \A r \in Unmask!Runs : IF r <= n THEN discovery'[r] \in Unmask!RunRecords ELSE discovery'[r] = Unmask!Off
    <3>1. ASSUME NEW r \in Unmask!Runs, r # n
          PROVE  IF r <= n THEN discovery'[r] \in Unmask!RunRecords ELSE discovery'[r] = Unmask!Off
      <4>1. IF r <= discoveries THEN discovery[r] \in Unmask!RunRecords ELSE discovery[r] = Unmask!Off
        BY DEF Unmask!IInv, Unmask!RunsAreOpened
      <4> QED BY <1>2, <1>5, <3>1, <4>1
    <3>2. n <= n
      BY <1>2
    <3> QED BY <1>4, <1>5, <3>1, <3>2
  <2>2. results' \in Seq(1..n)
    BY <1>1, <1>2 DEF Unmask!IInv, Unmask!RunsAreOpened
  <2> QED BY <1>1, <1>5, <2>1, <2>2 DEF Unmask!RunsAreOpened, Unmask!RunRecords, Unmask!Bases,
             Unmask!Runs, Unmask!Off
<1> HIDE DEF n
<1>9. \A c \in Candidates : probe[n][c].at = "none"
  BY <1>2, <1>3, <1>6 DEF Unmask!IInv, Unmask!ProbesAreRecords
<1>10. Unmask!ProbesAreRecords'
  <2>1. ASSUME NEW r \in Unmask!Runs
        PROVE  /\ discovery'[r].at \in {"off", "begin", "baseline"} =>
                          DOMAIN found[r] = {} /\ \A c \in Candidates : probe[r][c].at = "none"
               /\ discovery'[r].at = "verify" => \A c \in Candidates : probe[r][c].at # "none"
               /\ discovery'[r].at = "back" => \A c \in Candidates : probe[r][c].at = "over"
    <3>1. CASE r = n
      BY <1>3, <1>4, <1>5, <1>6, <3>1 DEF Unmask!IInv, Unmask!ProbesAreRecords
    <3>2. CASE r # n
      BY <1>5, <3>2 DEF Unmask!IInv, Unmask!ProbesAreRecords
    <3> QED BY <3>1, <3>2
  <2> QED BY <1>1, <2>1 DEF Unmask!IInv, Unmask!ProbesAreRecords, Unmask!ProbeRecords,
             Unmask!AllEvidence, Unmask!Runs
<1>11. Unmask!HitsAreAnswers'
  <2>1. ASSUME NEW r \in Unmask!Runs, NEW c \in Candidates, probe[r][c].at = "probe" PROVE discovery'[r] = discovery[r]
    BY <1>5, <1>9, <2>1
  <2> QED BY <1>1, <2>1 DEF Unmask!IInv, Unmask!HitsAreAnswers, Unmask!Runs
<1>12. Unmask!VerdictsFollowProbes'
  <2>1. ASSUME NEW r \in Unmask!Runs
        PROVE  /\ DOMAIN found[r] \subseteq {c \in Candidates : probe[r][c].at = "over"}
               /\ \A c \in DOMAIN found[r] : Unmask!Follows(discovery'[r], probe[r][c], c, found[r][c])
               /\ discovery'[r] # Unmask!Off /\ ~discovery'[r].cancelled =>
                          \A c \in Candidates : probe[r][c].at = "over" =>
                             c \in DOMAIN found[r] /\ Unmask!Complete(discovery'[r], probe[r][c], c)
    <3>1. CASE r = n
      BY <1>9, <3>1 DEF Unmask!IInv, Unmask!VerdictsFollowProbes
    <3>2. CASE r # n
      BY <1>5, <3>2 DEF Unmask!IInv, Unmask!VerdictsFollowProbes
    <3> QED BY <3>1, <3>2
  <2> QED BY <1>1, <2>1 DEF Unmask!VerdictsFollowProbes, Unmask!Runs
<1>13. Unmask!OriginsReachTheMap'
  BY <1>1, <1>3, <1>4, <1>5 DEF Unmask!IInv, Unmask!OriginsReachTheMap, Unmask!Origins, Unmask!Runs
<1> QED BY <1>7, <1>8, <1>10, <1>11, <1>12, <1>13 DEF Unmask!IInv

\* The baseline is taken before any candidate is probed.
LEMMA OriginBaseline ==
  ASSUME Unmask!OriginAssumption, Unmask!IInv, NEW r \in Unmask!Runs, NEW base \in Unmask!Bases, NEW proxied \in BOOLEAN,
         Unmask!Baseline(r, base, proxied)
  PROVE  Unmask!IInv'
<1> DEFINE x == [discovery[r] EXCEPT !.at = "verify", !.base = base, !.proxied = proxied]
           q0 == [Unmask!Idle EXCEPT !.at = "queued"]
           row == [c \in Candidates |-> q0]
<1>1. /\ discovery[r].at = "baseline"
      /\ discovery' = [discovery EXCEPT ![r].at = "verify", ![r].base = base, ![r].proxied = proxied]
      /\ probe' = [probe EXCEPT ![r] = row]
      /\ UNCHANGED <<originSlot, found, shown, markers, discoveries, results>>
  BY DEF Unmask!Baseline
<1>2. discovery[r] # Unmask!Off
  BY <1>1 DEF Unmask!Off
<1>3. discovery[r] \in Unmask!RunRecords /\ r \in 1..discoveries
  BY <1>2, OriginTyped
<1>4. discovery' = [discovery EXCEPT ![r] = x]
  BY <1>1 DEF Unmask!IInv, Unmask!RunsAreOpened
<1>5. /\ x \in Unmask!RunRecords /\ x.at = "verify" /\ x.located = discovery[r].located
      /\ x.cancelled = discovery[r].cancelled
  BY <1>3 DEF Unmask!RunRecords
<1> HIDE DEF x
<1>6. DOMAIN discovery' = Unmask!Runs /\ discovery'[r] = x /\ \A q \in Unmask!Runs : q # r => discovery'[q] = discovery[q]
  BY <1>4 DEF Unmask!IInv, Unmask!RunsAreOpened
<1>7. /\ q0 \in Unmask!ProbeRecords /\ q0.at = "queued" /\ q0.next = 1 /\ q0.out = {} /\ q0.failed = {}
      /\ q0.hits = {}
  BY DEF Unmask!Idle, Unmask!ProbeRecords
<1> HIDE DEF q0
<1>8. row \in [Candidates -> Unmask!ProbeRecords] /\ \A c \in Candidates : row[c] = q0
  BY <1>7
<1> HIDE DEF row
<1>9. probe' \in [Unmask!Runs -> [Candidates -> Unmask!ProbeRecords]] /\ probe'[r] = row
      /\ \A q \in Unmask!Runs : q # r => probe'[q] = probe[q]
  BY <1>1, <1>8 DEF Unmask!IInv, Unmask!ProbesAreRecords
<1>10. DOMAIN found[r] = {}
  BY <1>1 DEF Unmask!IInv, Unmask!ProbesAreRecords
<1>11. Unmask!TypeOK'
  <2>1. \A q \in Unmask!Runs, c \in Candidates : probe'[q][c] \in Unmask!ProbeRecords
    BY <1>9
  <2>2. \A p \in Unmask!ProbeRecords : p.out \subseteq Unmask!Probes /\ p.at \in {"none", "queued", "probe", "over"}
    BY DEF Unmask!ProbeRecords
  <2> QED BY <1>1, <2>1, <2>2 DEF Unmask!IInv, Unmask!TypeOK, Unmask!Runs
<1>12. Unmask!RunsAreOpened'
  <2>1. \A q \in Unmask!Runs : IF q <= discoveries THEN discovery'[q] \in Unmask!RunRecords ELSE discovery'[q] = Unmask!Off
    BY <1>2, <1>5, <1>6 DEF Unmask!IInv, Unmask!RunsAreOpened
  <2> QED BY <1>1, <1>6, <2>1 DEF Unmask!IInv, Unmask!RunsAreOpened, Unmask!RunRecords,
             Unmask!Bases, Unmask!Runs, Unmask!Off
<1>13. Unmask!ProbesAreRecords'
  <2>1. ASSUME NEW q \in Unmask!Runs
        PROVE  /\ discovery'[q].at \in {"off", "begin", "baseline"} =>
                          DOMAIN found[q] = {} /\ \A c \in Candidates : probe'[q][c].at = "none"
               /\ discovery'[q].at = "verify" => \A c \in Candidates : probe'[q][c].at # "none"
               /\ discovery'[q].at = "back" => \A c \in Candidates : probe'[q][c].at = "over"
    <3>1. CASE q = r
      BY <1>5, <1>6, <1>7, <1>8, <1>9, <3>1
    <3>2. CASE q # r
      BY <1>6, <1>9, <3>2 DEF Unmask!IInv, Unmask!ProbesAreRecords
    <3> QED BY <3>1, <3>2
  <2>2. DOMAIN found' = Unmask!Runs
    BY <1>1 DEF Unmask!IInv, Unmask!ProbesAreRecords
  <2>3. \A q \in Unmask!Runs : found'[q] = found[q]
    BY <1>1
  <2> QED BY <1>9, <2>1, <2>2, <2>3 DEF Unmask!ProbesAreRecords
<1>14. Unmask!HitsAreAnswers'
  <2>1. ASSUME NEW q \in Unmask!Runs, NEW c \in Candidates, q # r
        PROVE  discovery'[q] = discovery[q] /\ probe'[q][c] = probe[q][c]
    BY <1>6, <1>9, <2>1
  <2>2. ASSUME NEW c \in Candidates PROVE probe'[r][c] = q0
    BY <1>8, <1>9
  <2> QED BY <1>7, <2>1, <2>2 DEF Unmask!IInv, Unmask!HitsAreAnswers, Unmask!Runs
<1>15. Unmask!VerdictsFollowProbes'
  <2>1. ASSUME NEW q \in Unmask!Runs
        PROVE  /\ DOMAIN found[q] \subseteq {c \in Candidates : probe'[q][c].at = "over"}
               /\ \A c \in DOMAIN found[q] : Unmask!Follows(discovery'[q], probe'[q][c], c, found[q][c])
               /\ discovery'[q] # Unmask!Off /\ ~discovery'[q].cancelled =>
                          \A c \in Candidates : probe'[q][c].at = "over" =>
                             c \in DOMAIN found[q] /\ Unmask!Complete(discovery'[q], probe'[q][c], c)
    <3>1. CASE q = r
      BY <1>7, <1>8, <1>9, <1>10, <3>1
    <3>2. CASE q # r
      BY <1>6, <1>9, <3>2 DEF Unmask!IInv, Unmask!VerdictsFollowProbes
    <3> QED BY <3>1, <3>2
  <2> QED BY <1>1, <2>1 DEF Unmask!VerdictsFollowProbes, Unmask!Runs
<1>16. Unmask!OriginsReachTheMap'
  BY <1>1, <1>2, <1>5, <1>6 DEF Unmask!IInv, Unmask!OriginsReachTheMap, Unmask!Origins, Unmask!Runs
<1> QED BY <1>11, <1>12, <1>13, <1>14, <1>15, <1>16 DEF Unmask!IInv

\* A step of the goroutine that verifies one candidate.
LEMMA OriginProbe ==
  ASSUME Unmask!OriginAssumption, Unmask!IInv, NEW r \in Unmask!Runs, NEW c \in Candidates, NEW p \in Unmask!ProbeRecords,
         probe[r][c].at \in {"queued", "probe"}, p.at \in {"probe", "over"},
         probe' = [probe EXCEPT ![r] = [probe[r] EXCEPT ![c] = p]],
         UNCHANGED <<discovery, originSlot, markers, discoveries, results>>,
         p.at = "probe" => ~Unmask!IsFront(discovery[r], c) /\ Unmask!HasAnswers(discovery[r].base, c, p),
         p.at = "over" => p.out = {}, NEW o,
         \/ found' = found /\ (p.at = "over" => discovery[r].cancelled)
         \/ /\ Unmask!Found(r, c, o) /\ p.at = "over" /\ Unmask!Follows(discovery[r], p, c, o)
            /\ ~discovery[r].cancelled => Unmask!Complete(discovery[r], p, c)
  PROVE  Unmask!IInv'
<1>1. /\ probe \in [Unmask!Runs -> [Candidates -> Unmask!ProbeRecords]] /\ DOMAIN found = Unmask!Runs
      /\ c \notin DOMAIN found[r]
  BY DEF Unmask!IInv, Unmask!ProbesAreRecords, Unmask!VerdictsFollowProbes
<1>2. /\ probe' \in [Unmask!Runs -> [Candidates -> Unmask!ProbeRecords]] /\ probe'[r][c] = p
      /\ \A q \in Unmask!Runs, d \in Candidates : q # r \/ d # c => probe'[q][d] = probe[q][d]
  BY <1>1
<1>3. /\ DOMAIN found' = Unmask!Runs /\ \A q \in Unmask!Runs : q # r => found'[q] = found[q]
      /\ DOMAIN found[r] \subseteq DOMAIN found'[r] /\ DOMAIN found'[r] \subseteq DOMAIN found[r] \cup {c}
      /\ \A d \in DOMAIN found[r] : d # c /\ found'[r][d] = found[r][d]
      /\ c \in DOMAIN found'[r] => p.at = "over" /\ Unmask!Follows(discovery[r], p, c, found'[r][c])
      /\ p.at = "over" /\ ~discovery[r].cancelled => c \in DOMAIN found'[r] /\ Unmask!Complete(discovery[r], p, c)
      /\ p.at = "probe" => DOMAIN found'[r] = DOMAIN found[r]
  BY <1>1 DEF Unmask!Found
<1>4. discovery[r].at = "verify"
  <2>1. discovery[r].at \notin {"off", "begin", "baseline", "back"}
    BY DEF Unmask!IInv, Unmask!ProbesAreRecords
  <2>2. discovery[r] # Unmask!Off
    BY <2>1 DEF Unmask!Off
  <2>3. discovery[r] \in Unmask!RunRecords
    BY <2>2, OriginTyped
  <2> QED BY <2>1, <2>3 DEF Unmask!RunRecords
<1>5. Unmask!TypeOK'
  <2>1. \A q \in Unmask!Runs, d \in Candidates : probe'[q][d] \in Unmask!ProbeRecords
    BY <1>2
  <2>2. \A x \in Unmask!ProbeRecords : x.out \subseteq Unmask!Probes /\ x.at \in {"none", "queued", "probe", "over"}
    BY DEF Unmask!ProbeRecords
  <2> QED BY <2>1, <2>2 DEF Unmask!IInv, Unmask!TypeOK, Unmask!Runs
<1>6. Unmask!RunsAreOpened'
  BY DEF Unmask!IInv, Unmask!RunsAreOpened, Unmask!RunRecords, Unmask!Bases, Unmask!Runs, Unmask!Off
<1>7. Unmask!ProbesAreRecords'
  <2>1. ASSUME NEW q \in Unmask!Runs
        PROVE  /\ discovery[q].at \in {"off", "begin", "baseline"} =>
                          DOMAIN found'[q] = {} /\ \A d \in Candidates : probe'[q][d].at = "none"
               /\ discovery[q].at = "verify" => \A d \in Candidates : probe'[q][d].at # "none"
               /\ discovery[q].at = "back" => \A d \in Candidates : probe'[q][d].at = "over"
    <3>1. CASE q = r
      BY <1>2, <1>4, <3>1 DEF Unmask!IInv, Unmask!ProbesAreRecords
    <3>2. CASE q # r
      BY <1>2, <1>3, <3>2 DEF Unmask!IInv, Unmask!ProbesAreRecords
    <3> QED BY <3>1, <3>2
  <2> QED BY <1>2, <1>3, <2>1 DEF Unmask!ProbesAreRecords
<1>8. Unmask!HitsAreAnswers'
  <2>1. ASSUME NEW q \in Unmask!Runs, NEW d \in Candidates
        PROVE  LET x == probe'[q][d]
               IN /\ x.at = "queued" => x.next = 1 /\ x.hits = {} /\ x.failed = {}
                  /\ x.at # "probe" => x.out = {}
                  /\ x.at = "probe" => ~Unmask!IsFront(discovery[q], d) /\ Unmask!HasAnswers(discovery[q].base, d, x)
    BY <1>2 DEF Unmask!IInv, Unmask!HitsAreAnswers
  <2> QED BY <2>1 DEF Unmask!HitsAreAnswers, Unmask!Runs
<1>9. Unmask!VerdictsFollowProbes'
  <2>1. ASSUME NEW q \in Unmask!Runs
        PROVE  /\ DOMAIN found'[q] \subseteq {d \in Candidates : probe'[q][d].at = "over"}
               /\ \A d \in DOMAIN found'[q] : Unmask!Follows(discovery[q], probe'[q][d], d, found'[q][d])
               /\ discovery[q] # Unmask!Off /\ ~discovery[q].cancelled =>
                          \A d \in Candidates : probe'[q][d].at = "over" =>
                             d \in DOMAIN found'[q] /\ Unmask!Complete(discovery[q], probe'[q][d], d)
    <3>1. /\ DOMAIN found[q] \subseteq {d \in Candidates : probe[q][d].at = "over"}
          /\ \A d \in DOMAIN found[q] : Unmask!Follows(discovery[q], probe[q][d], d, found[q][d])
          /\ discovery[q] # Unmask!Off /\ ~discovery[q].cancelled =>
                     \A d \in Candidates : probe[q][d].at = "over" =>
                        d \in DOMAIN found[q] /\ Unmask!Complete(discovery[q], probe[q][d], d)
      BY DEF Unmask!IInv, Unmask!VerdictsFollowProbes
    <3>2. CASE q # r
      BY <1>2, <1>3, <3>1, <3>2
    <3>3. CASE q = r
      BY <1>2, <1>3, <3>1, <3>3
    <3> QED BY <3>2, <3>3
  <2> QED BY <2>1 DEF Unmask!VerdictsFollowProbes, Unmask!Runs
<1>10. Unmask!OriginsReachTheMap'
  <2>1. ASSUME NEW q \in Unmask!Runs PROVE Unmask!Origins(q) \subseteq Unmask!Origins(q)'
    BY <1>3 DEF Unmask!Origins
  <2> QED BY <2>1 DEF Unmask!IInv, Unmask!OriginsReachTheMap, Unmask!Runs
<1> QED BY <1>5, <1>6, <1>7, <1>8, <1>9, <1>10 DEF Unmask!IInv

\* A probe's record, before its next step.
LEMMA OriginLive ==
  ASSUME Unmask!OriginAssumption, Unmask!IInv, NEW r \in Unmask!Runs, NEW c \in Candidates
  PROVE  /\ probe[r][c] \in Unmask!ProbeRecords
         /\ \A p : [probe EXCEPT ![r][c] = p] = [probe EXCEPT ![r] = [probe[r] EXCEPT ![c] = p]]
BY DEF Unmask!IInv, Unmask!ProbesAreRecords

\* A candidate's probes start, or it is given up, without an answer so far.
LEMMA OriginVerify ==
  ASSUME Unmask!OriginAssumption, Unmask!IInv, NEW r \in Unmask!Runs, NEW c \in Candidates, Unmask!Verify(r, c) \/ Unmask!GiveUp(r, c)
  PROVE  Unmask!IInv'
<1> DEFINE over == [probe[r][c] EXCEPT !.at = "over"]
           busy == [probe[r][c] EXCEPT !.at = "probe"]
<1>1. /\ probe[r][c].at = "queued" /\ UNCHANGED <<discovery, originSlot, markers, discoveries, results>>
  BY DEF Unmask!Verify, Unmask!GiveUp
<1>2. /\ probe[r][c] \in Unmask!ProbeRecords /\ probe \in [Unmask!Runs -> [Candidates -> Unmask!ProbeRecords]]
  BY OriginLive DEF Unmask!IInv, Unmask!ProbesAreRecords
<1>3. over \in Unmask!ProbeRecords /\ over.at = "over" /\ over.out = {}
  <2>1. probe[r][c].out = {}
    BY <1>1 DEF Unmask!IInv, Unmask!HitsAreAnswers
  <2> QED BY <1>2, <2>1 DEF Unmask!ProbeRecords
<1>4. /\ busy \in Unmask!ProbeRecords /\ busy.at = "probe" /\ busy.next = probe[r][c].next
      /\ busy.failed = probe[r][c].failed /\ busy.out = probe[r][c].out /\ busy.hits = probe[r][c].hits
  BY <1>2 DEF Unmask!ProbeRecords
<1>5. \/ /\ probe' = [probe EXCEPT ![r] = [probe[r] EXCEPT ![c] = over]]
         /\ \/ found' = found /\ discovery[r].cancelled
            \/ /\ Unmask!Found(r, c, [Unmask!Dead EXCEPT !.verdict = "proxy"])
               /\ Unmask!IsFront(discovery[r], c)
      \/ /\ probe' = [probe EXCEPT ![r] = [probe[r] EXCEPT ![c] = busy]]
         /\ found' = found /\ ~Unmask!IsFront(discovery[r], c)
  <2>1. CASE Unmask!GiveUp(r, c)
    BY <1>2, <2>1 DEF Unmask!GiveUp
  <2>2. CASE Unmask!Verify(r, c) /\ discovery[r].proxied /\ c \in Front
    BY <1>2, <2>2 DEF Unmask!Verify, Unmask!IsFront
  <2>3. CASE Unmask!Verify(r, c) /\ ~(discovery[r].proxied /\ c \in Front)
    BY <1>2, <2>3 DEF Unmask!Verify, Unmask!IsFront
  <2> QED BY <2>1, <2>2, <2>3
<1> HIDE DEF over, busy
<1>6. CASE probe' = [probe EXCEPT ![r] = [probe[r] EXCEPT ![c] = over]] /\ found' = found /\ discovery[r].cancelled
  BY <1>1, <1>3, <1>6, OriginProbe
<1>7. CASE /\ probe' = [probe EXCEPT ![r] = [probe[r] EXCEPT ![c] = over]]
           /\ Unmask!Found(r, c, [Unmask!Dead EXCEPT !.verdict = "proxy"]) /\ Unmask!IsFront(discovery[r], c)
  <2> DEFINE o == [Unmask!Dead EXCEPT !.verdict = "proxy"]
  <2>1. Unmask!Follows(discovery[r], over, c, o) /\ Unmask!Complete(discovery[r], over, c)
    BY <1>7 DEF Unmask!Follows, Unmask!Deserved, Unmask!Complete
  <2>2. Unmask!Found(r, c, o)
    BY <1>7
  <2> HIDE DEF o
  <2> QED BY <1>1, <1>3, <1>7, <2>1, <2>2, OriginProbe
<1>8. CASE /\ probe' = [probe EXCEPT ![r] = [probe[r] EXCEPT ![c] = busy]]
           /\ found' = found /\ ~Unmask!IsFront(discovery[r], c)
  <2>1. busy.next = 1 /\ busy.out = {} /\ busy.failed = {} /\ busy.hits = {}
    BY <1>1, <1>4 DEF Unmask!IInv, Unmask!HitsAreAnswers
  <2>2. Unmask!HasAnswers(discovery[r].base, c, busy)
    BY <2>1 DEF Unmask!OriginAssumption, Unmask!Hits, Unmask!HasAnswers, Unmask!Asked
  <2> QED BY <1>1, <1>4, <1>8, <2>2, OriginProbe
<1> QED BY <1>5, <1>6, <1>7, <1>8

\* Before a probe goes on.
LEMMA OriginBusy ==
  ASSUME Unmask!OriginAssumption, Unmask!IInv, NEW r \in Unmask!Runs, NEW c \in Candidates, probe[r][c].at = "probe"
  PROVE  LET p == probe[r][c]
         IN /\ p.next \in Nat \ {0} /\ p.next <= Len(Ports) + 1 /\ Unmask!Asked(p) = 1..(p.next - 1)
            /\ p.out \cup p.failed \subseteq Unmask!Asked(p) /\ p.out \cap p.failed = {}
            /\ p.hits = Unmask!Hits(discovery[r].base, c, Unmask!Asked(p) \ (p.out \cup p.failed))
            /\ ~Unmask!IsFront(discovery[r], c)
<1>1. probe[r][c] \in Unmask!ProbeRecords
  BY OriginLive
<1> QED BY <1>1 DEF Unmask!IInv, Unmask!HitsAreAnswers, Unmask!HasAnswers, Unmask!ProbeRecords, Unmask!Asked

\* A candidate's ports are dialled together.
LEMMA OriginDial ==
  ASSUME Unmask!OriginAssumption, Unmask!IInv, NEW r \in Unmask!Runs, NEW c \in Candidates, Unmask!Dial(r, c)
  PROVE  Unmask!IInv'
<1> DEFINE p == probe[r][c]
           n == p.next
           x == [p EXCEPT !.next = n + 1, !.out = p.out \cup {n}]
<1>1. /\ p.at = "probe" /\ n <= Len(Ports)
      /\ UNCHANGED <<discovery, originSlot, found, shown, markers, discoveries, results>>
  BY DEF Unmask!Dial
<1>2. p \in Unmask!ProbeRecords /\ probe \in [Unmask!Runs -> [Candidates -> Unmask!ProbeRecords]]
  BY OriginLive DEF Unmask!IInv, Unmask!ProbesAreRecords
<1>3. probe' = [probe EXCEPT ![r] = [probe[r] EXCEPT ![c] = x]]
  BY <1>2 DEF Unmask!Dial
<1>4. /\ n \in Nat \ {0} /\ Unmask!Asked(p) = 1..(n - 1) /\ ~Unmask!IsFront(discovery[r], c)
      /\ p.out \cup p.failed \subseteq Unmask!Asked(p) /\ p.out \cap p.failed = {}
      /\ p.hits = Unmask!Hits(discovery[r].base, c, Unmask!Asked(p) \ (p.out \cup p.failed))
  BY <1>1, OriginBusy
<1>5. /\ n \in Unmask!Probes /\ n + 1 \in Nat \ {0} /\ n + 1 <= Len(Ports) + 1 /\ n \notin Unmask!Asked(p)
      /\ 1..((n + 1) - 1) = Unmask!Asked(p) \cup {n} /\ Len(Ports) \in Nat
  BY <1>1, <1>4 DEF Unmask!OriginAssumption
<1> HIDE DEF n
<1>6. /\ x \in Unmask!ProbeRecords /\ x.at = "probe" /\ x.next = n + 1 /\ x.out = p.out \cup {n}
      /\ x.failed = p.failed /\ x.hits = p.hits
  <2>1. p.out \cup {n} \in SUBSET Unmask!Probes
    BY <1>2, <1>5 DEF Unmask!ProbeRecords
  <2> HIDE DEF p
  <2> QED BY <1>1, <1>2, <1>5, <2>1 DEF Unmask!ProbeRecords
<1> HIDE DEF x
<1>7. Unmask!Asked(x) = Unmask!Asked(p) \cup {n}
  <2>1. Unmask!Asked(x) = 1..((n + 1) - 1)
    BY <1>6 DEF Unmask!Asked
  <2> QED BY <1>5, <2>1
<1>8. Unmask!Asked(x) \ (x.out \cup x.failed) = Unmask!Asked(p) \ (p.out \cup p.failed)
  BY <1>4, <1>5, <1>6, <1>7
<1>9. x.out \cup x.failed \subseteq Unmask!Asked(x) /\ x.out \cap x.failed = {}
  BY <1>4, <1>5, <1>6, <1>7
<1>10. Unmask!HasAnswers(discovery[r].base, c, x)
  BY <1>4, <1>5, <1>6, <1>8, <1>9 DEF Unmask!HasAnswers
<1> QED BY <1>1, <1>3, <1>4, <1>6, <1>10, OriginProbe

\* What a port answers is what the address serves there.
LEMMA OriginAnswer ==
  ASSUME Unmask!OriginAssumption, Unmask!IInv, NEW r \in Unmask!Runs, NEW c \in Candidates, NEW n \in Unmask!Probes,
         NEW ok \in BOOLEAN, Unmask!Answer(r, c, n, ok)
  PROVE  Unmask!IInv'
<1> DEFINE p == probe[r][c]
           new == IF ok THEN p.hits \cup {Unmask!Hit(discovery[r].base, c, n)} ELSE p.hits
           bad == IF ok THEN p.failed ELSE p.failed \cup {n}
           x == [p EXCEPT !.out = p.out \ {n}, !.failed = bad, !.hits = new]
<1>1. /\ n \in p.out
      /\ UNCHANGED <<discovery, originSlot, found, shown, markers, discoveries, results>>
  BY DEF Unmask!Answer
<1>2. p \in Unmask!ProbeRecords /\ probe \in [Unmask!Runs -> [Candidates -> Unmask!ProbeRecords]]
  BY OriginLive DEF Unmask!IInv, Unmask!ProbesAreRecords
<1>3. probe' = [probe EXCEPT ![r] = [probe[r] EXCEPT ![c] = x]]
  BY <1>2 DEF Unmask!Answer, Unmask!Hit
<1>4. p.at = "probe"
  BY <1>1 DEF Unmask!IInv, Unmask!HitsAreAnswers
<1>5. /\ p.next \in Nat \ {0} /\ p.next <= Len(Ports) + 1 /\ ~Unmask!IsFront(discovery[r], c)
      /\ p.out \cup p.failed \subseteq Unmask!Asked(p) /\ p.out \cap p.failed = {}
      /\ p.hits = Unmask!Hits(discovery[r].base, c, Unmask!Asked(p) \ (p.out \cup p.failed))
  BY <1>4, OriginBusy
<1>6. new \in SUBSET [port : Unmask!Probes, evidence : SUBSET Unmask!AllEvidence]
  <2>1. Unmask!Compare(discovery[r].base, Unmask!Served(c, n)) \in SUBSET Unmask!AllEvidence
    BY DEF Unmask!Compare, Unmask!AllEvidence
  <2>2. Unmask!Hit(discovery[r].base, c, n) \in [port : Unmask!Probes, evidence : SUBSET Unmask!AllEvidence]
    BY <2>1 DEF Unmask!Hit
  <2>3. p.hits \in SUBSET [port : Unmask!Probes, evidence : SUBSET Unmask!AllEvidence]
    BY <1>2 DEF Unmask!ProbeRecords
  <2> QED BY <2>2, <2>3
<1>7. new = Unmask!Hits(discovery[r].base, c, Unmask!Asked(p) \ ((p.out \ {n}) \cup bad))
  <2>1. CASE ok
    <3>1. Unmask!Asked(p) \ ((p.out \ {n}) \cup bad) = (Unmask!Asked(p) \ (p.out \cup p.failed)) \cup {n}
      BY <1>1, <1>5, <2>1
    <3> QED BY <1>5, <2>1, <3>1 DEF Unmask!Hits
  <2>2. CASE ~ok
    <3>1. Unmask!Asked(p) \ ((p.out \ {n}) \cup bad) = Unmask!Asked(p) \ (p.out \cup p.failed)
      BY <1>1, <1>5, <2>2
    <3> QED BY <1>5, <2>2, <3>1
  <2> QED BY <2>1, <2>2
<1>8. bad \in SUBSET Unmask!Probes /\ (p.out \ {n}) \cup bad \subseteq Unmask!Asked(p) /\ (p.out \ {n}) \cap bad = {}
  BY <1>1, <1>2, <1>5 DEF Unmask!ProbeRecords
<1> HIDE DEF new, bad
<1>9. /\ x \in Unmask!ProbeRecords /\ x.at = "probe" /\ x.next = p.next /\ x.out = p.out \ {n}
      /\ x.failed = bad /\ x.hits = new
  <2>1. p.out \ {n} \in SUBSET Unmask!Probes
    BY <1>2 DEF Unmask!ProbeRecords
  <2> HIDE DEF p
  <2> QED BY <1>2, <1>4, <1>6, <1>8, <2>1 DEF Unmask!ProbeRecords
<1> HIDE DEF x
<1>10. Unmask!Asked(x) = Unmask!Asked(p)
  BY <1>9 DEF Unmask!Asked
<1>11. Unmask!HasAnswers(discovery[r].base, c, x)
  <2>1. x.out \cup x.failed \subseteq Unmask!Asked(x) /\ x.out \cap x.failed = {}
    BY <1>8, <1>9, <1>10
  <2>2. x.hits = Unmask!Hits(discovery[r].base, c, Unmask!Asked(x) \ (x.out \cup x.failed))
    BY <1>7, <1>9, <1>10
  <2>3. x.next <= Len(Ports) + 1
    BY <1>5, <1>9
  <2> QED BY <2>1, <2>2, <2>3 DEF Unmask!HasAnswers
<1> QED BY <1>1, <1>3, <1>4, <1>5, <1>9, <1>11, OriginProbe

\* All ports of a candidate have answered or failed when its verdict is made.
LEMMA OriginDecide ==
  ASSUME Unmask!OriginAssumption, Unmask!IInv, NEW r \in Unmask!Runs, NEW c \in Candidates, NEW sni \in BOOLEAN,
         Unmask!Decide(r, c, sni)
  PROVE  Unmask!IInv'
<1> DEFINE p == probe[r][c]
           o == Unmask!Verdict(p.hits, sni)
           x == [p EXCEPT !.at = "over"]
<1>1. /\ p.at = "probe" /\ p.out = {} /\ (p.next > Len(Ports) \/ discovery[r].cancelled) /\ Unmask!Found(r, c, o)
      /\ UNCHANGED <<discovery, originSlot, shown, markers, discoveries, results>>
  BY DEF Unmask!Decide
<1>2. p \in Unmask!ProbeRecords /\ probe \in [Unmask!Runs -> [Candidates -> Unmask!ProbeRecords]]
  BY OriginLive DEF Unmask!IInv, Unmask!ProbesAreRecords
<1>3. probe' = [probe EXCEPT ![r] = [probe[r] EXCEPT ![c] = x]]
  BY <1>2 DEF Unmask!Decide
<1>4. x \in Unmask!ProbeRecords /\ x.at = "over" /\ x.out = {} /\ x.next = p.next /\ x.failed = p.failed
  BY <1>1, <1>2 DEF Unmask!ProbeRecords
<1>5. /\ p.next \in Nat \ {0} /\ p.next <= Len(Ports) + 1 /\ Unmask!Asked(p) = 1..(p.next - 1)
      /\ p.hits = Unmask!Hits(discovery[r].base, c, Unmask!Asked(p) \ (p.out \cup p.failed))
      /\ ~Unmask!IsFront(discovery[r], c)
  BY <1>1, OriginBusy
<1> HIDE DEF x
<1>6. Unmask!Asked(x) = Unmask!Asked(p) /\ Unmask!Asked(p) \subseteq Unmask!Probes
      /\ (p.next > Len(Ports) => Unmask!Asked(p) = Unmask!Probes)
  BY <1>4, <1>5 DEF Unmask!OriginAssumption, Unmask!Asked
<1>7. p.out \cup p.failed = p.failed
  BY <1>1
<1>8. Unmask!Deserved(discovery[r], x, c, o.sni) = Unmask!Verdict(p.hits, o.sni)
  BY <1>4, <1>5, <1>6, <1>7 DEF Unmask!Deserved
<1>9. Unmask!Verdict(p.hits, o.sni) = o
  BY DEF Unmask!Verdict
<1> HIDE DEF o
<1>10. Unmask!Follows(discovery[r], x, c, o)
  BY <1>6, <1>8, <1>9 DEF Unmask!Follows
<1>11. ~discovery[r].cancelled => Unmask!Complete(discovery[r], x, c)
  BY <1>1, <1>6 DEF Unmask!Complete
<1> QED BY <1>1, <1>3, <1>4, <1>10, <1>11, OriginProbe

\* What a run locates is what its verdicts say.
LEMMA OriginReturn ==
  ASSUME Unmask!OriginAssumption, Unmask!IInv, NEW r \in Unmask!Runs, NEW located \in SUBSET Candidates,
         Unmask!Return(r, located)
  PROVE  Unmask!IInv'
<1> DEFINE x == [discovery[r] EXCEPT !.at = "back", !.located = located]
<1>1. /\ discovery[r].at = "verify" /\ \A c \in Candidates : probe[r][c].at = "over"
      /\ located \subseteq Unmask!Origins(r) /\ originSlot' = (IF originSlot = r THEN 0 ELSE originSlot)
      /\ results' = Append(results, r) /\ UNCHANGED <<probe, found, shown, markers, discoveries>>
      /\ discovery' = [discovery EXCEPT ![r].at = "back", ![r].located = located]
  BY DEF Unmask!Return
<1>2. discovery[r] # Unmask!Off
  BY <1>1 DEF Unmask!Off
<1>3. discovery[r] \in Unmask!RunRecords /\ r \in 1..discoveries
  BY <1>2, OriginTyped
<1>4. discovery' = [discovery EXCEPT ![r] = x]
  BY <1>1 DEF Unmask!IInv, Unmask!RunsAreOpened
<1>5. /\ x \in Unmask!RunRecords /\ x.at = "back" /\ x.located = located /\ x.base = discovery[r].base
      /\ x.proxied = discovery[r].proxied /\ x.cancelled = discovery[r].cancelled
  BY <1>3 DEF Unmask!RunRecords
<1> HIDE DEF x
<1>6. DOMAIN discovery' = Unmask!Runs /\ discovery'[r] = x /\ \A q \in Unmask!Runs : q # r => discovery'[q] = discovery[q]
  BY <1>4 DEF Unmask!IInv, Unmask!RunsAreOpened
<1>7. x # Unmask!Off
  BY <1>5 DEF Unmask!Off
<1>8. Unmask!TypeOK'
  BY <1>1 DEF Unmask!IInv, Unmask!TypeOK, Unmask!Runs
<1>9. Unmask!RunsAreOpened'
  <2>1. \A q \in Unmask!Runs : IF q <= discoveries THEN discovery'[q] \in Unmask!RunRecords ELSE discovery'[q] = Unmask!Off
    BY <1>2, <1>5, <1>6 DEF Unmask!IInv, Unmask!RunsAreOpened
  <2>2. results' \in Seq(1..discoveries)
    <3> DEFINE S == 1..discoveries
    <3>1. results \in Seq(S) /\ r \in S
      BY <1>3 DEF Unmask!IInv, Unmask!RunsAreOpened
    <3> HIDE DEF S
    <3>2. results' \in Seq(S)
      BY <1>1, <3>1
    <3> QED BY <3>2 DEF S
  <2> QED BY <1>1, <1>6, <2>1, <2>2 DEF Unmask!RunsAreOpened
<1>10. Unmask!ProbesAreRecords'
  BY <1>1, <1>5, <1>6 DEF Unmask!IInv, Unmask!ProbesAreRecords
<1>11. Unmask!HitsAreAnswers'
  <2>1. ASSUME NEW q \in Unmask!Runs, NEW c \in Candidates, probe[q][c].at = "probe" PROVE discovery'[q] = discovery[q]
    BY <1>1, <1>6, <2>1
  <2> QED BY <1>1, <2>1 DEF Unmask!IInv, Unmask!HitsAreAnswers, Unmask!Runs
<1>12. ASSUME NEW q \in Unmask!Runs, NEW c
       PROVE  /\ \A o : Unmask!Follows(discovery'[q], probe[q][c], c, o) <=> Unmask!Follows(discovery[q], probe[q][c], c, o)
              /\ Unmask!Complete(discovery'[q], probe[q][c], c) <=> Unmask!Complete(discovery[q], probe[q][c], c)
  BY <1>5, <1>6 DEF Unmask!Follows, Unmask!Deserved, Unmask!Complete, Unmask!IsFront
<1>13. \A q \in Unmask!Runs : (discovery'[q] # Unmask!Off <=> discovery[q] # Unmask!Off) /\ (discovery'[q].cancelled <=> discovery[q].cancelled)
  BY <1>2, <1>5, <1>6, <1>7
<1>14. Unmask!VerdictsFollowProbes'
  <2>1. ASSUME NEW q \in Unmask!Runs
        PROVE  /\ DOMAIN found[q] \subseteq {c \in Candidates : probe[q][c].at = "over"}
               /\ \A c \in DOMAIN found[q] : Unmask!Follows(discovery'[q], probe[q][c], c, found[q][c])
               /\ discovery'[q] # Unmask!Off /\ ~discovery'[q].cancelled =>
                          \A c \in Candidates : probe[q][c].at = "over" =>
                             c \in DOMAIN found[q] /\ Unmask!Complete(discovery'[q], probe[q][c], c)
    BY <1>12, <1>13 DEF Unmask!IInv, Unmask!VerdictsFollowProbes
  <2> QED BY <1>1, <2>1 DEF Unmask!VerdictsFollowProbes, Unmask!Runs
<1>15. Unmask!OriginsReachTheMap'
  BY <1>1, <1>5, <1>6, <1>13 DEF Unmask!IInv, Unmask!OriginsReachTheMap, Unmask!Origins, Unmask!Runs
<1> QED BY <1>8, <1>9, <1>10, <1>11, <1>14, <1>15 DEF Unmask!IInv

\* Every step preserves the invariant.
LEMMA OriginNext ==
  ASSUME Unmask!OriginAssumption, Unmask!IInv, [Unmask!Next]_Unmask!vars PROVE Unmask!IInv'
<1>1. ASSUME NEW r \in Unmask!Runs, Unmask!Discover(r) PROVE Unmask!IInv'
  <2>1. ASSUME NEW c \in Candidates,
               \/ Unmask!Verify(r, c) \/ Unmask!GiveUp(r, c) \/ Unmask!Dial(r, c) \/ (\E sni \in BOOLEAN : Unmask!Decide(r, c, sni))
               \/ \E n \in Unmask!Probes, ok \in BOOLEAN : Unmask!Answer(r, c, n, ok)
        PROVE  Unmask!IInv'
    BY <2>1, OriginVerify, OriginDial, OriginDecide, OriginAnswer
  <2> QED BY <1>1, <2>1, OriginBegin, OriginReturn, OriginBaseline DEF Unmask!Discover
<1> QED
  BY <1>1, OriginDialog, OriginOpens DEF Unmask!Next

\* The verdicts are those that all answers together deserve, and what is marked on
\* the map has earned it, however many candidates, ports and runs there are.
THEOREM OriginsAreDeserved == Unmask!Spec => []OriginVerdicts
<1>1. Unmask!Init => Unmask!IInv
  BY DialogsAssumption, OriginInit
<1>2. Unmask!IInv /\ [Unmask!Next]_Unmask!vars => Unmask!IInv'
  BY DialogsAssumption, OriginNext
<1>3. Unmask!IInv => Unmask!OriginVerdicts
  <2> SUFFICES ASSUME Unmask!IInv PROVE Unmask!VerdictIsDeserved /\ Unmask!MarksAreEarned
    BY DEF Unmask!IInv, Unmask!OriginVerdicts
  <2>1. ASSUME NEW r \in Unmask!Runs, discovery[r].at = "back"
        PROVE  /\ \A c \in DOMAIN found[r] :
                    found[r][c] = Unmask!Deserved(discovery[r], probe[r][c], c, found[r][c].sni)
               /\ ~discovery[r].cancelled =>
                    \A c \in Candidates : c \in DOMAIN found[r] /\ Unmask!Complete(discovery[r], probe[r][c], c)
    <3>1. discovery[r] # Unmask!Off
      BY <2>1 DEF Unmask!Off
    <3>2. \A c \in Candidates : probe[r][c].at = "over"
      BY <2>1 DEF Unmask!IInv, Unmask!ProbesAreRecords
    <3> QED BY <3>1, <3>2 DEF Unmask!IInv, Unmask!VerdictsFollowProbes, Unmask!Follows
  <2>2. ASSUME NEW c \in markers PROVE \E r \in Unmask!Runs : c \in Unmask!Origins(r) /\ Unmask!Earned(r, c)
    <3>1. PICK r \in Unmask!Runs : c \in Unmask!Origins(r)
      BY <2>2 DEF Unmask!IInv, Unmask!OriginsReachTheMap
    <3>2. /\ c \in Candidates /\ Unmask!Follows(discovery[r], probe[r][c], c, found[r][c])
          /\ found[r][c].verdict \in {"confirmed", "likely"}
      BY <3>1 DEF Unmask!IInv, Unmask!VerdictsFollowProbes, Unmask!Origins
    <3>3. Unmask!Earned(r, c)
      BY <3>2, DialogsAssumption, OriginEarned
    <3> QED BY <3>1, <3>3
  <2> QED BY <2>1, <2>2 DEF Unmask!VerdictIsDeserved, Unmask!MarksAreEarned
<1>4. Unmask!IInv => OriginVerdicts
  BY <1>3 DEF OriginVerdicts
<1> QED
  BY <1>1, <1>2, <1>4, PTL DEF Unmask!Spec
=============================================================================
