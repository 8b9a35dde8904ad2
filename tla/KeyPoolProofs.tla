--------------------------- MODULE KeyPoolProofs ---------------------------
(***************************************************************************)
(* Theorems about Scheduler, for every set of keys and requests, every     *)
(* weight and every concurrency limit, and about KeyPool, which implements *)
(* it: so what is proved of Scheduler holds of the whole pool.             *)
(***************************************************************************)
EXTENDS KeyPool, TLAPS, FiniteSetTheorems, WellFoundedInduction

---------------------------------------------------------------------------
(* The scheduler. *)

\* Weights are counted in naturals, whatever set of keys is eligible.
LEMMA TotalWeightIsNat ==
    ASSUME NEW S, S \subseteq Keys
    PROVE  TotalWeight(S) \in Nat
<1>1. IsFiniteSet(S)
  BY FS_Subset, SchedulerAssumption DEF SchedulerAssumption
<1>2. IsFiniteSet(Weights)
  BY FS_Interval, SchedulerAssumption DEF SchedulerAssumption, Weights
<1>3. IsFiniteSet(S \X Weights)
  BY <1>1, <1>2, FS_Product
<1> DEFINE Shares == {share \in S \X Weights : share[2] <= weight[share[1]]}
<1>4. Shares \subseteq S \X Weights
  OBVIOUS
<1>5. IsFiniteSet(Shares)
  BY <1>3, <1>4, FS_Subset
<1> QED
  BY <1>5, FS_CardinalityType DEF TotalWeight

\* The requests that hold a key are finitely many.
LEMMA HoldersFinite ==
    ASSUME NEW k
    PROVE  IsFiniteSet(Holders(k)) /\ Cardinality(Holders(k)) \in Nat
<1>1. Holders(k) \subseteq Requests
  BY DEF Holders
<1> QED
  BY <1>1, FS_Subset, FS_CardinalityType, SchedulerAssumption DEF SchedulerAssumption

\* The purge keeps the type of the cooling entries.
LEMMA PurgeKeepsType ==
    TypeOK => PurgedCooling \in [Keys -> Int]
BY DEF TypeOK, PurgedCooling

\* The active list holds keys only.
LEMMA ElementsAreKeys ==
    ASSUME TypeOK
    PROVE  \A i \in 1 .. Len(active) : active[i] \in Keys
BY DEF TypeOK

\* The state the process starts in is well typed.
LEMMA TypeInit == Init => TypeOK
BY SchedulerAssumption DEF SchedulerAssumption, Init, TypeOK

\* Every operation keeps the state well typed; in particular no release takes a
\* count below zero, also after a Reset or a MarkDead under the requests in flight.
LEMMA TypeStep == TypeOK /\ [Next]_vars => TypeOK'
<1> SUFFICES ASSUME TypeOK, [Next]_vars PROVE TypeOK'
  OBVIOUS
<1> USE SchedulerAssumption DEF SchedulerAssumption
<1>p. PurgedCooling \in [Keys -> Int]
  BY PurgeKeepsType
<1>1. ASSUME NEW r \in Requests, AcquireKey(r) PROVE TypeOK'
  <2>1. PICK i \in Eligible :
          /\ current' = [k \in Keys |->
                           (IF k \in EligibleKeys THEN Credited(k) ELSE current[k])
                           - (IF k = active[i] THEN TotalWeight(EligibleKeys) ELSE 0)]
          /\ concurrency' = [concurrency EXCEPT ![active[i]] = @ + 1]
          /\ holds' = [holds EXCEPT ![r] = active[i]]
    BY <1>1 DEF AcquireKey
  <2>2. EligibleKeys \subseteq Keys /\ active[i] \in Keys
    <3>1. \A j \in Eligible : active[j] \in Keys
      BY ElementsAreKeys DEF Eligible
    <3> QED
      BY <3>1 DEF EligibleKeys
  <2>3. TotalWeight(EligibleKeys) \in Nat
    BY <2>2, TotalWeightIsNat
  <2>4. \A k \in Keys : Credited(k) \in Int /\ current[k] \in Int
    BY DEF Credited, TypeOK
  <2>5. current' \in [Keys -> Int]
    BY <2>1, <2>3, <2>4
  <2>6. concurrency' \in [Keys -> Nat] /\ holds' \in [Requests -> Keys \cup {NoKey}]
    BY <2>1, <2>2 DEF TypeOK
  <2> QED
    BY <1>1, <1>p, <2>5, <2>6 DEF AcquireKey, TypeOK
<1>2. ASSUME NEW r \in Requests, AcquireNothing(r) PROVE TypeOK'
  BY <1>2, <1>p DEF AcquireNothing, TypeOK
<1>3. ASSUME NEW r \in Requests, NEW k \in Keys, TryAcquireSpecificKey(r, k)
      PROVE  TypeOK'
  <2>1. CASE IsActive(k) /\ Available(k)
    <3>1. /\ concurrency' = [concurrency EXCEPT ![k] = @ + 1]
          /\ holds' = [holds EXCEPT ![r] = k]
          /\ cooling' \in [Keys -> Int]
          /\ UNCHANGED <<active, weight, current, dead, now>>
      BY <1>3, <1>p, <2>1 DEF TryAcquireSpecificKey
    <3>2. concurrency' \in [Keys -> Nat] /\ holds' \in [Requests -> Keys \cup {NoKey}]
      BY <3>1 DEF TypeOK
    <3> QED
      BY <3>1, <3>2 DEF TypeOK
  <2>2. CASE ~(IsActive(k) /\ Available(k))
    BY <1>3, <1>p, <2>2 DEF TryAcquireSpecificKey, TypeOK
  <2> QED
    BY <2>1, <2>2
<1>4. ASSUME NEW r \in Requests, ReleaseKey(r) PROVE TypeOK'
  BY <1>4 DEF ReleaseKey, TypeOK
<1>5. ASSUME NEW k \in Keys, NEW w \in WeightsOf[k], AddKey(k, w) PROVE TypeOK'
  <2>1. w \in Nat
    OBVIOUS
  <2> QED
    BY <1>5, <2>1 DEF AddKey, TypeOK
<1>6. ASSUME NEW k \in Keys, NEW d \in CoolDurations, MarkCooling(k, d) PROVE TypeOK'
  BY <1>6 DEF MarkCooling, TypeOK
<1>7. ASSUME NEW k \in Keys, MarkDead(k) PROVE TypeOK'
  BY <1>7 DEF MarkDead, TypeOK
<1>8. CASE Reset
  BY <1>8 DEF Reset, TypeOK
<1>9. CASE CleanupExpired
  BY <1>9, <1>p DEF CleanupExpired, TypeOK
<1>10. CASE Tick
  BY <1>10 DEF Tick, schedVars, TypeOK
<1>11. CASE UNCHANGED vars
  BY <1>11 DEF vars, schedVars, TypeOK
<1> QED
  BY <1>1, <1>2, <1>3, <1>4, <1>5, <1>6, <1>7, <1>8, <1>9, <1>10, <1>11
  DEF Next, RequestStep, KeyStep

\* The scheduler's state is always well typed.
THEOREM TypeCorrect == Spec => []TypeOK
BY TypeInit, TypeStep, PTL DEF Spec

-----------------------------------------------------------------------------
\* A request that holds nothing becomes a holder of k: one holder more.
LEMMA AcquireAddsHolder ==
    ASSUME TypeOK, NEW r \in Requests, holds[r] = NoKey,
           NEW k \in Keys, holds' = [holds EXCEPT ![r] = k]
    PROVE  /\ Cardinality(Holders(k)') = Cardinality(Holders(k)) + 1
           /\ \A q \in Keys \ {k} : Holders(q)' = Holders(q)
<1> USE SchedulerAssumption DEF SchedulerAssumption
<1>1. Holders(k)' = Holders(k) \cup {r} /\ r \notin Holders(k)
  BY DEF Holders, TypeOK
<1>2. \A q \in Keys \ {k} : Holders(q)' = Holders(q)
  BY DEF Holders, TypeOK
<1> QED
  BY <1>1, <1>2, HoldersFinite, FS_AddElement

\* The holder of k lets go of it: one holder less.
LEMMA ReleaseRemovesHolder ==
    ASSUME TypeOK, NEW r \in Requests, NEW k \in Keys, holds[r] = k,
           holds' = [holds EXCEPT ![r] = NoKey]
    PROVE  /\ Cardinality(Holders(k)') = Cardinality(Holders(k)) - 1
           /\ \A q \in Keys \ {k} : Holders(q)' = Holders(q)
<1> USE SchedulerAssumption DEF SchedulerAssumption
<1>1. Holders(k)' = Holders(k) \ {r} /\ r \in Holders(k)
  BY DEF Holders, TypeOK
<1>2. \A q \in Keys \ {k} : Holders(q)' = Holders(q)
  BY DEF Holders, TypeOK
<1> QED
  BY <1>1, <1>2, HoldersFinite, FS_RemoveElement

\* Every operation preserves the accounting of slots.
LEMMA SlotStep == TypeOK /\ NoSlotLeaked /\ [Next]_vars => NoSlotLeaked'
<1> SUFFICES ASSUME TypeOK, NoSlotLeaked, [Next]_vars PROVE NoSlotLeaked'
  OBVIOUS
<1> USE SchedulerAssumption DEF SchedulerAssumption
<1>c. \A k \in Keys : Cardinality(Holders(k)) \in Nat
  BY HoldersFinite
<1>a. ASSUME NEW r \in Requests, holds[r] = NoKey, NEW k \in Keys,
             concurrency' = [concurrency EXCEPT ![k] = @ + 1],
             holds' = [holds EXCEPT ![r] = k]
      PROVE  NoSlotLeaked'
  <2>1. /\ Cardinality(Holders(k)') = Cardinality(Holders(k)) + 1
        /\ \A q \in Keys \ {k} : Holders(q)' = Holders(q)
    BY <1>a, AcquireAddsHolder
  <2>2. concurrency'[k] <= Cardinality(Holders(k)')
    BY <1>a, <1>c, <2>1 DEF NoSlotLeaked, TypeOK
  <2>3. ASSUME NEW q \in Keys \ {k} PROVE concurrency'[q] <= Cardinality(Holders(q)')
    BY <1>a, <2>1, <2>3 DEF NoSlotLeaked, TypeOK
  <2> QED
    BY <2>2, <2>3 DEF NoSlotLeaked
<1>u. ASSUME UNCHANGED holds,
             \A k \in Keys : concurrency'[k] = concurrency[k] \/ concurrency'[k] = 0
      PROVE  NoSlotLeaked'
  <2>1. ASSUME NEW k \in Keys PROVE concurrency'[k] <= Cardinality(Holders(k)')
    <3>1. Holders(k)' = Holders(k)
      BY <1>u DEF Holders
    <3>2. concurrency[k] <= Cardinality(Holders(k)) /\ Cardinality(Holders(k)) \in Nat
      BY <1>c DEF NoSlotLeaked
    <3> QED
      BY <1>u, <3>1, <3>2
  <2> QED
    BY <2>1 DEF NoSlotLeaked
<1>1. ASSUME NEW r \in Requests, AcquireKey(r) PROVE NoSlotLeaked'
  <2>1. PICK i \in Eligible :
          /\ concurrency' = [concurrency EXCEPT ![active[i]] = @ + 1]
          /\ holds' = [holds EXCEPT ![r] = active[i]]
    BY <1>1 DEF AcquireKey
  <2>2. active[i] \in Keys /\ holds[r] = NoKey
    BY <1>1 DEF AcquireKey, Eligible, TypeOK
  <2> QED
    BY <2>1, <2>2, <1>a
<1>2. ASSUME NEW r \in Requests, AcquireNothing(r) PROVE NoSlotLeaked'
  BY <1>2, <1>u DEF AcquireNothing
<1>3. ASSUME NEW r \in Requests, NEW k \in Keys, TryAcquireSpecificKey(r, k)
      PROVE  NoSlotLeaked'
  <2>1. CASE IsActive(k) /\ Available(k)
    BY <1>3, <2>1, <1>a DEF TryAcquireSpecificKey
  <2>2. CASE ~(IsActive(k) /\ Available(k))
    BY <1>3, <2>2, <1>u DEF TryAcquireSpecificKey
  <2> QED
    BY <2>1, <2>2
<1>4. ASSUME NEW r \in Requests, ReleaseKey(r) PROVE NoSlotLeaked'
  <2> DEFINE k == holds[r]
  <2>1. k \in Keys
    BY <1>4 DEF ReleaseKey, TypeOK
  <2>2. PICK q \in Keys : q = holds[r]
    BY <2>1
  <2>3. /\ concurrency' = [concurrency EXCEPT ![q] = IF @ > 0 THEN @ - 1 ELSE @]
        /\ holds' = [holds EXCEPT ![r] = NoKey]
    BY <1>4, <2>2 DEF ReleaseKey
  <2>4. /\ Cardinality(Holders(q)') = Cardinality(Holders(q)) - 1
        /\ \A p \in Keys \ {q} : Holders(p)' = Holders(p)
    BY <2>2, <2>3, ReleaseRemovesHolder
  <2>5. concurrency[q] <= Cardinality(Holders(q))
    BY DEF NoSlotLeaked
  <2>6. r \in Holders(q) /\ Cardinality(Holders(q)) # 0
    <3>1. r \in Holders(q)
      BY <2>2 DEF Holders
    <3>2. IsFiniteSet(Holders(q))
      BY HoldersFinite
    <3>3. Cardinality(Holders(q)) # 0
      BY <3>1, <3>2, FS_EmptySet
    <3> QED
      BY <3>1, <3>3
  <2>7. concurrency'[q] <= Cardinality(Holders(q)')
    BY <2>3, <2>4, <2>5, <2>6, <1>c DEF TypeOK
  <2>8. ASSUME NEW p \in Keys \ {q} PROVE concurrency'[p] <= Cardinality(Holders(p)')
    BY <2>3, <2>4 DEF NoSlotLeaked, TypeOK
  <2> QED
    BY <2>7, <2>8 DEF NoSlotLeaked
<1>5. ASSUME NEW k \in Keys, NEW w \in WeightsOf[k], AddKey(k, w) PROVE NoSlotLeaked'
  BY <1>5, <1>u DEF AddKey
<1>6. ASSUME NEW k \in Keys, NEW d \in CoolDurations, MarkCooling(k, d) PROVE NoSlotLeaked'
  BY <1>6, <1>u DEF MarkCooling
<1>7. ASSUME NEW k \in Keys, MarkDead(k) PROVE NoSlotLeaked'
  BY <1>7, <1>u DEF MarkDead, TypeOK
<1>8. CASE Reset
  BY <1>8, <1>u DEF Reset
<1>9. CASE CleanupExpired
  BY <1>9, <1>u DEF CleanupExpired
<1>10. CASE Tick
  BY <1>10, <1>u DEF Tick, schedVars
<1>11. CASE UNCHANGED vars
  BY <1>11, <1>u DEF vars, schedVars
<1> QED
  BY <1>1, <1>2, <1>3, <1>4, <1>5, <1>6, <1>7, <1>8, <1>9, <1>10, <1>11
  DEF Next, RequestStep, KeyStep

\* In the initial state nothing is counted and nothing is held.
LEMMA SlotInit == Init => NoSlotLeaked
<1> SUFFICES ASSUME Init, NEW k \in Keys
             PROVE  concurrency[k] <= Cardinality(Holders(k))
  BY DEF NoSlotLeaked
<1>1. concurrency[k] = 0
  BY DEF Init
<1> QED
  BY <1>1, HoldersFinite

\* For any keys, requests and weights, whatever order of acquires, releases, reloads
\* and markings happens: a counted slot belongs to a request that will release it.
THEOREM SlotsNeverLeak == Spec => []NoSlotLeaked
<1>1. Init => TypeOK /\ NoSlotLeaked
  BY TypeInit, SlotInit
<1>2. TypeOK /\ NoSlotLeaked /\ [Next]_vars => (TypeOK /\ NoSlotLeaked)'
  BY TypeStep, SlotStep
<1> QED
  BY <1>1, <1>2, PTL DEF Spec

-----------------------------------------------------------------------------
(* Sums over keys. *)

\* What a round moves is summed over the keys by a fold, which takes them one by one. A claim
\* about such a sum is settled by the least set of keys for which it would fail.
LEMMA LeastSetOfKeys ==
    ASSUME NEW Bad, Bad \subseteq SUBSET Keys, Bad # {}
    PROVE  \E S \in Bad : \A T \in Bad : T \subseteq S => T = S
<1>1. IsWellFoundedOn(StrictSubsetOrdering(Keys), SUBSET Keys)
  <2>1. IsWellFoundedOn(StrictSubsetOrdering(Keys), FiniteSubsetsOf(Keys))
    BY FS_StrictSubsetOrderingWellFounded
  <2>2. FiniteSubsetsOf(Keys) = SUBSET Keys
    BY FS_FiniteSubsetsOfFinite, SchedulerAssumption DEF SchedulerAssumption
  <2>. QED
    BY <2>1, <2>2
<1>2. \E S \in Bad : \A T \in Bad : ~(<<T, S>> \in StrictSubsetOrdering(Keys))
  BY <1>1, WFMin
<1>3. PICK S \in Bad : \A T \in Bad : ~(<<T, S>> \in StrictSubsetOrdering(Keys))
  BY <1>2
<1>4. ASSUME NEW T \in Bad, T \subseteq S PROVE T = S
  <2>1. T \in SUBSET Keys /\ S \in SUBSET Keys
    OBVIOUS
  <2>2. T # S => <<T, S>> \in {ss \in (SUBSET Keys) \X (SUBSET Keys) :
                                  ss[1] \subseteq ss[2] /\ ss[1] # ss[2]}
    BY <1>4, <2>1
  <2>. QED
    BY <1>3, <2>2 DEF StrictSubsetOrdering
<1>. QED
  BY <1>4

\* The fold takes one key of S, and then the others.
Chosen(S) == CHOOSE k \in S : TRUE
AddsUp(sum, c, S) == sum[S] = IF S = {} THEN 0 ELSE c[Chosen(S)] + sum[S \ {Chosen(S)}]

\* The fold is defined: there is a function that takes every set of keys to its sum.
LEMMA SumExists ==
    ASSUME NEW c \in [Keys -> Int]
    PROVE  \E sum \in [SUBSET Keys -> Int] : \A S \in SUBSET Keys : AddsUp(sum, c, S)
<1>. DEFINE Upto(n) == {S \in SUBSET Keys : Cardinality(S) <= n}
            IsSum(sum, n) == sum \in [Upto(n) -> Int] /\ \A S \in Upto(n) : AddsUp(sum, c, S)
            Bad == {n \in Nat : ~ \E sum : IsSum(sum, n)}
<1>0. \A S \in SUBSET Keys : IsFiniteSet(S) /\ Cardinality(S) \in Nat
                              /\ Cardinality(S) <= Cardinality(Keys)
  BY FS_Subset, FS_CardinalityType, SchedulerAssumption DEF SchedulerAssumption
<1>s. ASSUME NEW S \in SUBSET Keys, S # {}
      PROVE  /\ Chosen(S) \in Keys /\ S \ {Chosen(S)} \in SUBSET Keys
             /\ Cardinality(S \ {Chosen(S)}) = Cardinality(S) - 1
  <2>1. Chosen(S) \in S
    BY <1>s DEF Chosen
  <2>. QED
    BY <1>0, <2>1, FS_RemoveElement
<1>1. \E sum : IsSum(sum, 0)
  <2>. DEFINE sum == [S \in Upto(0) |-> 0]
  <2>1. ASSUME NEW S \in Upto(0) PROVE S = {}
    BY <1>0, FS_EmptySet
  <2>2. IsSum(sum, 0)
    BY <2>1 DEF AddsUp
  <2>. QED
    BY <2>2
<1>2. ASSUME NEW n \in Nat, \E sum : IsSum(sum, n) PROVE \E sum : IsSum(sum, n + 1)
  <2>1. PICK f : IsSum(f, n)
    BY <1>2
  <2>. DEFINE g == [S \in Upto(n + 1) |->
                      IF S \in Upto(n) THEN f[S] ELSE c[Chosen(S)] + f[S \ {Chosen(S)}]]
  <2>2. \A S \in Upto(n) : S \in Upto(n + 1) /\ g[S] = f[S] /\ f[S] \in Int
    <3>1. \A S \in Upto(n) : S \in Upto(n + 1)
      BY <1>0
    <3>. QED
      BY <2>1, <3>1
  <2>3. ASSUME NEW S \in Upto(n + 1), S # {}
        PROVE  S \ {Chosen(S)} \in Upto(n)
    BY <1>0, <1>s, <2>3
  <2>4. {} \in Upto(n)
    BY FS_EmptySet
  <2>5. ASSUME NEW S \in Upto(n + 1) PROVE g[S] \in Int /\ AddsUp(g, c, S)
    <3>1. CASE S \in Upto(n)
      <4>1. AddsUp(f, c, S)
        BY <2>1, <3>1
      <4>2. CASE S = {}
        BY <2>2, <3>1, <4>1, <4>2 DEF AddsUp
      <4>3. CASE S # {}
        BY <2>2, <2>3, <3>1, <4>1, <4>3 DEF AddsUp
      <4>. QED
        BY <4>2, <4>3
    <3>2. CASE S \notin Upto(n)
      <4>1. S # {}
        BY <2>4, <3>2
      <4>2. g[S] = c[Chosen(S)] + f[S \ {Chosen(S)}]
        BY <3>2
      <4>3. g[S \ {Chosen(S)}] = f[S \ {Chosen(S)}] /\ f[S \ {Chosen(S)}] \in Int
        BY <2>2, <2>3, <4>1
      <4>4. c[Chosen(S)] \in Int
        BY <1>s, <4>1
      <4>. QED
        BY <4>1, <4>2, <4>3, <4>4 DEF AddsUp
    <3>. QED
      BY <3>1, <3>2
  <2>6. IsSum(g, n + 1)
    BY <2>5
  <2>. QED
    BY <2>6
<1>3. Bad = {}
  <2>. SUFFICES ASSUME Bad # {} PROVE FALSE
    OBVIOUS
  <2>a. Bad # {} /\ Bad \subseteq Nat /\ \A n \in Nat : n \in Bad <=> ~ \E sum : IsSum(sum, n)
    OBVIOUS
  <2>b. (\E sum : IsSum(sum, 0))
        /\ \A n \in Nat : (\E sum : IsSum(sum, n)) => \E sum : IsSum(sum, n + 1)
    BY <1>1, <1>2
  <2>. HIDE DEF Bad, IsSum
  <2>1. \E n \in Bad : \A m \in Bad : ~(<<m, n>> \in OpToRel(<, Nat))
    BY <2>a, NatLessThanWellFounded, WFMin, Zenon
  <2>2. PICK n \in Bad : \A m \in Bad : ~(<<m, n>> \in OpToRel(<, Nat))
    BY <2>1, Zenon
  <2>3. n \in Nat /\ n # 0 /\ ~ \E sum : IsSum(sum, n)
    BY <2>a, <2>b
  <2>4. n - 1 \in Nat /\ (n - 1) + 1 = n
    BY <2>3
  <2>5. n - 1 \in Bad
    BY <2>a, <2>b, <2>3, <2>4
  <2>6. <<n - 1, n>> \in {ss \in Nat \X Nat : ss[1] < ss[2]}
    BY <2>3, <2>4
  <2>. QED
    BY <2>2, <2>5, <2>6 DEF OpToRel
<1>4. Cardinality(Keys) \in Nat
  BY <1>0
<1>5. PICK sum : IsSum(sum, Cardinality(Keys))
  BY <1>3, <1>4
<1>6. Upto(Cardinality(Keys)) = SUBSET Keys
  BY <1>0
<1>. QED
  BY <1>5, <1>6

\* The sum of c over every set of keys, as TotalCredit takes it over all of them.
IsSumOf(sum, c) ==
    sum = [S \in SUBSET Keys |-> IF S = {} THEN 0 ELSE c[Chosen(S)] + sum[S \ {Chosen(S)}]]
Sum(c) == CHOOSE sum : IsSumOf(sum, c)

\* TotalCredit is that sum.
LEMMA TotalIsSum ==
    ASSUME NEW c
    PROVE  TotalCredit(c) = Sum(c)[Keys]
BY DEF TotalCredit, MapThenSumSet, MapThenFoldSet, Chosen, Sum, IsSumOf

\* Sums are numbers and add up.
LEMMA SumAddsUp ==
    ASSUME NEW c \in [Keys -> Int]
    PROVE  Sum(c) \in [SUBSET Keys -> Int] /\ \A S \in SUBSET Keys : AddsUp(Sum(c), c, S)
<1>. DEFINE total == Sum(c)
<1>1. PICK f \in [SUBSET Keys -> Int] : \A S \in SUBSET Keys : AddsUp(f, c, S)
  BY SumExists
<1>2. IsSumOf(f, c)
  BY <1>1 DEF AddsUp, IsSumOf
<1>3. IsSumOf(total, c)
  BY <1>2 DEF Sum
<1>. HIDE DEF total
<1>5. \A S \in SUBSET Keys : AddsUp(total, c, S)
  BY <1>3 DEF AddsUp, IsSumOf
<1>6. \A S \in SUBSET Keys : total[S] \in Int
  <2>. SUFFICES ASSUME {S \in SUBSET Keys : total[S] \notin Int} # {} PROVE FALSE
    OBVIOUS
  <2>. DEFINE Bad == {S \in SUBSET Keys : total[S] \notin Int}
  <2>a. Bad \subseteq SUBSET Keys /\ Bad # {}
    OBVIOUS
  <2>b. \E S \in Bad : \A T \in Bad : T \subseteq S => T = S
    <3>. HIDE DEF Bad
    <3>. QED
      BY <2>a, LeastSetOfKeys
  <2>1. PICK S \in Bad : \A T \in Bad : T \subseteq S => T = S
    BY <2>b, Zenon
  <2>2. AddsUp(total, c, S)
    BY <1>5
  <2>3. S # {}
    BY <2>2 DEF AddsUp
  <2>4. Chosen(S) \in S
    BY <2>3 DEF Chosen
  <2>5. total[S \ {Chosen(S)}] \in Int
    BY <2>1, <2>4
  <2>. QED
    BY <2>1, <2>2, <2>3, <2>4, <2>5 DEF AddsUp
<1>7. total \in [SUBSET Keys -> Int]
  <2>1. total = [S \in SUBSET Keys |-> total[S]]
    BY <1>3 DEF IsSumOf
  <2>. QED
    BY <1>6, <2>1
<1>. QED
  BY <1>5, <1>7 DEF total

\* A sum does not depend on the order in which it is taken.
LEMMA SumRemove ==
    ASSUME NEW c \in [Keys -> Int], NEW Q \in SUBSET Keys, NEW q \in Q
    PROVE  Sum(c)[Q] = Sum(c)[Q \ {q}] + c[q]
<1>. DEFINE sum == Sum(c)
            Commutes(S) == \A k \in S : sum[S] = sum[S \ {k}] + c[k]
            Bad == {S \in SUBSET Keys : ~ Commutes(S)}
<1>1. sum \in [SUBSET Keys -> Int] /\ \A S \in SUBSET Keys : AddsUp(sum, c, S)
  BY SumAddsUp
<1>. HIDE DEF sum
<1>2. Bad = {}
  <2>. SUFFICES ASSUME Bad # {} PROVE FALSE
    OBVIOUS
  <2>a. Bad \subseteq SUBSET Keys /\ Bad # {}
    OBVIOUS
  <2>b. \E S \in Bad : \A T \in Bad : T \subseteq S => T = S
    <3>. HIDE DEF Bad
    <3>. QED
      BY <2>a, LeastSetOfKeys
  <2>1. PICK S \in Bad : \A T \in Bad : T \subseteq S => T = S
    BY <2>b, Zenon
  <2>2. PICK k \in S : sum[S] # sum[S \ {k}] + c[k]
    OBVIOUS
  <2>3. S \in SUBSET Keys /\ S # {}
    OBVIOUS
  <2>4. \A T \in SUBSET S : T # S => Commutes(T)
    BY <2>1, <2>3
  <2>. DEFINE x == Chosen(S)
  <2>5. x \in S
    BY <2>3 DEF Chosen
  <2>6. sum[S] = c[x] + sum[S \ {x}]
    BY <1>1, <2>3 DEF AddsUp
  <2>. HIDE DEF x
  <2>7. c[x] \in Int /\ c[k] \in Int /\ sum[S \ {x}] \in Int /\ sum[(S \ {x}) \ {k}] \in Int
    BY <1>1, <2>2, <2>3, <2>5
  <2>8. x # k
    <3>. SUFFICES ASSUME x = k PROVE FALSE
      OBVIOUS
    <3>1. sum[S] = c[k] + sum[S \ {k}] /\ sum[S \ {k}] \in Int
      BY <2>6, <2>7
    <3>. QED
      BY <2>2, <2>7, <3>1
  <2>9. sum[S \ {x}] = sum[(S \ {x}) \ {k}] + c[k]
    BY <2>2, <2>4, <2>5, <2>8
  <2>10. sum[S \ {k}] = sum[(S \ {k}) \ {x}] + c[x]
    BY <2>2, <2>4, <2>5, <2>8
  <2>11. (S \ {k}) \ {x} = (S \ {x}) \ {k}
    OBVIOUS
  <2>12. sum[S \ {k}] = sum[(S \ {x}) \ {k}] + c[x]
    BY <2>10, <2>11
  <2>13. sum[S] = sum[S \ {k}] + c[k]
    BY <2>6, <2>7, <2>9, <2>12
  <2>. QED
    BY <2>2, <2>13
<1>. QED
  BY <1>2 DEF sum

\* Nothing sums to nothing, and one key to its own credit.
LEMMA SumOfOne ==
    ASSUME NEW c \in [Keys -> Int]
    PROVE  Sum(c)[{}] = 0 /\ \A k \in Keys : Sum(c)[{k}] = c[k]
<1>1. Sum(c)[{}] = 0
  BY SumAddsUp DEF AddsUp
<1>2. ASSUME NEW k \in Keys PROVE Sum(c)[{k}] = c[k]
  <2>1. {k} \in SUBSET Keys /\ k \in {k} /\ {k} \ {k} = {} /\ c[k] \in Int
    OBVIOUS
  <2>2. Sum(c)[{k}] = Sum(c)[{k} \ {k}] + c[k]
    BY <2>1, SumRemove
  <2>. QED
    BY <1>1, <2>1, <2>2
<1>. QED
  BY <1>1, <1>2

\* A claim about sets of keys holds if it does for none and survives taking one more.
LEMMA KeyByKey ==
    ASSUME NEW Good, Good \subseteq SUBSET Keys, {} \in Good,
           \A S \in SUBSET Keys : \A k \in S : S \ {k} \in Good => S \in Good
    PROVE  Good = SUBSET Keys
<1>. DEFINE Bad == (SUBSET Keys) \ Good
<1>. SUFFICES ASSUME Bad # {} PROVE FALSE
  OBVIOUS
<1>a. Bad \subseteq SUBSET Keys /\ Bad # {}
  OBVIOUS
<1>b. \E S \in Bad : \A T \in Bad : T \subseteq S => T = S
  <2>. HIDE DEF Bad
  <2>. QED
    BY <1>a, LeastSetOfKeys
<1>1. PICK S \in Bad : \A T \in Bad : T \subseteq S => T = S
  BY <1>b, Zenon
<1>2. S # {}
  OBVIOUS
<1>3. PICK k \in S : TRUE
  BY <1>2
<1>4. S \ {k} \notin Bad
  BY <1>1, <1>3
<1>. QED
  BY <1>1, <1>3, <1>4

-----------------------------------------------------------------------------
(* Rounds. *)

\* An active key has one of the weights it may be added with.
WeightsBounded == weight \in [Keys -> 0 .. MaxWeight]

\* No key has a weight when the process starts.
LEMMA WeightsInit == Init => WeightsBounded
BY SchedulerAssumption DEF SchedulerAssumption, Init, WeightsBounded

\* Keys get their weights when they are added.
LEMMA WeightsStep == WeightsBounded /\ [Next]_vars => WeightsBounded'
<1>. SUFFICES ASSUME WeightsBounded, [Next]_vars PROVE WeightsBounded'
  OBVIOUS
<1>. USE SchedulerAssumption DEF SchedulerAssumption
<1>1. ASSUME NEW k \in Keys, NEW w \in WeightsOf[k], AddKey(k, w) PROVE WeightsBounded'
  <2>1. w \in 0 .. MaxWeight
    OBVIOUS
  <2>. QED
    BY <1>1, <2>1 DEF AddKey, WeightsBounded
<1>2. CASE Reset
  BY <1>2 DEF Reset, WeightsBounded
<1>3. CASE UNCHANGED weight
  BY <1>3 DEF WeightsBounded
<1>. QED
  BY <1>1, <1>2, <1>3
  DEF Next, RequestStep, KeyStep, AcquireKey, AcquireNothing, TryAcquireSpecificKey,
      ReleaseKey, MarkCooling, MarkDead, CleanupExpired, Tick, vars, schedVars

\* No keys weigh nothing.
LEMMA TotalWeightOfNone ==
    ASSUME NEW S, S = {}
    PROVE  TotalWeight(S) = 0
<1>1. {share \in {} \X Weights : share[2] <= weight[share[1]]} = {}
  OBVIOUS
<1>. QED
  BY <1>1, FS_EmptySet DEF TotalWeight

\* A key's weight is what it adds to the total.
LEMMA TotalWeightGrows ==
    ASSUME WeightsBounded, NEW S \in SUBSET Keys, NEW k \in S
    PROVE  TotalWeight(S) = TotalWeight(S \ {k}) + weight[k]
<1>. DEFINE Shares(T) == {share \in T \X Weights : share[2] <= weight[share[1]]}
<1>1. weight[k] \in 0 .. MaxWeight /\ MaxWeight \in Nat /\ weight[k] \in Nat
  BY SchedulerAssumption DEF SchedulerAssumption, WeightsBounded
<1>2. IsFiniteSet(S \ {k}) /\ IsFiniteSet(Weights)
  BY FS_Subset, FS_Interval, SchedulerAssumption DEF SchedulerAssumption, Weights
<1>3. IsFiniteSet((S \ {k}) \X Weights)
  BY <1>2, FS_Product
<1>4. IsFiniteSet(Shares(S \ {k}))
  BY <1>3, FS_Subset
<1>5. IsFiniteSet(1 .. weight[k]) /\ Cardinality(1 .. weight[k]) = weight[k]
  <2>1. 1 \in Int /\ weight[k] \in Int
    BY <1>1
  <2>2. /\ IsFiniteSet(1 .. weight[k])
        /\ Cardinality(1 .. weight[k]) = IF 1 > weight[k] THEN 0 ELSE weight[k] - 1 + 1
    BY <2>1, FS_Interval
  <2>. QED
    BY <1>1, <2>2
<1>6. IsFiniteSet({k}) /\ Cardinality({k}) = 1
  BY FS_Singleton
<1>7. /\ IsFiniteSet({k} \X (1 .. weight[k]))
      /\ Cardinality({k} \X (1 .. weight[k])) = weight[k]
  <2>1. Cardinality({k} \X (1 .. weight[k])) = 1 * weight[k]
    BY <1>5, <1>6, FS_Product
  <2>. QED
    BY <1>1, <1>5, <1>6, <2>1, FS_Product
<1>8. Shares(S) = Shares(S \ {k}) \cup ({k} \X (1 .. weight[k]))
  BY <1>1 DEF Weights
<1>9. Shares(S \ {k}) \cap ({k} \X (1 .. weight[k])) = {}
  OBVIOUS
<1>10. Cardinality(Shares(S \ {k})) \in Nat
  BY <1>4, FS_CardinalityType
<1>. HIDE DEF Shares
<1>11. Cardinality(Shares(S \ {k}) \cup ({k} \X (1 .. weight[k])))
        = Cardinality(Shares(S \ {k})) + Cardinality({k} \X (1 .. weight[k]))
          - Cardinality(Shares(S \ {k}) \cap ({k} \X (1 .. weight[k])))
  BY <1>4, <1>7, FS_Union
<1>12. Cardinality(Shares(S)) = Cardinality(Shares(S \ {k})) + weight[k]
  <2>1. Cardinality({}) = 0
    BY FS_EmptySet
  <2>2. Cardinality(Shares(S \ {k}) \cap ({k} \X (1 .. weight[k]))) = 0
    BY <1>9, <2>1
  <2>3. Cardinality(Shares(S)) = Cardinality(Shares(S \ {k}) \cup ({k} \X (1 .. weight[k])))
    BY <1>8
  <2>. QED
    BY <1>1, <1>7, <1>10, <1>11, <2>2, <2>3
<1>. QED
  BY <1>12 DEF TotalWeight, Shares

\* Credits c become d in a round in which the keys of E take part and p is served.
Round(c, d, E, p) ==
    \A k \in Keys : d[k] = (IF k \in E THEN c[k] + weight[k] ELSE c[k])
                            - (IF k = p THEN TotalWeight(E) ELSE 0)

\* A round gives to each set of keys the weight of those that take part in it, and takes the
\* weight of all that do from a set that has the served key.
LEMMA RoundAddsUp ==
    ASSUME WeightsBounded, NEW c \in [Keys -> Int], NEW d \in [Keys -> Int],
           NEW E \in SUBSET Keys, NEW p \in Keys, Round(c, d, E, p), NEW Q \in SUBSET Keys
    PROVE  Sum(d)[Q] = Sum(c)[Q] + TotalWeight(Q \cap E)
                         - (IF p \in Q THEN TotalWeight(E) ELSE 0)
<1>. DEFINE Share(S) == TotalWeight(S \cap E)
            charge == TotalWeight(E)
            Balanced(S) == Sum(d)[S] = Sum(c)[S] + Share(S) - (IF p \in S THEN charge ELSE 0)
            Good == {S \in SUBSET Keys : Balanced(S)}
<1>1. ASSUME NEW S \in SUBSET Keys
      PROVE  Share(S) \in Int /\ Sum(c)[S] \in Int /\ Sum(d)[S] \in Int
  <2>1. Share(S) \in Nat
    BY TotalWeightIsNat
  <2>2. Sum(c) \in [SUBSET Keys -> Int] /\ Sum(d) \in [SUBSET Keys -> Int]
    BY SumAddsUp
  <2>. QED
    BY <2>1, <2>2
<1>2. charge \in Int
  <2>1. charge \in Nat
    BY TotalWeightIsNat
  <2>. QED
    BY <2>1
<1>3. Balanced({})
  <2>1. Share({}) = 0
    BY TotalWeightOfNone
  <2>2. Sum(c)[{}] = 0 /\ Sum(d)[{}] = 0
    BY SumOfOne
  <2>. QED
    BY <2>1, <2>2
<1>4. ASSUME NEW S \in SUBSET Keys, NEW k \in S, Balanced(S \ {k})
      PROVE  Balanced(S)
  <2>. DEFINE R == S \ {k}
  <2>1. Sum(d)[S] = Sum(d)[R] + d[k] /\ Sum(c)[S] = Sum(c)[R] + c[k]
    BY SumRemove
  <2>2. Share(S) = Share(R) + (IF k \in E THEN weight[k] ELSE 0)
    <3>1. CASE k \in E
      <4>1. TotalWeight(S \cap E) = TotalWeight((S \cap E) \ {k}) + weight[k]
        BY <3>1, TotalWeightGrows
      <4>2. (S \cap E) \ {k} = R \cap E
        OBVIOUS
      <4>3. Share(S) = Share(R) + weight[k]
        BY <4>1, <4>2
      <4>. QED
        BY <3>1, <4>3
    <3>2. CASE k \notin E
      <4>1. S \cap E = R \cap E
        BY <3>2
      <4>2. Share(S) = Share(R)
        BY <4>1
      <4>3. Share(R) \in Int
        BY <1>1
      <4>. HIDE DEF Share, R
      <4>. QED
        BY <3>2, <4>2, <4>3
    <3>. QED
      BY <3>1, <3>2
  <2>3. d[k] = (IF k \in E THEN c[k] + weight[k] ELSE c[k]) - (IF k = p THEN charge ELSE 0)
    BY DEF Round
  <2>4. (p \in S <=> p \in R \/ k = p) /\ (k = p => p \notin R)
    OBVIOUS
  <2>5. c[k] \in Int /\ weight[k] \in Int
    BY SchedulerAssumption DEF SchedulerAssumption, WeightsBounded
  <2>6. /\ Share(R) \in Int /\ Sum(c)[R] \in Int
        /\ Sum(d)[R] = Sum(c)[R] + Share(R) - (IF p \in R THEN charge ELSE 0)
    BY <1>1, <1>4
  <2>. HIDE DEF Share, R, charge
  <2>. QED
    BY <1>2, <2>1, <2>2, <2>3, <2>4, <2>5, <2>6
<1>5. Good = SUBSET Keys
  <2>1. Good \subseteq SUBSET Keys /\ {} \in Good
        /\ \A S \in SUBSET Keys : \A k \in S : S \ {k} \in Good => S \in Good
    BY <1>3, <1>4
  <2>. HIDE DEF Good
  <2>. QED
    BY <2>1, KeyByKey
<1>. QED
  BY <1>5

\* One round of the rotation takes from the key it serves what it gave to all.
LEMMA RoundConserves ==
    ASSUME TypeOK, TypeOK', WeightsBounded, NEW r \in Requests, AcquireKey(r)
    PROVE  TotalCredit(current') = TotalCredit(current)
<1>1. PICK i \in Eligible :
        current' = [k \in Keys |->
                      (IF k \in EligibleKeys THEN Credited(k) ELSE current[k])
                      - (IF k = active[i] THEN TotalWeight(EligibleKeys) ELSE 0)]
  BY DEF AcquireKey
<1>2. EligibleKeys \in SUBSET Keys /\ active[i] \in Keys
  <2>1. \A j \in Eligible : active[j] \in Keys
    BY ElementsAreKeys DEF Eligible
  <2>. QED
    BY <2>1 DEF EligibleKeys
<1>3. TotalWeight(EligibleKeys) \in Int
  <2>1. TotalWeight(EligibleKeys) \in Nat
    BY <1>2, TotalWeightIsNat
  <2>. QED
    BY <2>1
<1>4. current \in [Keys -> Int] /\ current' \in [Keys -> Int]
  BY DEF TypeOK
<1>5. Round(current, current', EligibleKeys, active[i])
  BY <1>1 DEF Credited, Round
<1>6. Sum(current')[Keys] = Sum(current)[Keys] + TotalWeight(Keys \cap EligibleKeys)
                              - (IF active[i] \in Keys THEN TotalWeight(EligibleKeys) ELSE 0)
  <2>1. Keys \in SUBSET Keys /\ active[i] \in Keys /\ EligibleKeys \in SUBSET Keys
    BY <1>2
  <2>. QED
    BY <1>4, <1>5, <2>1, RoundAddsUp, Z3
<1>7. Keys \cap EligibleKeys = EligibleKeys
  BY <1>2
<1>8. Sum(current)[Keys] \in Int
  BY <1>4, SumAddsUp
<1>9. TotalCredit(current) = Sum(current)[Keys] /\ TotalCredit(current') = Sum(current')[Keys]
  BY TotalIsSum, Zenon
<1>10. Sum(current')[Keys]
        = Sum(current)[Keys] + TotalWeight(EligibleKeys) - TotalWeight(EligibleKeys)
  BY <1>2, <1>6, <1>7
<1>. QED
  BY <1>3, <1>8, <1>9, <1>10

\* Whatever the weights and however many keys are eligible in a round, credit is conserved.
THEOREM RoundsConserveCredit == Spec => CreditConserved
<1>. DEFINE Conserved == \A r \in Requests : AcquireKey(r) => TotalCredit(current') = TotalCredit(current)
<1>1. Init => TypeOK /\ WeightsBounded
  BY TypeInit, WeightsInit
<1>2. TypeOK /\ WeightsBounded /\ [Next]_vars => (TypeOK /\ WeightsBounded)'
  BY TypeStep, WeightsStep
<1>3. TypeOK /\ WeightsBounded /\ [Next]_vars
        => [\A r \in Requests : AcquireKey(r) => TotalCredit(current') = TotalCredit(current)]_vars
  BY TypeStep, RoundConserves
<1>. QED
  BY <1>1, <1>2, <1>3, PTL DEF Spec, CreditConserved

-----------------------------------------------------------------------------
(* How far credit can run up. *)

\* A sum over two parts.
LEMMA SumSplit ==
    ASSUME NEW c \in [Keys -> Int], NEW B \in SUBSET Keys, NEW Q \in SUBSET Keys
    PROVE  Sum(c)[Q] = Sum(c)[Q \ B] + Sum(c)[Q \cap B]
<1>. DEFINE sum == Sum(c)
            Splits(S) == sum[S] = sum[S \ B] + sum[S \cap B]
            Good == {S \in SUBSET Keys : Splits(S)}
<1>1. \A S \in SUBSET Keys : sum[S] \in Int
  BY SumAddsUp
<1>2. ASSUME NEW S \in SUBSET Keys, NEW k \in S PROVE sum[S] = sum[S \ {k}] + c[k]
  BY SumRemove
<1>3. sum[{}] = 0
  BY SumOfOne
<1>. HIDE DEF sum
<1>4. Splits({})
  <2>1. {} \ B = {} /\ {} \cap B = {}
    OBVIOUS
  <2>. QED
    BY <1>3, <2>1
<1>5. ASSUME NEW S \in SUBSET Keys, NEW k \in S, Splits(S \ {k}) PROVE Splits(S)
  <2>. DEFINE R == S \ {k}
  <2>1. sum[S] = sum[R] + c[k] /\ sum[R] = sum[R \ B] + sum[R \cap B]
    BY <1>2, <1>5
  <2>2. c[k] \in Int /\ sum[R \ B] \in Int /\ sum[R \cap B] \in Int
    BY <1>1
  <2>3. CASE k \in B
    <3>1. S \ B = R \ B /\ (S \cap B) \ {k} = R \cap B /\ k \in S \cap B
      BY <2>3
    <3>2. sum[S \cap B] = sum[R \cap B] + c[k]
      <4>1. sum[S \cap B] = sum[(S \cap B) \ {k}] + c[k]
        BY <1>2, <3>1
      <4>. QED
        BY <3>1, <4>1
    <3>3. sum[S \ B] = sum[R \ B]
      BY <3>1
    <3>. HIDE DEF R
    <3>. QED
      BY <2>1, <2>2, <3>2, <3>3
  <2>4. CASE k \notin B
    <3>1. S \cap B = R \cap B /\ (S \ B) \ {k} = R \ B /\ k \in S \ B
      BY <2>4
    <3>2. sum[S \ B] = sum[R \ B] + c[k]
      <4>1. sum[S \ B] = sum[(S \ B) \ {k}] + c[k]
        BY <1>2, <3>1
      <4>. QED
        BY <3>1, <4>1
    <3>3. sum[S \cap B] = sum[R \cap B]
      BY <3>1
    <3>. HIDE DEF R
    <3>. QED
      BY <2>1, <2>2, <3>2, <3>3
  <2>. QED
    BY <2>3, <2>4
<1>6. Good = SUBSET Keys
  <2>1. Good \subseteq SUBSET Keys /\ {} \in Good
        /\ \A S \in SUBSET Keys : \A k \in S : S \ {k} \in Good => S \in Good
    BY <1>4, <1>5
  <2>. HIDE DEF Good
  <2>. QED
    BY <2>1, KeyByKey
<1>. QED
  BY <1>6 DEF sum

\* The weights of a set of keys are a sum, too.
LEMMA TotalWeightIsSum ==
    ASSUME WeightsBounded, NEW Q \in SUBSET Keys
    PROVE  TotalWeight(Q) = Sum(weight)[Q]
<1>. DEFINE Good == {S \in SUBSET Keys : TotalWeight(S) = Sum(weight)[S]}
<1>1. weight \in [Keys -> Int]
  BY SchedulerAssumption DEF SchedulerAssumption, WeightsBounded
<1>2. TotalWeight({}) = Sum(weight)[{}]
  BY <1>1, TotalWeightOfNone, SumOfOne
<1>3. ASSUME NEW S \in SUBSET Keys, NEW k \in S, TotalWeight(S \ {k}) = Sum(weight)[S \ {k}]
      PROVE  TotalWeight(S) = Sum(weight)[S]
  <2>1. TotalWeight(S) = TotalWeight(S \ {k}) + weight[k]
    BY TotalWeightGrows
  <2>2. Sum(weight)[S] = Sum(weight)[S \ {k}] + weight[k]
    BY <1>1, SumRemove
  <2>. QED
    BY <1>3, <2>1, <2>2
<1>4. Good = SUBSET Keys
  <2>1. Good \subseteq SUBSET Keys /\ {} \in Good
        /\ \A S \in SUBSET Keys : \A k \in S : S \ {k} \in Good => S \in Good
    BY <1>2, <1>3
  <2>. HIDE DEF Good
  <2>. QED
    BY <2>1, KeyByKey
<1>. QED
  BY <1>4

\* So they split as sums do.
LEMMA TotalWeightSplit ==
    ASSUME WeightsBounded, NEW E \in SUBSET Keys, NEW Q \in SUBSET Keys
    PROVE  TotalWeight(E) = TotalWeight(E \ Q) + TotalWeight(Q \cap E)
<1>1. weight \in [Keys -> Int]
  BY SchedulerAssumption DEF SchedulerAssumption, WeightsBounded
<1>2. Sum(weight)[E] = Sum(weight)[E \ Q] + Sum(weight)[E \cap Q]
  BY <1>1, SumSplit
<1>3. /\ TotalWeight(E) = Sum(weight)[E] /\ TotalWeight(E \ Q) = Sum(weight)[E \ Q]
      /\ TotalWeight(E \cap Q) = Sum(weight)[E \cap Q]
  BY TotalWeightIsSum
<1>4. E \cap Q = Q \cap E
  OBVIOUS
<1>. QED
  BY <1>2, <1>3, <1>4

\* No key weighs more than MaxWeight.
LEMMA TotalWeightAtMost ==
    ASSUME NEW Q \in SUBSET Keys
    PROVE  TotalWeight(Q) <= Cardinality(Q) * MaxWeight
<1>1. IsFiniteSet(Q) /\ MaxWeight \in Nat \ {0}
  BY FS_Subset, SchedulerAssumption DEF SchedulerAssumption
<1>2. IsFiniteSet(Weights) /\ Cardinality(Weights) = MaxWeight
  <2>1. 1 \in Int /\ MaxWeight \in Int
    BY <1>1
  <2>2. IsFiniteSet(1 .. MaxWeight)
        /\ Cardinality(1 .. MaxWeight) = IF 1 > MaxWeight THEN 0 ELSE MaxWeight - 1 + 1
    BY <2>1, FS_Interval
  <2>. QED
    BY <1>1, <2>2 DEF Weights
<1>3. IsFiniteSet(Q \X Weights)
      /\ Cardinality(Q \X Weights) = Cardinality(Q) * Cardinality(Weights)
  BY <1>1, <1>2, FS_Product
<1>4. {share \in Q \X Weights : share[2] <= weight[share[1]]} \in SUBSET (Q \X Weights)
  OBVIOUS
<1>5. TotalWeight(Q) <= Cardinality(Q \X Weights)
  BY <1>3, <1>4, FS_Subset DEF TotalWeight
<1>. QED
  BY <1>2, <1>3, <1>5

\* Keys that together with their weights have no more than b each.
LEMMA CreditedAtMost ==
    ASSUME WeightsBounded, NEW c \in [Keys -> Int], NEW b \in Int, NEW Q \in SUBSET Keys,
           \A k \in Q : c[k] + weight[k] <= b
    PROVE  Sum(c)[Q] + TotalWeight(Q) <= Cardinality(Q) * b
<1>. DEFINE Small(S) == Sum(c)[S] + TotalWeight(S) <= Cardinality(S) * b
            Good == {S \in SUBSET Keys : S \subseteq Q => Small(S)}
<1>1. ASSUME NEW S \in SUBSET Keys
      PROVE  /\ Sum(c)[S] \in Int /\ TotalWeight(S) \in Int
             /\ IsFiniteSet(S) /\ Cardinality(S) \in Nat
  <2>1. TotalWeight(S) \in Nat
    BY TotalWeightIsNat
  <2>2. Sum(c) \in [SUBSET Keys -> Int]
    BY SumAddsUp
  <2>3. IsFiniteSet(S)
    BY FS_Subset, SchedulerAssumption DEF SchedulerAssumption
  <2>. QED
    BY <2>1, <2>2, <2>3, FS_CardinalityType
<1>2. Small({})
  <2>1. TotalWeight({}) = 0 /\ Sum(c)[{}] = 0 /\ Cardinality({}) = 0
    BY TotalWeightOfNone, SumOfOne, FS_EmptySet
  <2>. QED
    BY <2>1
<1>3. ASSUME NEW S \in SUBSET Keys, NEW k \in S, Small(S \ {k}), S \subseteq Q PROVE Small(S)
  <2>1. TotalWeight(S) = TotalWeight(S \ {k}) + weight[k]
    BY TotalWeightGrows
  <2>2. Sum(c)[S] = Sum(c)[S \ {k}] + c[k]
    BY SumRemove
  <2>3. Cardinality(S \ {k}) = Cardinality(S) - 1
    BY <1>1, FS_RemoveElement
  <2>4. c[k] + weight[k] <= b /\ c[k] \in Int /\ weight[k] \in Int
    BY <1>3, SchedulerAssumption DEF SchedulerAssumption, WeightsBounded
  <2>5. /\ Sum(c)[S \ {k}] \in Int /\ TotalWeight(S \ {k}) \in Int /\ Cardinality(S) \in Nat
        /\ Sum(c)[S \ {k}] + TotalWeight(S \ {k}) <= Cardinality(S \ {k}) * b
    BY <1>1, <1>3
  <2>6. (Cardinality(S) - 1) * b + b = Cardinality(S) * b
    BY <2>5
  <2>. QED
    BY <2>1, <2>2, <2>3, <2>4, <2>5, <2>6
<1>4. Good = SUBSET Keys
  <2>1. Good \subseteq SUBSET Keys /\ {} \in Good
    BY <1>2
  <2>2. ASSUME NEW S \in SUBSET Keys, NEW k \in S, S \ {k} \in Good PROVE S \in Good
    <3>. SUFFICES ASSUME S \subseteq Q PROVE Small(S)
      OBVIOUS
    <3>1. Small(S \ {k})
      BY <2>2
    <3>. HIDE DEF Small
    <3>. QED
      BY <1>3, <3>1
  <2>. HIDE DEF Good
  <2>. QED
    BY <2>1, <2>2, KeyByKey
<1>. QED
  BY <1>4

\* How much j of n keys may be owed, together, when weights are at most m.
Debt(m, n, j) == m * (j * (n - j))

\* A factor may be cancelled.
LEMMA Cancel ==
    ASSUME NEW e \in Nat, NEW a \in Int, NEW b \in Int, a + e * a <= b + e * b
    PROVE  a <= b
<1>. SUFFICES ASSUME a > b PROVE FALSE
  OBVIOUS
<1>1. a - b \in Nat /\ e * (a - b) >= 0
  OBVIOUS
<1>. QED
  BY <1>1

\* Debt is a parabola: its values e below and, e times, one above j average to less than the
\* value at j.
LEMMA DebtIsConcave ==
    ASSUME NEW m \in Int, NEW n \in Int, NEW j \in Int, NEW e \in Int
    PROVE  /\ Debt(m, n, j - e) + e * Debt(m, n, j + 1)
                = Debt(m, n, j) + e * Debt(m, n, j) - m * (e * (e + 1))
           /\ Debt(m, n, j + e) + e * Debt(m, n, j - 1)
                = Debt(m, n, j) + e * Debt(m, n, j) - m * (e * (e + 1))
BY DEF Debt

\* The keys of a set that take part in a round, e of them, have no more than q each; the
\* served key brings the set to b at most: what is left follows.
LEMMA Averaging ==
    ASSUME NEW m \in Nat, NEW e \in Nat, NEW s \in Int, NEW q \in Int, NEW v \in Int,
           NEW a \in Int, NEW b \in Int, NEW c \in Int,
           s <= a + e * q, q <= b - s + v, v <= (e + 1) * m,
           a + e * b = c + e * c - m * (e * (e + 1))
    PROVE  s <= c
<1>1. e * q <= e * (b - s + v)
  OBVIOUS
<1>2. e * (b - s + v) = e * b - e * s + e * v
  OBVIOUS
<1>3. e * v <= e * ((e + 1) * m)
  OBVIOUS
<1>4. e * ((e + 1) * m) = m * (e * (e + 1))
  OBVIOUS
<1>5. s + e * s <= c + e * c
  <2>. DEFINE eq == e * q  es == e * s  eb == e * b  ev == e * v
              x == m * (e * (e + 1))  ec == e * c
  <2>1. eq \in Int /\ es \in Int /\ eb \in Int /\ ev \in Int /\ x \in Int /\ ec \in Int
    OBVIOUS
  <2>2. eq <= eb - es + ev /\ ev <= x /\ a + eb = c + ec - x /\ s <= a + eq
    BY <1>1, <1>2, <1>3, <1>4
  <2>. HIDE DEF eq, es, eb, ev, x, ec
  <2>3. s + es <= c + ec
    BY <2>1, <2>2
  <2>. QED
    BY <2>3 DEF es, ec
<1>. QED
  BY <1>5, Cancel

\* No set of the keys in L is owed, or owes, more than Debt allows.
WithinDebt(c, L, n) ==
    \A S \in SUBSET L :
        /\ Sum(c)[S] <= Debt(MaxWeight, n, Cardinality(S))
        /\ - Sum(c)[S] <= Debt(MaxWeight, n, Cardinality(S))

\* A round in which the key with the most credit is served keeps within it.
LEMMA RoundKeepsDebt ==
    ASSUME WeightsBounded, NEW c \in [Keys -> Int], NEW d \in [Keys -> Int],
           NEW L \in SUBSET Keys, NEW E \in SUBSET L, NEW p \in E, NEW n \in Nat,
           Round(c, d, E, p), WithinDebt(c, L, n),
           \A k \in E : c[k] + weight[k] <= c[p] + weight[p]
    PROVE  WithinDebt(d, L, n)
<1>. DEFINE m == MaxWeight
            q == c[p] + weight[p]
<1>1. m \in Nat /\ c[p] \in Int /\ weight[p] \in 0 .. m /\ weight[p] \in Int /\ q \in Int
  BY SchedulerAssumption DEF SchedulerAssumption, WeightsBounded
<1>2. ASSUME NEW S \in SUBSET L
      PROVE  /\ S \in SUBSET Keys /\ IsFiniteSet(S) /\ Cardinality(S) \in Nat
             /\ Sum(c)[S] \in Int /\ Sum(d)[S] \in Int /\ TotalWeight(S) \in Nat
             /\ TotalWeight(S) <= Cardinality(S) * m
             /\ Debt(m, n, Cardinality(S)) \in Int
             /\ Sum(c)[S] <= Debt(m, n, Cardinality(S))
             /\ - Sum(c)[S] <= Debt(m, n, Cardinality(S))
  <2>1. S \in SUBSET Keys
    OBVIOUS
  <2>2. IsFiniteSet(S)
    BY FS_Subset, SchedulerAssumption DEF SchedulerAssumption
  <2>3. Cardinality(S) \in Nat
    BY <2>2, FS_CardinalityType
  <2>4. Sum(c) \in [SUBSET Keys -> Int] /\ Sum(d) \in [SUBSET Keys -> Int]
    BY SumAddsUp
  <2>5. TotalWeight(S) \in Nat
    BY <2>1, TotalWeightIsNat
  <2>6. TotalWeight(S) <= Cardinality(S) * m
    BY <2>1, TotalWeightAtMost
  <2>7. Debt(m, n, Cardinality(S)) \in Int
    BY <1>1, <2>3 DEF Debt
  <2>8. Sum(c)[S] <= Debt(m, n, Cardinality(S)) /\ - Sum(c)[S] <= Debt(m, n, Cardinality(S))
    BY DEF WithinDebt
  <2>. QED
    BY <2>1, <2>2, <2>3, <2>4, <2>5, <2>6, <2>7, <2>8
<1>3. ASSUME NEW S \in SUBSET L
      PROVE  Sum(d)[S] = Sum(c)[S] + TotalWeight(S \cap E)
                           - (IF p \in S THEN TotalWeight(E) ELSE 0)
  <2>1. S \in SUBSET Keys /\ E \in SUBSET Keys /\ p \in Keys
    OBVIOUS
  <2>. QED
    BY <2>1, RoundAddsUp, Z3
<1>4. ASSUME NEW S \in SUBSET E PROVE Sum(c)[S] + TotalWeight(S) <= Cardinality(S) * q
  <2>1. S \in SUBSET Keys /\ \A k \in S : c[k] + weight[k] <= q
    OBVIOUS
  <2>. HIDE DEF q
  <2>. QED
    BY <1>1, <2>1, CreditedAtMost
<1>. SUFFICES ASSUME NEW T \in SUBSET L
              PROVE  /\ Sum(d)[T] <= Debt(m, n, Cardinality(T))
                     /\ - Sum(d)[T] <= Debt(m, n, Cardinality(T))
  BY DEF WithinDebt
<1>. DEFINE j == Cardinality(T)
<1>t. T \in SUBSET Keys /\ IsFiniteSet(T) /\ j \in Nat /\ Sum(c)[T] \in Int /\ Sum(d)[T] \in Int
      /\ Sum(c)[T] <= Debt(m, n, j) /\ - Sum(c)[T] <= Debt(m, n, j) /\ Debt(m, n, j) \in Int
  BY <1>2
<1>5. CASE p \notin T
  <2>. DEFINE In == T \cap E
              Out == T \ E
              More == T \cup {p}
              e == Cardinality(In)
  <2>1. In \in SUBSET L /\ In \in SUBSET E /\ Out \in SUBSET L /\ More \in SUBSET L
    OBVIOUS
  <2>2. e \in Nat /\ TotalWeight(In) \in Nat /\ TotalWeight(In) <= e * m /\ Sum(c)[In] \in Int
        /\ Sum(c)[In] + TotalWeight(In) <= e * q
    BY <1>2, <1>4, <2>1
  <2>3. Cardinality(Out) = j - e
    BY <1>t, FS_Difference
  <2>4. Cardinality(More) = j + 1
    BY <1>t, <1>5, FS_AddElement
  <2>5. Sum(c)[T] = Sum(c)[Out] + Sum(c)[In]
    <3>1. T \in SUBSET Keys /\ E \in SUBSET Keys
      OBVIOUS
    <3>. QED
      BY <3>1, SumSplit
  <2>6. Sum(c)[More] = Sum(c)[T] + c[p]
    <3>1. More \in SUBSET Keys /\ p \in More /\ More \ {p} = T
      BY <1>5
    <3>2. Sum(c)[More] = Sum(c)[More \ {p}] + c[p]
      BY <3>1, SumRemove
    <3>. QED
      BY <3>1, <3>2
  <2>7. Sum(d)[T] = Sum(c)[T] + TotalWeight(In)
    BY <1>3, <1>5, <1>t, <2>2
  <2>8. Sum(c)[Out] \in Int /\ Sum(c)[Out] <= Debt(m, n, j - e) /\ Debt(m, n, j - e) \in Int
    BY <1>2, <2>1, <2>3
  <2>9. Sum(c)[More] <= Debt(m, n, j + 1) /\ Debt(m, n, j + 1) \in Int
    BY <1>2, <2>1, <2>4
  <2>10. Debt(m, n, j - e) + e * Debt(m, n, j + 1)
           = Debt(m, n, j) + e * Debt(m, n, j) - m * (e * (e + 1))
    <3>1. m \in Int /\ n \in Int /\ j \in Int /\ e \in Int
      BY <1>1, <1>t, <2>2
    <3>. HIDE DEF m, j, e
    <3>. QED
      BY <3>1, DebtIsConcave
  <2>. DEFINE v == TotalWeight(In) + weight[p]
  <2>11. v \in Int /\ v <= (e + 1) * m
    BY <1>1, <2>2
  <2>12. Sum(d)[T] <= Debt(m, n, j - e) + e * q
    BY <1>1, <2>2, <2>5, <2>7, <2>8
  <2>13. q <= Debt(m, n, j + 1) - Sum(d)[T] + v
    BY <1>1, <1>t, <2>2, <2>6, <2>7, <2>9
  <2>14. Sum(d)[T] <= Debt(m, n, j)
    <3>. HIDE DEF v, q, e, j, m
    <3>. QED
      BY <1>1, <1>t, <2>2, <2>8, <2>9, <2>10, <2>11, <2>12, <2>13, Averaging
  <2>. QED
    BY <1>t, <2>2, <2>7, <2>14
<1>6. CASE p \in T
  <2>. DEFINE In == E \ T
              More == T \cup In
              Less == T \ {p}
              e == Cardinality(In)
  <2>1. In \in SUBSET L /\ In \in SUBSET E /\ Less \in SUBSET L /\ More \in SUBSET L
    OBVIOUS
  <2>2. e \in Nat /\ TotalWeight(In) \in Nat /\ TotalWeight(In) <= e * m /\ Sum(c)[In] \in Int
        /\ IsFiniteSet(In) /\ Sum(c)[In] + TotalWeight(In) <= e * q
    BY <1>2, <1>4, <2>1
  <2>3. Cardinality(More) = j + e
    <3>1. T \cap In = {}
      OBVIOUS
    <3>2. Cardinality(T \cup In) = Cardinality(T) + Cardinality(In) - Cardinality(T \cap In)
      BY <1>t, <2>2, FS_Union
    <3>3. Cardinality({}) = 0
      BY FS_EmptySet
    <3>4. Cardinality(T \cap In) = 0
      BY <3>1, <3>3
    <3>. QED
      BY <1>t, <2>2, <3>2, <3>4
  <2>4. Cardinality(Less) = j - 1
    BY <1>t, <1>6, FS_RemoveElement
  <2>5. Sum(c)[More] = Sum(c)[T] + Sum(c)[In]
    <3>1. More \in SUBSET Keys /\ In \in SUBSET Keys /\ More \ In = T /\ More \cap In = In
      OBVIOUS
    <3>2. Sum(c)[More] = Sum(c)[More \ In] + Sum(c)[More \cap In]
      <4>. HIDE DEF More, In
      <4>. QED
        BY <3>1, SumSplit
    <3>. QED
      BY <3>1, <3>2
  <2>6. Sum(c)[T] = Sum(c)[Less] + c[p]
    BY <1>6, <1>t, SumRemove
  <2>7. Sum(d)[T] = Sum(c)[T] - TotalWeight(In)
    <3>1. E \in SUBSET Keys /\ T \cap E \in SUBSET L
      OBVIOUS
    <3>2. TotalWeight(E) = TotalWeight(In) + TotalWeight(T \cap E)
      BY <1>t, <3>1, TotalWeightSplit
    <3>3. Sum(d)[T] = Sum(c)[T] + TotalWeight(T \cap E) - TotalWeight(E)
      BY <1>3, <1>6
    <3>4. TotalWeight(T \cap E) \in Nat
      BY <1>2, <3>1
    <3>. QED
      BY <1>t, <2>2, <3>2, <3>3, <3>4
  <2>8. Sum(c)[More] \in Int /\ - Sum(c)[More] <= Debt(m, n, j + e) /\ Debt(m, n, j + e) \in Int
    BY <1>2, <2>1, <2>3
  <2>9. Sum(c)[Less] \in Int /\ - Sum(c)[Less] <= Debt(m, n, j - 1) /\ Debt(m, n, j - 1) \in Int
    BY <1>2, <2>1, <2>4
  <2>10. Debt(m, n, j + e) + e * Debt(m, n, j - 1)
           = Debt(m, n, j) + e * Debt(m, n, j) - m * (e * (e + 1))
    <3>1. m \in Int /\ n \in Int /\ j \in Int /\ e \in Int
      BY <1>1, <1>t, <2>2
    <3>. HIDE DEF m, j, e
    <3>. QED
      BY <3>1, DebtIsConcave
  <2>. DEFINE v == TotalWeight(In) + weight[p]
              s == - Sum(d)[T]
  <2>11. v \in Int /\ v <= (e + 1) * m /\ s \in Int
    BY <1>1, <1>t, <2>2
  <2>12. s <= Debt(m, n, j + e) + e * q
    BY <1>1, <1>t, <2>2, <2>5, <2>7, <2>8
  <2>13. q <= Debt(m, n, j - 1) - s + v
    BY <1>1, <1>t, <2>2, <2>6, <2>7, <2>9
  <2>14. s <= Debt(m, n, j)
    <3>. HIDE DEF v, q, e, j, m, s
    <3>. QED
      BY <1>1, <1>t, <2>2, <2>8, <2>9, <2>10, <2>11, <2>12, <2>13, Averaging
  <2>. QED
    BY <1>t, <2>2, <2>7, <2>14
<1>. QED
  BY <1>5, <1>6

\* The keys of the rotation, and those of them that can be served.
ActiveKeys == {k \in Keys : IsActive(k)}
Live == ActiveKeys \ dead

\* The live keys are within their debt, all others are even.
DebtInv ==
    /\ TypeOK /\ WeightsBounded
    /\ WithinDebt(current, Live, Cardinality(ActiveKeys))
    /\ \A k \in Keys \ Live : current[k] = 0

\* The number of active keys is a number.
LEMMA ActiveFinite ==
    ASSUME NEW S \in SUBSET Keys
    PROVE  IsFiniteSet(S) /\ Cardinality(S) \in Nat /\ Cardinality(S) >= 0
<1>1. IsFiniteSet(S)
  BY FS_Subset, SchedulerAssumption DEF SchedulerAssumption
<1>. QED
  BY <1>1, FS_CardinalityType

\* Only the credit of its keys makes a sum.
LEMMA SumSame ==
    ASSUME NEW c \in [Keys -> Int], NEW d \in [Keys -> Int], NEW Q \in SUBSET Keys,
           \A k \in Q : c[k] = d[k]
    PROVE  Sum(c)[Q] = Sum(d)[Q]
<1>. DEFINE Good == {S \in SUBSET Keys : S \subseteq Q => Sum(c)[S] = Sum(d)[S]}
<1>1. {} \in Good
  <2>1. Sum(c)[{}] = 0 /\ Sum(d)[{}] = 0
    BY SumOfOne
  <2>. QED
    BY <2>1
<1>2. ASSUME NEW S \in SUBSET Keys, NEW k \in S, S \ {k} \in Good PROVE S \in Good
  <2>. SUFFICES ASSUME S \subseteq Q PROVE Sum(c)[S] = Sum(d)[S]
    OBVIOUS
  <2>1. Sum(c)[S] = Sum(c)[S \ {k}] + c[k] /\ Sum(d)[S] = Sum(d)[S \ {k}] + d[k]
    BY SumRemove
  <2>2. Sum(c)[S \ {k}] = Sum(d)[S \ {k}] /\ c[k] = d[k]
    BY <1>2
  <2>. QED
    BY <2>1, <2>2
<1>3. Good = SUBSET Keys
  <2>1. Good \subseteq SUBSET Keys
    OBVIOUS
  <2>. HIDE DEF Good
  <2>. QED
    BY <1>1, <1>2, <2>1, KeyByKey
<1>. QED
  BY <1>3

\* Keys that are all even are within any debt.
LEMMA EvenIsWithinDebt ==
    ASSUME NEW c \in [Keys -> Int], NEW n \in Nat
    PROVE  WithinDebt(c, {}, n)
<1>1. Sum(c)[{}] = 0 /\ Cardinality({}) = 0
  BY SumOfOne, FS_EmptySet
<1>2. Debt(MaxWeight, n, 0) = 0
  BY SchedulerAssumption DEF SchedulerAssumption, Debt
<1>. SUFFICES ASSUME NEW S \in SUBSET {}
              PROVE  /\ Sum(c)[S] <= Debt(MaxWeight, n, Cardinality(S))
                     /\ - Sum(c)[S] <= Debt(MaxWeight, n, Cardinality(S))
  BY DEF WithinDebt
<1>3. S = {}
  OBVIOUS
<1>. QED
  BY <1>1, <1>2, <1>3

\* Fewer keys, of unchanged credit, stay within the debt.
LEMMA FewerKeepDebt ==
    ASSUME NEW c \in [Keys -> Int], NEW d \in [Keys -> Int], NEW n \in Nat,
           NEW L \in SUBSET Keys, WithinDebt(c, L, n), NEW M \in SUBSET L,
           \A k \in M : c[k] = d[k]
    PROVE  WithinDebt(d, M, n)
<1>. SUFFICES ASSUME NEW S \in SUBSET M
              PROVE  /\ Sum(d)[S] <= Debt(MaxWeight, n, Cardinality(S))
                     /\ - Sum(d)[S] <= Debt(MaxWeight, n, Cardinality(S))
  BY DEF WithinDebt
<1>1. S \in SUBSET Keys /\ S \in SUBSET L
  OBVIOUS
<1>2. Sum(c)[S] = Sum(d)[S]
  BY <1>1, SumSame
<1>. QED
  BY <1>1, <1>2 DEF WithinDebt

\* A key that joins the rotation without credit leaves everyone within the debt of one more.
LEMMA JoiningKeepsDebt ==
    ASSUME NEW c \in [Keys -> Int], NEW L \in SUBSET Keys, NEW k \in Keys, c[k] = 0,
           NEW n \in Nat, Cardinality(L) <= n, WithinDebt(c, L, n)
    PROVE  WithinDebt(c, L \cup {k}, n + 1)
<1>. SUFFICES ASSUME NEW S \in SUBSET (L \cup {k})
              PROVE  /\ Sum(c)[S] <= Debt(MaxWeight, n + 1, Cardinality(S))
                     /\ - Sum(c)[S] <= Debt(MaxWeight, n + 1, Cardinality(S))
  BY DEF WithinDebt
<1>. DEFINE R == (S \ {k}) \cap L
            j == Cardinality(S)
            i == Cardinality(R)
            m == MaxWeight
<1>1. R \in SUBSET L /\ R \in SUBSET Keys /\ S \in SUBSET Keys /\ L \in SUBSET Keys
  OBVIOUS
<1>2. i \in Nat /\ j \in Nat /\ IsFiniteSet(S) /\ IsFiniteSet(L) /\ m \in Nat
      /\ Cardinality(L) \in Nat
  BY <1>1, ActiveFinite, SchedulerAssumption DEF SchedulerAssumption
<1>3. i <= Cardinality(L)
  BY <1>1, <1>2, FS_Subset
<1>4. Sum(c)[R] \in Int
  BY <1>1, SumAddsUp
<1>5. Sum(c)[S] = Sum(c)[R] /\ (j = i \/ j = i + 1)
  <2>1. CASE k \in S
    <3>1. R = S \ {k}
      OBVIOUS
    <3>2. Sum(c)[S] = Sum(c)[S \ {k}] + c[k]
      BY <1>1, <2>1, SumRemove
    <3>3. Cardinality(S \ {k}) = j - 1
      BY <1>2, <2>1, FS_RemoveElement
    <3>4. Sum(c)[S] = Sum(c)[R] + 0 /\ i = j - 1
      BY <3>1, <3>2, <3>3
    <3>. HIDE DEF R, i, j
    <3>. QED
      BY <1>2, <1>4, <3>4
  <2>2. CASE k \notin S
    <3>1. R = S
      BY <2>2
    <3>. QED
      BY <3>1
  <2>. QED
    BY <2>1, <2>2
<1>6. Sum(c)[R] <= Debt(m, n, i) /\ - Sum(c)[R] <= Debt(m, n, i)
  BY <1>1 DEF WithinDebt
<1>7. Debt(m, n, i) <= Debt(m, n + 1, j) /\ Debt(m, n, i) \in Int /\ Debt(m, n + 1, j) \in Int
  <2>. HIDE DEF i, j, m, R
  <2>1. n - i \in Nat /\ i <= n
    BY <1>2, <1>3
  <2>2. i * (n - i) <= j * (n + 1 - j) /\ i * (n - i) \in Int /\ j * (n + 1 - j) \in Int
    <3>1. CASE j = i
      BY <1>2, <2>1, <3>1
    <3>2. CASE j = i + 1
      BY <1>2, <2>1, <3>2
    <3>. QED
      BY <1>5, <3>1, <3>2
  <2>. QED
    BY <1>2, <2>2 DEF Debt
<1>. HIDE DEF i, j, m, R
<1>8. Sum(c)[S] <= Debt(m, n + 1, j) /\ - Sum(c)[S] <= Debt(m, n + 1, j)
  BY <1>4, <1>5, <1>6, <1>7
<1>. QED
  BY <1>8 DEF j, m

\* No key is owed anything when the process starts.
LEMMA DebtInit == Init => DebtInv
<1>. SUFFICES ASSUME Init PROVE DebtInv
  OBVIOUS
<1>1. TypeOK /\ WeightsBounded
  BY TypeInit, WeightsInit
<1>2. ActiveKeys = {} /\ Live = {} /\ \A k \in Keys : current[k] = 0
  BY DEF Init, ActiveKeys, Live, IsActive
<1>3. current \in [Keys -> Int] /\ Cardinality({}) = 0
  BY <1>1, FS_EmptySet DEF TypeOK
<1>. QED
  BY <1>1, <1>2, <1>3, EvenIsWithinDebt DEF DebtInv

\* A round serves the live key with the most credit.
LEMMA AcquireKeepsDebt ==
    ASSUME DebtInv, TypeOK', WeightsBounded', NEW r \in Requests, AcquireKey(r)
    PROVE  DebtInv'
<1>1. PICK i \in Eligible :
        /\ Heaviest(i)
        /\ current' = [k \in Keys |->
                         (IF k \in EligibleKeys THEN Credited(k) ELSE current[k])
                         - (IF k = active[i] THEN TotalWeight(EligibleKeys) ELSE 0)]
  BY DEF AcquireKey
<1>. DEFINE p == active[i]
            n == Cardinality(ActiveKeys)
<1>2. EligibleKeys \in SUBSET Live /\ p \in EligibleKeys
  <2>1. \A j \in Eligible : active[j] \in Keys /\ active[j] \notin dead /\ IsActive(active[j])
    BY ElementsAreKeys DEF Eligible, Available, DebtInv, IsActive
  <2>. QED
    BY <2>1 DEF EligibleKeys, Live, ActiveKeys
<1>3. Live \in SUBSET Keys /\ n \in Nat
  BY ActiveFinite DEF Live, ActiveKeys
<1>4. current \in [Keys -> Int] /\ current' \in [Keys -> Int] /\ weight \in [Keys -> Nat]
  BY DEF DebtInv, TypeOK
<1>5. Round(current, current', EligibleKeys, p)
  BY <1>1 DEF Credited, Round
<1>6. ASSUME NEW k \in EligibleKeys PROVE current[k] + weight[k] <= current[p] + weight[p]
  <2>1. PICK j \in Eligible : k = active[j]
    BY DEF EligibleKeys
  <2>2. Credited(active[j]) < Credited(active[i]) \/ Credited(active[j]) = Credited(active[i])
    BY <1>1 DEF Heaviest
  <2>3. k \in Keys /\ p \in Keys
    BY <1>2, <1>3
  <2>. HIDE DEF p
  <2>4. Credited(k) <= Credited(p) /\ Credited(k) \in Int /\ Credited(p) \in Int
    BY <1>4, <2>1, <2>2, <2>3 DEF Credited, p
  <2>. QED
    BY <2>4 DEF Credited
<1>7. WithinDebt(current, Live, n) /\ WeightsBounded
  BY DEF DebtInv
<1>8. WithinDebt(current', Live, n)
  <2>. HIDE DEF p, n
  <2>. QED
    BY <1>2, <1>3, <1>4, <1>5, <1>6, <1>7, RoundKeepsDebt, Z3
<1>9. ActiveKeys' = ActiveKeys /\ Live' = Live
  BY DEF AcquireKey, ActiveKeys, Live, IsActive
<1>10. ASSUME NEW k \in Keys \ Live PROVE current'[k] = 0
  <2>1. k \notin EligibleKeys /\ k # p /\ current[k] = 0
    BY <1>2 DEF DebtInv
  <2>. QED
    BY <1>1, <2>1
<1>. QED
  BY <1>8, <1>9, <1>10 DEF DebtInv

\* So does everything else: credit changes in a round, when a key dies and with a reset only.
LEMMA DebtStep == DebtInv /\ [Next]_vars => DebtInv'
<1>. SUFFICES ASSUME DebtInv, [Next]_vars PROVE DebtInv'
  OBVIOUS
<1>. DEFINE n == Cardinality(ActiveKeys)
<1>1. TypeOK' /\ WeightsBounded'
  BY TypeStep, WeightsStep DEF DebtInv
<1>2. ActiveKeys \in SUBSET Keys /\ Live \in SUBSET Keys /\ Live \in SUBSET ActiveKeys /\ n \in Nat
      /\ IsFiniteSet(ActiveKeys)
  BY ActiveFinite DEF Live, ActiveKeys
<1>3. current \in [Keys -> Int] /\ current' \in [Keys -> Int]
  BY <1>1 DEF DebtInv, TypeOK
<1>4. WithinDebt(current, Live, n) /\ \A k \in Keys \ Live : current[k] = 0
  BY DEF DebtInv
<1>5. ASSUME NEW r \in Requests, AcquireKey(r) PROVE DebtInv'
  BY <1>1, <1>5, AcquireKeepsDebt
<1>6. ASSUME NEW k \in Keys, NEW w \in WeightsOf[k], AddKey(k, w), ~ IsActive(k) PROVE DebtInv'
  <2>1. active' = Append(active, k) /\ UNCHANGED <<current, dead>> /\ active \in Seq(Keys)
    BY <1>6 DEF AddKey, DebtInv, TypeOK
  <2>2. ActiveKeys' = ActiveKeys \cup {k}
    <3>1. ASSUME NEW q PROVE IsActive(q)' <=> IsActive(q) \/ q = k
      BY <2>1 DEF IsActive
    <3>. QED
      BY <3>1 DEF ActiveKeys
  <2>3. k \notin ActiveKeys /\ k \notin Live /\ current[k] = 0
    BY <1>4, <1>6 DEF ActiveKeys, Live
  <2>4. Cardinality(ActiveKeys') = n + 1
    BY <1>2, <2>2, <2>3, FS_AddElement
  <2>5. Live' \in SUBSET (Live \cup {k}) /\ Live \cup {k} \in SUBSET Keys
    BY <1>2, <2>1, <2>2 DEF Live
  <2>6. Cardinality(Live) <= n
    BY <1>2, FS_Subset
  <2>. HIDE DEF n
  <2>7. WithinDebt(current, Live \cup {k}, n + 1)
    BY <1>2, <1>3, <1>4, <2>3, <2>6, JoiningKeepsDebt
  <2>8. WithinDebt(current', Live', n + 1)
    BY <1>2, <1>3, <2>1, <2>5, <2>7, FewerKeepDebt, Z3
  <2>9. \A q \in Keys \ Live' : current'[q] = 0
    BY <1>4, <2>1, <2>2, <2>3 DEF Live
  <2>. QED
    BY <1>1, <2>4, <2>8, <2>9 DEF DebtInv
<1>7. ASSUME NEW k \in Keys, MarkDead(k) PROVE DebtInv'
  <2>1. /\ UNCHANGED active /\ dead' = dead \cup {k}
        /\ current' = [current EXCEPT ![k] = 0]
    BY <1>7 DEF MarkDead
  <2>2. ActiveKeys' = ActiveKeys /\ Live' = Live \ {k}
    BY <2>1 DEF ActiveKeys, Live, IsActive
  <2>3. \A q \in Live \ {k} : current[q] = current'[q]
    BY <1>2, <1>3, <2>1
  <2>4. WithinDebt(current', Live \ {k}, n)
    <3>. HIDE DEF n
    <3>1. Live \ {k} \in SUBSET Live
      OBVIOUS
    <3>. QED
      BY <1>2, <1>3, <1>4, <2>3, <3>1, FewerKeepDebt, Z3
  <2>5. \A q \in Keys \ Live' : current'[q] = 0
    BY <1>3, <1>4, <2>1, <2>2
  <2>. QED
    BY <1>1, <2>2, <2>4, <2>5 DEF DebtInv
<1>8. CASE Reset
  <2>1. ActiveKeys' = {} /\ Live' = {} /\ \A k \in Keys : current'[k] = 0
    BY <1>8 DEF Reset, ActiveKeys, Live, IsActive
  <2>2. Cardinality({}) = 0 /\ 0 \in Nat
    BY FS_EmptySet
  <2>3. WithinDebt(current', {}, 0)
    BY <1>3, <2>2, EvenIsWithinDebt
  <2>. QED
    BY <1>1, <2>1, <2>2, <2>3 DEF DebtInv
<1>9. CASE UNCHANGED <<active, current, dead>>
  <2>1. ActiveKeys' = ActiveKeys /\ Live' = Live
    BY <1>9 DEF ActiveKeys, Live, IsActive
  <2>. QED
    BY <1>1, <1>4, <1>9, <2>1 DEF DebtInv
<1>10. ASSUME NEW k \in Keys, NEW w \in WeightsOf[k], AddKey(k, w), IsActive(k) PROVE DebtInv'
  BY <1>9, <1>10 DEF AddKey
<1>. QED
  BY <1>5, <1>6, <1>7, <1>8, <1>9, <1>10
  DEF Next, RequestStep, KeyStep, AcquireNothing, TryAcquireSpecificKey,
      ReleaseKey, MarkCooling, CleanupExpired, Tick, vars, schedVars

\* Whatever the weights, and however keys become ineligible and come back, no key is ever
\* owed more than the largest weight for every other active key, or owes more.
THEOREM DebtsAreBounded == Spec => []DebtBounded
<1>1. DebtInv => DebtBounded
  <2>. SUFFICES ASSUME DebtInv, NEW k \in Keys, IsActive(k)
                PROVE  current[k] \in - (MaxWeight * (Cardinality(ActiveKeys) - 1))
                                      .. MaxWeight * (Cardinality(ActiveKeys) - 1)
    BY DEF DebtBounded, ActiveKeys
  <2>. DEFINE n == Cardinality(ActiveKeys)
  <2>1. ActiveKeys \in SUBSET Keys /\ k \in ActiveKeys
    BY DEF ActiveKeys
  <2>2. n \in Nat /\ n # 0 /\ MaxWeight \in Nat
    BY <2>1, ActiveFinite, FS_EmptySet, SchedulerAssumption DEF SchedulerAssumption
  <2>3. current \in [Keys -> Int] /\ current[k] \in Int
    BY DEF DebtInv, TypeOK
  <2>4. CASE k \in Live
    <3>1. {k} \in SUBSET Live /\ Cardinality({k}) = 1
      BY <2>4, FS_Singleton
    <3>2. Sum(current)[{k}] = current[k]
      BY <2>3, SumOfOne
    <3>3. /\ Sum(current)[{k}] <= Debt(MaxWeight, n, Cardinality({k}))
          /\ - Sum(current)[{k}] <= Debt(MaxWeight, n, Cardinality({k}))
      BY <3>1 DEF DebtInv, WithinDebt
    <3>4. current[k] <= Debt(MaxWeight, n, 1) /\ - current[k] <= Debt(MaxWeight, n, 1)
      BY <3>1, <3>2, <3>3
    <3>. HIDE DEF n
    <3>. QED
      BY <2>2, <2>3, <3>4 DEF Debt, n
  <2>5. CASE k \notin Live
    <3>1. current[k] = 0
      BY <2>5 DEF DebtInv
    <3>2. MaxWeight * (n - 1) \in Nat
      BY <2>2
    <3>. HIDE DEF n
    <3>. QED
      BY <3>1, <3>2 DEF n
  <2>. QED
    BY <2>4, <2>5
<1>. QED
  BY <1>1, DebtInit, DebtStep, PTL DEF Spec

---------------------------------------------------------------------------
(* The pool. *)

\* What one step of the pool does, seen from the scheduler and from the leases.
StepOK == [Next]_vars /\ ThreadTypeOK' /\ HoldsWhatItUses' /\ WritesVerdicts'

\* At first no thread is anywhere and no slot is held.
LEMMA PoolInvInit == PoolInit => PoolInv
<1> SUFFICES ASSUME PoolInit PROVE PoolInv
  OBVIOUS
<1>1. TypeOK
  BY TypeInit DEF PoolInit
<1>2. ThreadTypeOK
  BY DEF PoolInit, ThreadTypeOK, Places
<1>3. ASSUME NEW r \in Requests PROVE pc[r] \in Holding <=> holds[r] # NoKey
  <2>1. r \in Threads /\ r # Refresher
    BY KeyPoolAssumption DEF KeyPoolAssumption, Threads
  <2>2. pc[r] = "idle" /\ holds[r] = NoKey
    BY <2>1 DEF PoolInit, Init
  <2> QED
    BY <2>2 DEF Holding
<1>4. WritesVerdicts
  BY DEF PoolInit, WritesVerdicts
<1> QED
  BY <1>1, <1>2, <1>3, <1>4 DEF PoolInv, PoolTypeOK, HoldsWhatItUses

\* A thread that goes on to write the store has its verdict; nobody else's is touched.
LEMMA MoveWithVerdict ==
    ASSUME PoolInv, NEW t \in Threads, NEW where \in Places, Goto(t, where),
           verdict' \in [Threads -> RowStatuses \cup {NoVerdict}],
           \A u \in Threads \ {t} : verdict'[u] = verdict[u],
           where \in {"record", "persist"} => verdict'[t] \in RowStatuses
    PROVE  pc' \in [Threads -> Places] /\ WritesVerdicts'
<1>1. pc' \in [Threads -> Places]
  BY DEF PoolInv, PoolTypeOK, ThreadTypeOK, Goto
<1>2. ASSUME NEW u \in Threads, pc'[u] \in {"record", "persist"}
      PROVE  verdict'[u] \in RowStatuses
  <2>1. CASE u = t
    BY <1>2, <2>1 DEF PoolInv, PoolTypeOK, ThreadTypeOK, Goto
  <2>2. CASE u # t
    BY <1>2, <2>2 DEF PoolInv, PoolTypeOK, ThreadTypeOK, WritesVerdicts, Goto
  <2> QED
    BY <2>1, <2>2
<1> QED
  BY <1>1, <1>2 DEF WritesVerdicts

\* A thread that takes and drops no lease may go wherever its lease allows.
LEMMA MoveWithoutLease ==
    ASSUME PoolInv, UNCHANGED holds, NEW t \in Threads, NEW where \in Places, Goto(t, where),
           t \in Requests => (pc[t] \in Holding <=> where \in Holding)
    PROVE  HoldsWhatItUses'
<1>1. ASSUME NEW r \in Requests PROVE pc'[r] \in Holding <=> holds'[r] # NoKey
  <2>1. r \in Threads
    BY DEF Threads
  <2>2. CASE r = t
    BY <2>1, <2>2 DEF PoolInv, PoolTypeOK, ThreadTypeOK, HoldsWhatItUses, Goto
  <2>3. CASE r # t
    BY <2>1, <2>3 DEF PoolInv, PoolTypeOK, ThreadTypeOK, HoldsWhatItUses, Goto
  <2> QED
    BY <2>2, <2>3
<1> QED
  BY <1>1 DEF HoldsWhatItUses

\* A request that takes or drops a lease goes where that is expected of it.
LEMMA MoveWithLease ==
    ASSUME PoolInv, NEW r \in Requests, NEW k, holds' = [holds EXCEPT ![r] = k],
           NEW where \in Places, Goto(r, where), where \in Holding <=> k # NoKey
    PROVE  HoldsWhatItUses'
<1>1. ASSUME NEW q \in Requests PROVE pc'[q] \in Holding <=> holds'[q] # NoKey
  <2>1. q \in Threads /\ r \in Threads
    BY DEF Threads
  <2>2. CASE q = r
    BY <2>1, <2>2 DEF PoolInv, PoolTypeOK, TypeOK, ThreadTypeOK, Goto
  <2>3. CASE q # r
    BY <2>1, <2>3 DEF PoolInv, PoolTypeOK, TypeOK, ThreadTypeOK, HoldsWhatItUses, Goto
  <2> QED
    BY <2>2, <2>3
<1> QED
  BY <1>1 DEF HoldsWhatItUses

\* The common case: neither leases nor verdicts change.
LEMMA PlainMove ==
    ASSUME PoolInv, UNCHANGED <<holds, verdict>>, NEW t \in Threads,
           NEW where \in Places \ (Holding \cup {"record"}), Goto(t, where),
           pc[t] \notin Holding
    PROVE  pc' \in [Threads -> Places] /\ HoldsWhatItUses' /\ WritesVerdicts'
<1>1. HoldsWhatItUses'
  BY MoveWithoutLease
<1>2. pc' \in [Threads -> Places] /\ WritesVerdicts'
  BY MoveWithVerdict DEF PoolInv, PoolTypeOK, ThreadTypeOK, Holding
<1> QED
  BY <1>1, <1>2

\* Reloads and restores: Reset and AddKey are the only scheduler operations in them.
LEMMA LoadStepOK ==
    ASSUME PoolInv, NEW t \in Threads, LoadStep(t) PROVE StepOK
<1> USE DEF Holding, Places, PoolInv, PoolTypeOK
<1> DEFINE Moved == pc' \in [Threads -> Places] /\ HoldsWhatItUses' /\ WritesVerdicts'
<1>1. CASE LoadRead(t)
  <2>1. Moved
    BY <1>1, PlainMove DEF LoadRead, vars
  <2> QED
    BY <1>1, <2>1 DEF LoadRead, StepOK, ThreadTypeOK, vars, storeVars
<1>2. CASE LoadReset(t)
  <2>1. Moved
    BY <1>2, PlainMove DEF LoadReset, Reset
  <2> QED
    BY <1>2, <2>1 DEF LoadReset, StepOK, ThreadTypeOK, storeVars, Next
<1>3. CASE LoadAdd(t)
  <2>1. PICK k \in todo[t] \ Broken : /\ \E w \in WeightsOf[k] : AddKey(k, w)
                                      /\ todo' = [todo EXCEPT ![t] = @ \ {k}]
    BY <1>3 DEF LoadAdd
  <2>2. k \in Keys
    BY DEF ThreadTypeOK
  <2>3. Next
    BY <2>1, <2>2 DEF Next, KeyStep
  <2>4. UNCHANGED holds
    BY <2>1 DEF AddKey
  <2>5. HoldsWhatItUses' /\ WritesVerdicts'
    BY <1>3, <2>4 DEF LoadAdd, HoldsWhatItUses, WritesVerdicts
  <2> QED
    BY <1>3, <2>1, <2>3, <2>5 DEF LoadAdd, StepOK, ThreadTypeOK, storeVars
<1>4. CASE LoadEnd(t)
  <2>1. Moved
    BY <1>4, PlainMove DEF LoadEnd, EndLoad, AfterLoad, vars
  <2> QED
    BY <1>4, <2>1 DEF LoadEnd, EndLoad, StepOK, ThreadTypeOK, vars, storeVars
<1>5. CASE RestoreRead(t)
  <2>1. Moved
    BY <1>5, PlainMove DEF RestoreRead, vars
  <2> QED
    BY <1>5, <2>1 DEF RestoreRead, StepOK, ThreadTypeOK, vars, storeVars
<1>6. CASE Probe(t)
  <2>1. UNCHANGED <<vars, storeVars, health, booted>>
    BY <1>6 DEF Probe
  <2>2. PICK k \in todo[t] :
          /\ \/ verdict' = [verdict EXCEPT ![t] = StatusFor(health[k])]
             \/ UNCHANGED verdict
          /\ \/ verdict'[t] # NoVerdict /\ Goto(t, "record") /\ UNCHANGED todo
             \/ /\ verdict'[t] = NoVerdict
                /\ todo' = [todo EXCEPT ![t] = @ \ {k}]
                /\ \/ t \in Admins /\ Goto(t, "idle")
                   \/ UNCHANGED pc
    BY <1>6 DEF Probe
  <2>3. StatusFor(health[k]) \in RowStatuses \cup {NoVerdict}
    <3>1. health[k] \in {"ok", "limited", "refused", "down"}
      BY KeyPoolAssumption DEF KeyPoolAssumption, ThreadTypeOK
    <3> QED
      BY <3>1 DEF StatusFor, RowStatuses, NoVerdict
  <2>4. /\ verdict' \in [Threads -> RowStatuses \cup {NoVerdict}]
        /\ \A u \in Threads \ {t} : verdict'[u] = verdict[u]
        /\ todo' \in [Threads -> SUBSET Keys]
    BY <2>2, <2>3 DEF ThreadTypeOK
  <2>5. Moved
    <3>1. CASE UNCHANGED pc
      BY <1>6, <2>1, <2>4, <3>1 DEF Probe, ThreadTypeOK, HoldsWhatItUses, WritesVerdicts, vars
    <3>2. CASE Goto(t, "record") /\ verdict'[t] # NoVerdict
      <4>1. HoldsWhatItUses'
        BY <1>6, <2>1, <3>2, MoveWithoutLease DEF Probe, vars
      <4> QED
        BY <2>4, <3>2, <4>1, MoveWithVerdict
    <3>3. CASE Goto(t, "idle")
      <4>1. HoldsWhatItUses'
        BY <1>6, <2>1, <3>3, MoveWithoutLease DEF Probe, vars
      <4> QED
        BY <2>4, <3>3, <4>1, MoveWithVerdict
    <3> QED
      BY <2>2, <3>1, <3>2, <3>3
  <2> QED
    BY <2>1, <2>4, <2>5 DEF StepOK, ThreadTypeOK, vars, storeVars
<1>7. CASE Record(t)
  <2>1. PICK k \in todo[t] :
          /\ status' = [status EXCEPT ![k] = IF Exists(k) THEN verdict[t] ELSE @]
          /\ todo' = [todo EXCEPT ![t] = @ \ {k}]
          /\ \E where \in {"probe", "read", "idle"} : Goto(t, where)
    BY <1>7 DEF Record
  <2>2. UNCHANGED <<vars, probeOnly, health, booted>> /\ pc[t] = "record"
        /\ verdict' = [verdict EXCEPT ![t] = NoVerdict]
    BY <1>7 DEF Record
  <2>3. /\ verdict' \in [Threads -> RowStatuses \cup {NoVerdict}]
        /\ \A u \in Threads \ {t} : verdict'[u] = verdict[u]
    BY <2>2 DEF ThreadTypeOK
  <2>4. Moved
    <3>1. PICK where \in {"probe", "read", "idle"} : Goto(t, where)
      BY <2>1
    <3>2. HoldsWhatItUses'
      BY <2>2, <3>1, MoveWithoutLease DEF vars
    <3> QED
      BY <2>3, <3>1, <3>2, MoveWithVerdict
  <2>5. todo' \in [Threads -> SUBSET Keys]
    BY <2>1 DEF ThreadTypeOK
  <2>6. status' \in [Keys -> RowStatuses \cup {"New", "Deleted"}]
    <3>1. verdict[t] \in RowStatuses
      BY <2>2 DEF WritesVerdicts
    <3> QED
      BY <2>1, <3>1 DEF ThreadTypeOK
  <2> QED
    BY <2>2, <2>3, <2>4, <2>5, <2>6 DEF StepOK, ThreadTypeOK, vars
<1>8. CASE RestoreEnd(t)
  <2>1. Moved
    BY <1>8, PlainMove DEF RestoreEnd, vars
  <2> QED
    BY <1>8, <2>1 DEF RestoreEnd, StepOK, ThreadTypeOK, vars, storeVars
<1> QED
  BY <1>1, <1>2, <1>3, <1>4, <1>5, <1>6, <1>7, <1>8 DEF LoadStep

\* Requests: each of their steps is the scheduler operation it calls, or none.
LEMMA RequestStepOK ==
    ASSUME PoolInv, NEW r \in Requests, Proceed(r) \/ Arrive(r) PROVE StepOK
<1> USE DEF Holding, Places, PoolInv, PoolTypeOK
<1> DEFINE Moved == pc' \in [Threads -> Places] /\ HoldsWhatItUses' /\ WritesVerdicts'
<1>t. r \in Threads
  BY DEF Threads
<1>k. NoKey \notin Keys /\ holds[r] \in Keys \cup {NoKey}
  BY SchedulerAssumption DEF SchedulerAssumption, TypeOK
<1>1. CASE Begin(r)
  <2>1. Moved
    BY <1>1, <1>t, PlainMove DEF Begin, vars
  <2> QED
    BY <1>1, <2>1 DEF Begin, StepOK, ThreadTypeOK, vars, storeVars
<1>2. CASE GiveUp(r)
  <2>1. Moved
    BY <1>2, <1>t, PlainMove DEF GiveUp, vars
  <2> QED
    BY <1>2, <2>1 DEF GiveUp, StepOK, ThreadTypeOK, vars, storeVars
<1>3. ASSUME NEW k \in Keys, TryPreferred(r, k) PROVE StepOK
  <2>1. Next
    BY <1>3 DEF TryPreferred, Next, RequestStep
  <2>2. /\ UNCHANGED <<storeVars, health, booted, todo, verdict>> /\ pc[r] = "idle"
        /\ holds[r] = NoKey
    BY <1>3 DEF TryPreferred, TryAcquireSpecificKey
  <2>3. Moved
    <3>1. CASE holds' = [holds EXCEPT ![r] = k]
      <4>1. Goto(r, "calling")
        BY <1>3, <1>k, <3>1 DEF TryPreferred, TypeOK
      <4>2. HoldsWhatItUses'
        BY <1>k, <3>1, <4>1, MoveWithLease
      <4> QED
        BY <1>t, <2>2, <4>1, <4>2, MoveWithVerdict DEF ThreadTypeOK
    <3>2. CASE UNCHANGED holds
      <4>1. Goto(r, "acquire")
        BY <1>3, <2>2, <3>2 DEF TryPreferred
      <4> QED
        BY <1>t, <2>2, <3>2, <4>1, PlainMove
    <3> QED
      BY <1>3, <3>1, <3>2 DEF TryPreferred, TryAcquireSpecificKey
  <2> QED
    BY <2>1, <2>2, <2>3 DEF StepOK, ThreadTypeOK, storeVars
<1>4. CASE Acquire(r)
  <2>1. Next
    BY <1>4 DEF Acquire, Next, RequestStep
  <2>2. UNCHANGED <<storeVars, health, booted, todo, verdict>> /\ Goto(r, "calling")
    BY <1>4 DEF Acquire
  <2>3. PICK i \in Eligible : holds' = [holds EXCEPT ![r] = active[i]]
    BY <1>4 DEF Acquire, AcquireKey
  <2>4. active[i] \in Keys
    BY ElementsAreKeys DEF Eligible
  <2>5. HoldsWhatItUses'
    BY <1>k, <2>2, <2>3, <2>4, MoveWithLease
  <2>6. Moved
    BY <1>t, <2>2, <2>5, MoveWithVerdict DEF ThreadTypeOK
  <2> QED
    BY <2>1, <2>2, <2>6 DEF StepOK, ThreadTypeOK, storeVars
<1>5. CASE FindNothing(r)
  <2>1. Next
    BY <1>5 DEF FindNothing, Next, RequestStep
  <2>2. UNCHANGED <<storeVars, health, booted, todo, verdict>> /\ UNCHANGED holds
    BY <1>5 DEF FindNothing, AcquireNothing
  <2>3. Moved
    BY <1>5, <1>t, <2>2, PlainMove DEF FindNothing
  <2> QED
    BY <2>1, <2>2, <2>3 DEF StepOK, ThreadTypeOK, storeVars
<1>6. CASE Answered(r)
  <2>1. UNCHANGED <<storeVars, health, booted, todo>> /\ pc[r] = "calling"
    BY <1>6 DEF Answered
  <2>2. holds[r] \in Keys
    BY <1>k, <2>1 DEF HoldsWhatItUses
  <2>3. PICK k \in Keys : k = holds[r]
    BY <2>2
  <2>4. [Next]_vars /\ UNCHANGED holds
    <3>1. ASSUME NEW d \in CoolDurations, MarkCooling(holds[r], d) PROVE Next /\ UNCHANGED holds
      BY <2>3, <3>1 DEF Next, KeyStep, MarkCooling
    <3>2. ASSUME MarkDead(holds[r]) PROVE Next /\ UNCHANGED holds
      BY <2>3, <3>2 DEF Next, KeyStep, MarkDead
    <3> QED
      BY <1>6, <3>1, <3>2 DEF Answered, vars
  <2>5. PICK where \in {"release", "persist"} :
          /\ Goto(r, where)
          /\ \/ UNCHANGED verdict /\ where = "release"
             \/ \E v \in {"Cooling", "Dead"} : verdict' = [verdict EXCEPT ![r] = v]
    BY <1>6 DEF Answered
  <2>6. /\ verdict' \in [Threads -> RowStatuses \cup {NoVerdict}]
        /\ \A u \in Threads \ {r} : verdict'[u] = verdict[u]
        /\ where = "persist" => verdict'[r] \in RowStatuses
    BY <1>t, <2>5 DEF ThreadTypeOK, RowStatuses
  <2>7. HoldsWhatItUses'
    BY <1>t, <2>1, <2>4, <2>5, MoveWithoutLease
  <2>8. Moved
    BY <1>t, <2>5, <2>6, <2>7, MoveWithVerdict
  <2> QED
    BY <2>1, <2>4, <2>6, <2>8 DEF StepOK, ThreadTypeOK, storeVars
<1>7. CASE Persist(r)
  <2>1. /\ UNCHANGED <<vars, probeOnly, health, booted, todo>> /\ pc[r] = "persist"
        /\ Goto(r, "release") /\ verdict' = [verdict EXCEPT ![r] = NoVerdict]
        /\ status' = [status EXCEPT ![holds[r]] = IF Exists(holds[r]) THEN verdict[r] ELSE @]
    BY <1>7 DEF Persist
  <2>2. /\ verdict' \in [Threads -> RowStatuses \cup {NoVerdict}]
        /\ \A u \in Threads \ {r} : verdict'[u] = verdict[u]
    BY <1>t, <2>1 DEF ThreadTypeOK
  <2>3. HoldsWhatItUses'
    BY <1>t, <2>1, MoveWithoutLease DEF vars
  <2>4. Moved
    BY <1>t, <2>1, <2>2, <2>3, MoveWithVerdict
  <2>5. status' \in [Keys -> RowStatuses \cup {"New", "Deleted"}]
    <3>1. verdict[r] \in RowStatuses
      BY <1>t, <2>1 DEF WritesVerdicts
    <3> QED
      BY <2>1, <3>1 DEF ThreadTypeOK
  <2> QED
    BY <2>1, <2>2, <2>4, <2>5 DEF StepOK, ThreadTypeOK, vars
<1>8. CASE Release(r)
  <2>1. Next
    BY <1>8 DEF Release, Next, RequestStep
  <2>2. /\ UNCHANGED <<storeVars, health, booted, todo, verdict>> /\ Goto(r, "idle")
        /\ holds' = [holds EXCEPT ![r] = NoKey]
    BY <1>8 DEF Release, ReleaseKey
  <2>3. HoldsWhatItUses'
    BY <2>2, MoveWithLease
  <2>4. Moved
    BY <1>t, <2>2, <2>3, MoveWithVerdict DEF ThreadTypeOK
  <2> QED
    BY <2>1, <2>2, <2>4 DEF StepOK, ThreadTypeOK, storeVars
<1> QED
  BY <1>1, <1>2, <1>3, <1>4, <1>5, <1>6, <1>7, <1>8 DEF Proceed, Arrive

\* Admin handlers and tickers: they touch the store and start a reload, nothing else.
LEMMA MaintenanceStepOK ==
    ASSUME PoolInv, NEW t \in Threads, pc[t] = "idle",
           NEW where \in {"read", "restore", "probe"}, Goto(t, where),
           UNCHANGED <<vars, health, booted, verdict>>,
           status' \in [Keys -> RowStatuses \cup {"New", "Deleted"}],
           probeOnly' \subseteq Keys,
           todo' \in [Threads -> SUBSET Keys]
    PROVE  StepOK
<1>1. pc' \in [Threads -> Places] /\ HoldsWhatItUses' /\ WritesVerdicts'
  BY PlainMove DEF Places, Holding, vars
<1> QED
  BY <1>1 DEF StepOK, PoolInv, PoolTypeOK, ThreadTypeOK, vars

\* What admins do to keys moves no request and takes no slot.
LEMMA AdminStepOK ==
    ASSUME PoolInv, NEW t \in Admins, AdminStep(t) PROVE StepOK
<1> USE DEF PoolInv, PoolTypeOK, AdminIdle
<1>t. t \in Threads
  BY DEF Threads
<1>1. CASE AddAPIKey(t)
  <2>1. PICK k \in Keys : /\ status' = [status EXCEPT ![k] = "Active"]
                          /\ probeOnly' \in {probeOnly, probeOnly \cup {k}}
    BY <1>1 DEF AddAPIKey
  <2>2. status' \in [Keys -> RowStatuses \cup {"New", "Deleted"}] /\ probeOnly' \subseteq Keys
    BY <2>1 DEF ThreadTypeOK, RowStatuses
  <2> QED
    BY <1>1, <1>t, <2>2, MaintenanceStepOK DEF AddAPIKey, ThreadTypeOK
<1>2. CASE UpdateAPIKey(t)
  <2>1. probeOnly' \subseteq Keys
    BY <1>2 DEF UpdateAPIKey, ThreadTypeOK
  <2> QED
    BY <1>2, <1>t, <2>1, MaintenanceStepOK DEF UpdateAPIKey, ThreadTypeOK
<1>3. CASE DeleteAPIKey(t)
  <2>1. PICK k \in Keys : /\ status' = [status EXCEPT ![k] = "Deleted"]
                          /\ probeOnly' = probeOnly \ {k}
    BY <1>3 DEF DeleteAPIKey
  <2>2. status' \in [Keys -> RowStatuses \cup {"New", "Deleted"}] /\ probeOnly' \subseteq Keys
    BY <2>1 DEF ThreadTypeOK
  <2> QED
    BY <1>3, <1>t, <2>2, MaintenanceStepOK DEF DeleteAPIKey, ThreadTypeOK
<1>4. CASE UpdateAPIKeyStatus(t)
  <2>1. PICK k \in Keys, s \in {"Active", "Disabled"} : status' = [status EXCEPT ![k] = s]
    BY <1>4 DEF UpdateAPIKeyStatus
  <2>2. status' \in [Keys -> RowStatuses \cup {"New", "Deleted"}]
    BY <2>1 DEF ThreadTypeOK, RowStatuses
  <2> QED
    BY <1>4, <1>t, <2>2, MaintenanceStepOK DEF UpdateAPIKeyStatus, ThreadTypeOK
<1>5. CASE ProbeAPIKey(t)
  <2>1. PICK k \in Keys : todo' = [todo EXCEPT ![t] = {k}]
    BY <1>5 DEF ProbeAPIKey
  <2>2. todo' \in [Threads -> SUBSET Keys]
    BY <2>1 DEF ThreadTypeOK
  <2> QED
    BY <1>5, <1>t, <2>2, MaintenanceStepOK DEF ProbeAPIKey, ThreadTypeOK, storeVars
<1>6. CASE ReloadSystem(t)
  BY <1>6, <1>t, MaintenanceStepOK DEF ReloadSystem, ThreadTypeOK, storeVars
<1> QED
  BY <1>1, <1>2, <1>3, <1>4, <1>5, <1>6 DEF AdminStep

\* Every step of the pool is a step of the scheduler, or leaves it alone.
LEMMA PoolStepOK == PoolInv /\ [PoolNext]_poolVars => StepOK
<1> SUFFICES ASSUME PoolInv, [PoolNext]_poolVars PROVE StepOK
  OBVIOUS
<1> USE DEF PoolInv, PoolTypeOK
<1>1. ASSUME NEW t \in Threads, LoadStep(t) PROVE StepOK
  BY <1>1, LoadStepOK
<1>2. ASSUME NEW r \in Requests, Proceed(r) \/ Arrive(r) PROVE StepOK
  BY <1>2, RequestStepOK
<1>3. ASSUME NEW t \in Admins, AdminStep(t) PROVE StepOK
  BY <1>3, AdminStepOK
<1>4. CASE RefresherTick
  <2>1. Refresher \in Threads
    BY DEF Threads
  <2> QED
    BY <1>4, <2>1, MaintenanceStepOK DEF RefresherTick, ThreadTypeOK, storeVars
<1>5. ASSUME NEW t \in Probers, ProberTick(t) PROVE StepOK
  <2>1. t \in Threads
    BY DEF Threads
  <2> QED
    BY <1>5, <2>1, MaintenanceStepOK DEF ProberTick, ThreadTypeOK, storeVars
<1>6. CASE HealthChanges
  <2>1. health' \in [Keys -> Healths]
    BY <1>6 DEF HealthChanges, ThreadTypeOK
  <2> QED
    BY <1>6, <2>1 DEF HealthChanges, StepOK, ThreadTypeOK, HoldsWhatItUses, WritesVerdicts,
                      vars, storeVars, threadVars
<1>7. CASE Passes
  <2>1. Next /\ UNCHANGED holds
    BY <1>7 DEF Passes, Tick, Next
  <2> QED
    BY <1>7, <2>1 DEF Passes, StepOK, ThreadTypeOK, HoldsWhatItUses, WritesVerdicts,
                      storeVars, threadVars
<1>8. CASE UNCHANGED poolVars
  BY <1>8 DEF poolVars, StepOK, ThreadTypeOK, HoldsWhatItUses, WritesVerdicts,
              vars, storeVars, threadVars
<1> QED
  BY <1>1, <1>2, <1>3, <1>4, <1>5, <1>6, <1>7, <1>8 DEF PoolNext

\* Whatever the threads do: a request that uses a key holds exactly that lease, and
\* no thread writes a status to the store that it was not given by the upstream.
THEOREM PoolInvariant == PoolSpec => []PoolInv
<1>1. PoolInv /\ [PoolNext]_poolVars => PoolInv'
  BY PoolStepOK, TypeStep DEF PoolInv, PoolTypeOK, StepOK
<1> QED
  BY <1>1, PoolInvInit, PTL DEF PoolSpec, PoolSafety

\* The pool implements the scheduler: initial states to initial states, each step to a
\* scheduler operation or a stutter.
THEOREM PoolRefinesScheduler == PoolSpec => ImplementsScheduler
<1>1. PoolInit => Init
  BY DEF PoolInit
<1>2. PoolInv /\ [PoolNext]_poolVars => [Next]_vars
  BY PoolStepOK DEF StepOK
<1> QED
  BY <1>1, <1>2, PoolInvariant, PTL DEF PoolSpec, PoolSafety, ImplementsScheduler, Spec

\* So no interleaving of requests, reloads, restores and admin handlers leaks a slot.
THEOREM PoolLeaksNoSlot == PoolSpec => []NoSlotLeaked
BY PoolRefinesScheduler, SlotsNeverLeak, PTL DEF ImplementsScheduler

\* And none of them lets a key's debt grow.
THEOREM PoolDebtsAreBounded == PoolSpec => []DebtBounded
BY PoolRefinesScheduler, DebtsAreBounded, PTL DEF ImplementsScheduler

---------------------------------------------------------------------------
(* Keys that an admin disabled. *)

\* A disabled key nobody works with stays so when a step leaves its row alone, rotates
\* and leases other keys only, and gives no thread the key to work with.
LEMMA StaysSettled ==
    ASSUME PoolInv, NEW k \in Keys, Settled(k), status'[k] = status[k],
           \/ UNCHANGED active
           \/ active' = << >>
           \/ \E j \in Keys \ {k} : active' = Append(active, j),
           \A r \in Requests : holds'[r] = k => holds[r] = k,
           \A t \in Threads : k \in todo'[t] => k \in todo[t]
    PROVE  Settled(k)'
<1>1. ~IsActive(k)'
  <2>1. CASE UNCHANGED active
    BY <2>1 DEF Settled, IsActive
  <2>2. CASE active' = << >>
    BY <2>2 DEF IsActive
  <2>3. ASSUME NEW j \in Keys \ {k}, active' = Append(active, j) PROVE ~IsActive(k)'
    <3>1. active \in Seq(Keys)
      BY DEF PoolInv, PoolTypeOK, TypeOK
    <3>2. ASSUME NEW i \in 1 .. Len(active'), active'[i] = k PROVE FALSE
      <4>1. i = Len(active) + 1 \/ (i \in 1 .. Len(active) /\ active'[i] = active[i])
        BY <2>3, <3>1, <3>2
      <4>2. CASE i = Len(active) + 1
        BY <2>3, <3>1, <3>2, <4>2
      <4>3. CASE i \in 1 .. Len(active) /\ active'[i] = active[i]
        BY <3>2, <4>3 DEF Settled, IsActive
      <4> QED
        BY <4>1, <4>2, <4>3
    <3> QED
      BY <3>2 DEF IsActive
  <2> QED
    BY <2>1, <2>2, <2>3
<1>2. Holders(k)' = {}
  BY DEF Settled, Holders
<1> QED
  BY <1>1, <1>2 DEF Settled

\* Reloads take up active rows only, restores cooling and dead ones, and what is written
\* to the store is about a row the thread took up.
LEMMA LoadLeavesSettled ==
    ASSUME PoolInv, NEW k \in Keys, Settled(k), NEW t \in Threads, LoadStep(t)
    PROVE  Settled(k)'
<1>0. /\ status[k] = "Disabled" /\ \A u \in Threads : k \notin todo[u]
      /\ todo \in [Threads -> SUBSET Keys] /\ status \in [Keys -> RowStatuses \cup {"New", "Deleted"}]
  BY DEF Settled, PoolInv, PoolTypeOK, ThreadTypeOK
<1>1. CASE LoadRead(t)
  BY <1>0, <1>1, StaysSettled DEF LoadRead, Loadable, vars, schedVars, storeVars
<1>2. CASE LoadReset(t)
  BY <1>0, <1>2, StaysSettled DEF LoadReset, Reset, storeVars
<1>3. CASE LoadAdd(t)
  <2>1. PICK j \in todo[t] : /\ \E w \in WeightsOf[j] : AddKey(j, w)
                            /\ todo' = [todo EXCEPT ![t] = @ \ {j}]
    BY <1>3 DEF LoadAdd
  <2>2. j \in Keys \ {k}
    BY <1>0
  <2>3. UNCHANGED <<holds, status>>
    BY <1>3, <2>1 DEF LoadAdd, AddKey, storeVars
  <2>4. UNCHANGED active \/ active' = Append(active, j)
    BY <2>1 DEF AddKey
  <2>5. \A u \in Threads : k \in todo'[u] => k \in todo[u]
    BY <1>0, <2>1
  <2> QED
    BY <2>2, <2>3, <2>4, <2>5, StaysSettled
<1>4. CASE LoadEnd(t)
  BY <1>0, <1>4, StaysSettled DEF LoadEnd, vars, schedVars, storeVars
<1>5. CASE RestoreRead(t)
  BY <1>0, <1>5, StaysSettled DEF RestoreRead, vars, schedVars, storeVars
<1>6. CASE Probe(t)
  <2>1. UNCHANGED <<vars, storeVars>>
    BY <1>6 DEF Probe
  <2>2. \E j \in todo[t] : UNCHANGED todo \/ todo' = [todo EXCEPT ![t] = @ \ {j}]
    BY <1>6 DEF Probe
  <2>3. \A u \in Threads : k \in todo'[u] => k \in todo[u]
    BY <1>0, <2>2
  <2> QED
    BY <2>1, <2>3, StaysSettled DEF vars, schedVars, storeVars
<1>7. CASE Record(t)
  <2>1. PICK j \in todo[t] :
           /\ status' = [status EXCEPT ![j] = IF Exists(j) THEN verdict[t] ELSE @]
           /\ todo' = [todo EXCEPT ![t] = @ \ {j}]
    BY <1>7 DEF Record
  <2>2. status'[k] = status[k]
    BY <1>0, <2>1
  <2>3. \A u \in Threads : k \in todo'[u] => k \in todo[u]
    BY <1>0, <2>1
  <2> QED
    BY <1>7, <2>2, <2>3, StaysSettled DEF Record, vars, schedVars
<1>8. CASE RestoreEnd(t)
  BY <1>8, StaysSettled DEF RestoreEnd, vars, schedVars, storeVars
<1> QED
  BY <1>1, <1>2, <1>3, <1>4, <1>5, <1>6, <1>7, <1>8 DEF LoadStep

\* A request takes keys of the rotation only, also the one its conversation prefers, and
\* writes to the store about the key it holds.
LEMMA RequestLeavesSettled ==
    ASSUME PoolInv, NEW k \in Keys, Settled(k), NEW r \in Requests, Proceed(r) \/ Arrive(r)
    PROVE  Settled(k)'
<1>0. /\ k # NoKey /\ ~IsActive(k) /\ \A q \in Requests : holds[q] # k
      /\ holds \in [Requests -> Keys \cup {NoKey}]
      /\ status \in [Keys -> RowStatuses \cup {"New", "Deleted"}]
  BY SchedulerAssumption
  DEF SchedulerAssumption, Settled, Holders, PoolInv, PoolTypeOK, TypeOK, ThreadTypeOK
<1>1. CASE Begin(r) \/ GiveUp(r)
  BY <1>1, StaysSettled DEF Begin, GiveUp, vars, schedVars, storeVars
<1>2. ASSUME NEW j \in Keys, TryPreferred(r, j) PROVE Settled(k)'
  <2>1. UNCHANGED holds \/ (IsActive(j) /\ holds' = [holds EXCEPT ![r] = j])
    BY <1>2 DEF TryPreferred, TryAcquireSpecificKey
  <2>2. \A q \in Requests : holds'[q] = k => holds[q] = k
    BY <1>0, <2>1
  <2> QED
    BY <1>2, <2>2, StaysSettled DEF TryPreferred, TryAcquireSpecificKey, storeVars
<1>3. CASE Acquire(r)
  <2>1. PICK i \in 1 .. Len(active) : holds' = [holds EXCEPT ![r] = active[i]]
    BY <1>3 DEF Acquire, AcquireKey, Eligible
  <2>2. active[i] # k
    BY <1>0 DEF IsActive
  <2>3. \A q \in Requests : holds'[q] = k => holds[q] = k
    BY <1>0, <2>1, <2>2
  <2> QED
    BY <1>3, <2>3, StaysSettled DEF Acquire, AcquireKey, storeVars
<1>4. CASE FindNothing(r)
  BY <1>4, StaysSettled DEF FindNothing, AcquireNothing, storeVars
<1>5. CASE Answered(r)
  <2>1. UNCHANGED <<active, holds>>
    BY <1>5 DEF Answered, MarkCooling, MarkDead, vars, schedVars
  <2> QED
    BY <1>5, <2>1, StaysSettled DEF Answered, storeVars
<1>6. CASE Persist(r)
  <2>1. status'[k] = status[k]
    BY <1>0, <1>6 DEF Persist
  <2> QED
    BY <1>6, <2>1, StaysSettled DEF Persist, vars, schedVars
<1>7. CASE Release(r)
  <2>1. holds' = [holds EXCEPT ![r] = NoKey]
    BY <1>7 DEF Release, ReleaseKey
  <2>2. \A q \in Requests : holds'[q] = k => holds[q] = k
    BY <1>0, <2>1
  <2> QED
    BY <1>7, <2>2, StaysSettled DEF Release, ReleaseKey, storeVars
<1> QED
  BY <1>1, <1>2, <1>3, <1>4, <1>5, <1>6, <1>7 DEF Proceed, Arrive

\* The handlers that add keys, change their probe-only flag or only reload.
LEMMA AdminLeavesSettled ==
    ASSUME PoolInv, NEW k \in Keys, Settled(k), NEW t \in Admins,
           AddAPIKey(t) \/ UpdateAPIKey(t) \/ ReloadSystem(t)
    PROVE  Settled(k)'
<1>1. CASE AddAPIKey(t)
  <2>1. PICK j \in Keys : status[j] = "New" /\ status' = [status EXCEPT ![j] = "Active"]
    BY <1>1 DEF AddAPIKey, First
  <2>2. status'[k] = status[k]
    BY <2>1 DEF Settled, PoolInv, PoolTypeOK, ThreadTypeOK
  <2> QED
    BY <1>1, <2>2, StaysSettled DEF AddAPIKey, vars, schedVars
<1>2. CASE UpdateAPIKey(t) \/ ReloadSystem(t)
  BY <1>2, StaysSettled DEF UpdateAPIKey, ReloadSystem, vars, schedVars, storeVars
<1> QED
  BY <1>1, <1>2

\* However reloads, restores, probes and requests interleave: once the work under way
\* with a disabled key is over, only an admin brings it back or even has it used.
THEOREM AdminsDecide == PoolSpec => DisabledIsFinal
<1> DEFINE Decided(k) == \/ Settled(k)'
                         \/ \E t \in Admins : \/ DeleteAPIKey(t) \/ UpdateAPIKeyStatus(t)
                                              \/ ProbeAPIKey(t)
<1>1. ASSUME PoolInv, [PoolNext]_poolVars, NEW k \in Keys, Settled(k) PROVE Decided(k)
  <2>1. ASSUME NEW t \in Threads, LoadStep(t) PROVE Settled(k)'
    BY <1>1, <2>1, LoadLeavesSettled
  <2>2. ASSUME NEW r \in Requests, Proceed(r) \/ Arrive(r) PROVE Settled(k)'
    BY <1>1, <2>2, RequestLeavesSettled
  <2>3. ASSUME NEW t \in Admins, AdminStep(t) PROVE Decided(k)
    BY <1>1, <2>3, AdminLeavesSettled DEF AdminStep
  <2>4. CASE RefresherTick \/ \E t \in Probers : ProberTick(t)
    BY <1>1, <2>4, StaysSettled DEF RefresherTick, ProberTick, vars, schedVars, storeVars
  <2>5. CASE HealthChanges \/ Passes
    BY <1>1, <2>5, StaysSettled
    DEF HealthChanges, Passes, Tick, vars, schedVars, storeVars, threadVars
  <2>6. CASE UNCHANGED poolVars
    BY <1>1, <2>6, StaysSettled DEF poolVars, vars, schedVars, storeVars, threadVars
  <2> QED
    BY <1>1, <2>1, <2>2, <2>3, <2>4, <2>5, <2>6 DEF PoolNext
<1>2. PoolInv /\ [PoolNext]_poolVars =>
        [\A k \in Keys : Settled(k) =>
           \/ Settled(k)'
           \/ \E t \in Admins : DeleteAPIKey(t) \/ UpdateAPIKeyStatus(t) \/ ProbeAPIKey(t)]_poolVars
  BY <1>1
<1> QED
  BY <1>2, PoolInvariant, PTL DEF PoolSpec, PoolSafety, DisabledIsFinal
=============================================================================
