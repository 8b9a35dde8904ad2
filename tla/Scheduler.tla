----------------------------- MODULE Scheduler -----------------------------
(***************************************************************************)
(* The in-process scheduler of pkg/scheduler/redis.go (the branch taken    *)
(* when no Redis client is configured): smooth weighted round robin over   *)
(* the active API keys, skipping keys that are dead, cooling down or at    *)
(* their concurrency limit.  Every operation runs under Scheduler.mu, so   *)
(* each is one action.  The callers are requests: one that acquired a key  *)
(* releases it once, later, whatever happened to the scheduler meanwhile.  *)
(***************************************************************************)
EXTENDS Integers, Sequences, FiniteSets, FiniteSetsExt

CONSTANTS
    Keys,            \* API keys (plaintext)
    NoKey,           \* "no key": the empty string of AcquireKey
    Requests,        \* concurrent callers
    MaxWeight,       \* weights are 1..MaxWeight (the code's positive floats)
    WeightsOf,       \* the weights each key may be added with
    MaxConcurrency,  \* the maxConcurrency argument, as configured
    CoolDurations,   \* seconds a MarkCooling asks for; Retry-After may be negative
    MaxTime          \* bound on the clock

ASSUME SchedulerAssumption ==
    /\ IsFiniteSet(Keys) /\ IsFiniteSet(Requests)
    /\ NoKey \notin Keys
    /\ MaxWeight \in Nat \ {0}
    /\ WeightsOf \in [Keys -> SUBSET (1 .. MaxWeight)]
    /\ MaxConcurrency \in Nat \ {0}
    /\ CoolDurations \subseteq Int
    /\ MaxTime \in Nat \ {0}

VARIABLES
    active,       \* the keys of Scheduler.active, in insertion order
    weight,       \* localKey.weight, 0 for a key that is not active
    current,      \* localKey.currentWeight, 0 for a key that is not active
    cooling,      \* Scheduler.cooling: key -> until, 0 when there is no entry
    dead,         \* Scheduler.dead
    concurrency,  \* Scheduler.concurrency, 0 when there is no entry
    now,          \* time.Now().Unix()
    holds         \* the key each request acquired and has not released

schedVars == <<active, weight, current, cooling, dead, concurrency>>
vars == <<schedVars, now, holds>>

Weights == 1 .. MaxWeight
IsActive(k) == \E i \in 1 .. Len(active) : active[i] = k
Holders(k) == {r \in Requests : holds[r] = k}

\* The sum of the weights of the keys in S, counted as one unit per point of weight.
TotalWeight(S) ==
    Cardinality({share \in S \X Weights : share[2] <= weight[share[1]]})

TypeOK ==
    /\ active \in Seq(Keys)
    /\ weight \in [Keys -> Nat]
    /\ current \in [Keys -> Int]
    /\ cooling \in [Keys -> Int]
    /\ dead \subseteq Keys
    /\ concurrency \in [Keys -> Nat]
    /\ now \in 1 .. MaxTime
    /\ holds \in [Requests -> Keys \cup {NoKey}]

Init ==
    /\ active = << >>
    /\ weight = [k \in Keys |-> 0]
    /\ current = [k \in Keys |-> 0]
    /\ cooling = [k \in Keys |-> 0]
    /\ dead = {}
    /\ concurrency = [k \in Keys |-> 0]
    /\ now = 1
    /\ holds = [r \in Requests |-> NoKey]

-----------------------------------------------------------------------------
(* Configuration: AddKey and Reset, called by the key loader. *)

\* A key that is already active keeps its place and its current weight.
AddKey(k, w) ==
    /\ weight' = [weight EXCEPT ![k] = w]
    /\ active' = IF IsActive(k) THEN active ELSE Append(active, k)
    /\ UNCHANGED <<current, cooling, dead, concurrency, now, holds>>

\* Forgets everything, the concurrency of the requests in flight included.
Reset ==
    /\ active' = << >>
    /\ weight' = [k \in Keys |-> 0]
    /\ current' = [k \in Keys |-> 0]
    /\ cooling' = [k \in Keys |-> 0]
    /\ dead' = {}
    /\ concurrency' = [k \in Keys |-> 0]
    /\ UNCHANGED <<now, holds>>

-----------------------------------------------------------------------------
(* Acquiring and releasing. *)

\* The entries that survive the purge at the head of both acquire operations.
PurgedCooling == [k \in Keys |-> IF cooling[k] < now THEN 0 ELSE cooling[k]]

Available(k) ==
    /\ k \notin dead
    /\ PurgedCooling[k] < now
    /\ concurrency[k] < MaxConcurrency

Eligible == {i \in 1 .. Len(active) : Available(active[i])}
EligibleKeys == {active[i] : i \in Eligible}

\* A round credits every eligible key with its weight.
Credited(k) == current[k] + weight[k]

\* Mutant: the static weight decides instead of the accumulated credit.
HeaviestByWeight(i) == \A j \in Eligible : weight[active[j]] <= weight[active[i]]

\* The first of the eligible positions with the largest credit.
Heaviest(i) ==
    \A j \in Eligible :
        \/ Credited(active[j]) < Credited(active[i])
        \/ Credited(active[j]) = Credited(active[i]) /\ i <= j

\* Mutant: the chosen key pays for every active key, not for the eligible ones.
AcquireKeyPayingForAll(r) ==
    /\ holds[r] = NoKey
    /\ \E i \in Eligible :
        /\ Heaviest(i)
        /\ current' = [k \in Keys |->
                         (IF k \in EligibleKeys THEN Credited(k) ELSE current[k])
                         - (IF k = active[i] THEN TotalWeight(Keys) ELSE 0)]
        /\ concurrency' = [concurrency EXCEPT ![active[i]] = @ + 1]
        /\ holds' = [holds EXCEPT ![r] = active[i]]
    /\ cooling' = PurgedCooling
    /\ UNCHANGED <<active, weight, dead, now>>

AcquireKey(r) ==
    /\ holds[r] = NoKey
    /\ \E i \in Eligible :
        /\ Heaviest(i)
        /\ current' = [k \in Keys |->
                         (IF k \in EligibleKeys THEN Credited(k) ELSE current[k])
                         - (IF k = active[i] THEN TotalWeight(EligibleKeys) ELSE 0)]
        /\ concurrency' = [concurrency EXCEPT ![active[i]] = @ + 1]
        /\ holds' = [holds EXCEPT ![r] = active[i]]
    /\ cooling' = PurgedCooling
    /\ UNCHANGED <<active, weight, dead, now>>

\* AcquireKey returns the empty string: only the purge happened.
AcquireNothing(r) ==
    /\ holds[r] = NoKey
    /\ Eligible = {}
    /\ cooling' = PurgedCooling
    /\ UNCHANGED <<active, weight, current, dead, concurrency, now, holds>>

\* A conversation asks for the key it used before; the rotation is left alone.
TryAcquireSpecificKey(r, k) ==
    /\ holds[r] = NoKey
    /\ cooling' = PurgedCooling
    /\ IF IsActive(k) /\ Available(k)
         THEN /\ concurrency' = [concurrency EXCEPT ![k] = @ + 1]
              /\ holds' = [holds EXCEPT ![r] = k]
         ELSE UNCHANGED <<concurrency, holds>>
    /\ UNCHANGED <<active, weight, current, dead, now>>

\* Mutant: the slot is only given back while the key is still schedulable.
ReleaseKeyOfLiveKeysOnly(r) ==
    LET k == holds[r] IN
    /\ k # NoKey
    /\ concurrency' = [concurrency EXCEPT ![k] = IF @ > 0 /\ cooling[k] < now THEN @ - 1 ELSE @]
    /\ holds' = [holds EXCEPT ![r] = NoKey]
    /\ UNCHANGED <<active, weight, current, cooling, dead, now>>

\* Mutant: the count is lowered without looking at it.
ReleaseKeyUnguarded(r) ==
    LET k == holds[r] IN
    /\ k # NoKey
    /\ concurrency' = [concurrency EXCEPT ![k] = @ - 1]
    /\ holds' = [holds EXCEPT ![r] = NoKey]
    /\ UNCHANGED <<active, weight, current, cooling, dead, now>>

\* The count stays at zero when a Reset or a MarkDead cleared it in between.
ReleaseKey(r) ==
    LET k == holds[r] IN
    /\ k # NoKey
    /\ concurrency' = [concurrency EXCEPT ![k] = IF @ > 0 THEN @ - 1 ELSE @]
    /\ holds' = [holds EXCEPT ![r] = NoKey]
    /\ UNCHANGED <<active, weight, current, cooling, dead, now>>

-----------------------------------------------------------------------------
(* Marking keys, by the requests that saw the upstream refuse them. *)

MarkCooling(k, d) ==
    /\ cooling' = [cooling EXCEPT ![k] = now + d]
    /\ UNCHANGED <<active, weight, current, dead, concurrency, now, holds>>

MarkDead(k) ==
    /\ dead' = dead \cup {k}
    /\ current' = [current EXCEPT ![k] = 0]
    /\ concurrency' = [concurrency EXCEPT ![k] = 0]
    /\ UNCHANGED <<active, weight, cooling, now, holds>>

CleanupExpired ==
    /\ cooling' = PurgedCooling
    /\ UNCHANGED <<active, weight, current, dead, concurrency, now, holds>>

Tick ==
    /\ now < MaxTime
    /\ now' = now + 1
    /\ UNCHANGED <<schedVars, holds>>

-----------------------------------------------------------------------------
RequestStep(r) ==
    \/ AcquireKey(r)
    \/ AcquireNothing(r)
    \/ \E k \in Keys : TryAcquireSpecificKey(r, k)
    \/ ReleaseKey(r)

KeyStep(k) ==
    \/ \E w \in WeightsOf[k] : AddKey(k, w)
    \/ \E d \in CoolDurations : MarkCooling(k, d)
    \/ MarkDead(k)

Next ==
    \/ \E r \in Requests : RequestStep(r)
    \/ \E k \in Keys : KeyStep(k)
    \/ Reset
    \/ CleanupExpired
    \/ Tick

Spec == Init /\ [][Next]_vars

-----------------------------------------------------------------------------
(* Properties. *)

\* A counted slot always belongs to a request that still holds the key and will
\* release it: no interleaving of releases with Reset and MarkDead, which clear
\* the counts under the requests in flight, leaves a slot occupied forever.
NoSlotLeaked == \A k \in Keys : concurrency[k] <= Cardinality(Holders(k))

\* However keys drop out of the rotation (full, cooling, dead) and come back, no key is
\* ever owed, or owes, more than the largest weight for every other active key: nobody is
\* starved, or served in a burst, on return.  (The sum of the weights of the active
\* keys would not do: of keys with weights 8, 1, 1 and 1, one can be owed 12.)
DebtBounded ==
    LET others == Cardinality({k \in Keys : IsActive(k)}) - 1
        debt == MaxWeight * others
    IN  \A k \in Keys : IsActive(k) => current[k] \in -debt .. debt

TotalCredit(c) == MapThenSumSet(LAMBDA k : c[k], Keys)

\* A round of the weighted round robin, over whatever keys are eligible in it,
\* takes from the chosen key exactly what it credited to all of them.
CreditConserved ==
    [][\A r \in Requests : AcquireKey(r) => TotalCredit(current') = TotalCredit(current)]_vars
=============================================================================
