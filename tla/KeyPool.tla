------------------------------ MODULE KeyPool ------------------------------
(***************************************************************************)
(* The pool of upstream keys: the rows of the store, the scheduler that    *)
(* serves them, and everyone who moves keys between the two.  A request    *)
(* that is refused by the upstream marks the key in the scheduler and then *)
(* in the store; a request that finds no key restores the rows and reloads *)
(* the scheduler; the refresher reloads every five minutes, the prober     *)
(* restores every five minutes, an admin handler mutates a row and         *)
(* reloads.  A reload reads the rows once and then resets and refills the  *)
(* scheduler call by call, so all of these interleave.                     *)
(***************************************************************************)
EXTENDS Scheduler

CONSTANTS
    Admins,      \* admin handlers that may run concurrently
    Probers,     \* the prober goroutine, or none
    Refresher,   \* the main goroutine: boots, then becomes the refresher
    Broken,      \* rows that ENCRYPTION_KEY does not decrypt
    Healths      \* what the upstream may say of a key

Threads == Requests \cup Admins \cup Probers \cup {Refresher}

ASSUME KeyPoolAssumption ==
    /\ Keys \subseteq Nat               \* row IDs; IDs grow and are never reused
    /\ Broken \subseteq Keys
    /\ Healths \subseteq {"ok", "limited", "refused", "down"}
    /\ Requests \cap (Admins \cup Probers \cup {Refresher}) = {}
    /\ Refresher \notin Admins \cup Probers
    /\ Admins \cap Probers = {}

VARIABLES
    status,      \* APIKey.Status of each row, "New" before and "Deleted" after it exists
    probeOnly,   \* the rows with APIKey.ProbeOnly
    health,      \* what the upstream answers for each key
    booted,      \* serveBackend got past its initial restore
    pc,          \* where each thread is
    todo,        \* the rows a thread still has to probe or to add, from its snapshot
    verdict      \* the status a thread is about to write to the store

storeVars == <<status, probeOnly>>
threadVars == <<booted, pc, todo, verdict>>
poolVars == <<vars, storeVars, health, threadVars>>

RowStatuses == {"Active", "Cooling", "Dead", "Disabled"}
NoVerdict == "none"
Exists(k) == status[k] \in RowStatuses
Loadable(k) == status[k] = "Active" /\ k \notin probeOnly

\* The status a probe or a call gives to a key, by what the upstream answered.
StatusFor(answer) ==
    [ok |-> "Active", limited |-> "Cooling", refused |-> "Dead", down |-> NoVerdict][answer]

Places == {"idle", "acquire", "queued", "calling", "persist", "release",
           "restore", "probe", "record", "read", "reset", "add"}

ThreadTypeOK ==
    /\ status \in [Keys -> RowStatuses \cup {"New", "Deleted"}]
    /\ probeOnly \subseteq Keys
    /\ health \in [Keys -> Healths]
    /\ booted \in BOOLEAN
    /\ pc \in [Threads -> Places]
    /\ todo \in [Threads -> SUBSET Keys]
    /\ verdict \in [Threads -> RowStatuses \cup {NoVerdict}]

PoolTypeOK == TypeOK /\ ThreadTypeOK

\* The process starts over whatever an earlier one left in the store.
PoolInit ==
    /\ Init
    /\ status \in [Keys -> RowStatuses \cup {"New"}]
    /\ \A k \in Keys : status[k] = "New" => \A j \in Keys : j > k => status[j] = "New"
    /\ probeOnly = {}
    /\ health \in [Keys -> Healths]
    /\ booted = FALSE
    /\ pc = [t \in Threads |-> IF t = Refresher THEN "restore" ELSE "idle"]
    /\ todo = [t \in Threads |-> {}]
    /\ verdict = [t \in Threads |-> NoVerdict]

Goto(t, where) == pc' = [pc EXCEPT ![t] = where]
First(k, S) == k \in S /\ \A j \in S : k <= j

-----------------------------------------------------------------------------
(* LoadActiveKeys, run by any thread. *)

\* Where a thread goes on after its reload: a request polls the scheduler again.
AfterLoad(t) == IF t \in Requests THEN "queued" ELSE "idle"
EndLoad(t) == Goto(t, AfterLoad(t)) /\ booted' = (booted \/ t = Refresher)

\* Mutant: rows that are only to be probed are loaded too.
LoadReadProbeOnly(t) ==
    /\ pc[t] = "read"
    /\ todo' = [todo EXCEPT ![t] = {k \in Keys : status[k] = "Active"}]
    /\ Goto(t, "reset")
    /\ UNCHANGED <<vars, storeVars, health, booted, verdict>>

\* The rows are read once.
LoadRead(t) ==
    /\ pc[t] = "read"
    /\ todo' = [todo EXCEPT ![t] = {k \in Keys : Loadable(k)}]
    /\ Goto(t, "reset")
    /\ UNCHANGED <<vars, storeVars, health, booted, verdict>>

LoadReset(t) ==
    /\ pc[t] = "reset"
    /\ Reset
    /\ Goto(t, "add")
    /\ UNCHANGED <<storeVars, health, booted, todo, verdict>>

\* Mutant: the key is appended to the rotation whether it is there or not.
LoadAddAppending(t) ==
    /\ pc[t] = "add"
    /\ \E k \in todo[t] \ Broken :
        /\ First(k, todo[t])
        /\ active' = Append(active, k)
        /\ \E w \in WeightsOf[k] : weight' = [weight EXCEPT ![k] = w]
        /\ todo' = [todo EXCEPT ![t] = @ \ {k}]
    /\ UNCHANGED <<current, cooling, dead, concurrency, now, holds>>
    /\ UNCHANGED <<storeVars, health, booted, pc, verdict>>

\* One AddKey per row of the snapshot, in store order.
LoadAdd(t) ==
    /\ pc[t] = "add"
    /\ \E k \in todo[t] \ Broken :
        /\ First(k, todo[t])
        /\ \E w \in WeightsOf[k] : AddKey(k, w)
        /\ todo' = [todo EXCEPT ![t] = @ \ {k}]
    /\ UNCHANGED <<storeVars, health, booted, pc, verdict>>

\* The rows are used up, or one does not decrypt and the rest is left out.
LoadEnd(t) ==
    /\ pc[t] = "add"
    /\ \A k \in todo[t] : First(k, todo[t]) => k \in Broken
    /\ todo' = [todo EXCEPT ![t] = {}]
    /\ EndLoad(t)
    /\ UNCHANGED <<vars, storeVars, health, verdict>>

-----------------------------------------------------------------------------
(* RestoreRecoverableStatuses, run by requests, the prober and at boot, and *)
(* the probe of a single row by an admin.                                   *)

\* Mutant: every row that is not in use is probed.
RestoreReadUnfiltered(t) ==
    /\ pc[t] = "restore"
    /\ todo' = [todo EXCEPT ![t] = {k \in Keys \ Broken : Exists(k) /\ status[k] # "Active"}]
    /\ Goto(t, "probe")
    /\ UNCHANGED <<vars, storeVars, health, booted, verdict>>

\* Mutant: only keys that were rate limited are probed.
RestoreReadCooling(t) ==
    /\ pc[t] = "restore"
    /\ todo' = [todo EXCEPT ![t] = {k \in Keys \ Broken : status[k] = "Cooling"}]
    /\ Goto(t, "probe")
    /\ UNCHANGED <<vars, storeVars, health, booted, verdict>>

RestoreRead(t) ==
    /\ pc[t] = "restore"
    /\ todo' = [todo EXCEPT ![t] = {k \in Keys \ Broken : status[k] \in {"Cooling", "Dead"}}]
    /\ Goto(t, "probe")
    /\ UNCHANGED <<vars, storeVars, health, booted, verdict>>

\* Mutant: the outcome of a probe that failed is recorded as well.
ProbeRecordingFailures(t) ==
    /\ pc[t] = "probe"
    /\ \E k \in todo[t] :
        /\ First(k, todo[t])
        /\ \/ verdict' = [verdict EXCEPT ![t] = StatusFor(health[k])]
           \/ t \in Requests /\ UNCHANGED verdict
        /\ Goto(t, "record")
    /\ UNCHANGED <<vars, storeVars, health, booted, todo>>

\* The call to the upstream's /models with the next key of the snapshot; the probe of a
\* request fails with its context.
Probe(t) ==
    /\ pc[t] = "probe"
    /\ \E k \in todo[t] :
        /\ First(k, todo[t])
        /\ \/ verdict' = [verdict EXCEPT ![t] = StatusFor(health[k])]
           \/ t \in Requests /\ UNCHANGED verdict
        /\ IF verdict'[t] # NoVerdict
             THEN Goto(t, "record") /\ UNCHANGED todo
             ELSE /\ todo' = [todo EXCEPT ![t] = @ \ {k}]
                  /\ IF t \in Admins THEN Goto(t, "idle") ELSE UNCHANGED pc
    /\ UNCHANGED <<vars, storeVars, health, booted>>

\* The verdict is written whatever happened to the row since it was read.
Record(t) ==
    /\ pc[t] = "record"
    /\ \E k \in todo[t] :
        /\ First(k, todo[t])
        /\ status' = [status EXCEPT ![k] = IF Exists(k) THEN verdict[t] ELSE @]
        /\ todo' = [todo EXCEPT ![t] = @ \ {k}]
        /\ Goto(t, IF t \notin Admins THEN "probe" ELSE IF Exists(k) THEN "read" ELSE "idle")
    /\ verdict' = [verdict EXCEPT ![t] = NoVerdict]
    /\ UNCHANGED <<vars, probeOnly, health, booted>>

RestoreEnd(t) ==
    /\ pc[t] = "probe" /\ todo[t] = {}
    /\ Goto(t, "read")
    /\ UNCHANGED <<vars, storeVars, health, booted, todo, verdict>>

RefresherTick ==
    /\ booted /\ pc[Refresher] = "idle"
    /\ Goto(Refresher, "read")
    /\ UNCHANGED <<vars, storeVars, health, booted, todo, verdict>>

ProberTick(t) ==
    /\ booted /\ pc[t] = "idle"
    /\ Goto(t, "restore")
    /\ UNCHANGED <<vars, storeVars, health, booted, todo, verdict>>

-----------------------------------------------------------------------------
(* Requests. *)

\* The request has a key when it holds one, and nothing to do otherwise.
Begin(r) ==
    /\ booted /\ pc[r] = "idle"
    /\ Goto(r, "acquire")
    /\ UNCHANGED <<vars, storeVars, health, booted, todo, verdict>>

\* The conversation's preferred key is asked for first; refused, the queue is entered.
TryPreferred(r, k) ==
    /\ booted /\ pc[r] = "idle"
    /\ TryAcquireSpecificKey(r, k)
    /\ Goto(r, IF holds'[r] = NoKey THEN "acquire" ELSE "calling")
    /\ UNCHANGED <<storeVars, health, booted, todo, verdict>>

Acquire(r) ==
    /\ pc[r] \in {"acquire", "queued"}
    /\ AcquireKey(r)
    /\ Goto(r, "calling")
    /\ UNCHANGED <<storeVars, health, booted, todo, verdict>>

\* The first time nothing is available the request itself runs a restore.
FindNothing(r) ==
    /\ pc[r] \in {"acquire", "queued"}
    /\ AcquireNothing(r)
    /\ Goto(r, IF pc[r] = "acquire" THEN "restore" ELSE "queued")
    /\ UNCHANGED <<storeVars, health, booted, todo, verdict>>

\* The client is gone, or 45 seconds have passed.
GiveUp(r) ==
    /\ pc[r] = "queued"
    /\ Goto(r, "idle")
    /\ UNCHANGED <<vars, storeVars, health, booted, todo, verdict>>

\* The upstream answers: a refusal marks the key in the scheduler first.
Answered(r) ==
    LET k == holds[r] IN
    /\ pc[r] = "calling"
    /\ \/ health[k] \in {"ok", "down"} /\ Goto(r, "release") /\ UNCHANGED <<vars, verdict>>
       \/ /\ health[k] = "limited"
          /\ \E d \in CoolDurations : MarkCooling(k, d)
          /\ Goto(r, "persist") /\ verdict' = [verdict EXCEPT ![r] = "Cooling"]
       \/ /\ health[k] = "refused"
          /\ MarkDead(k)
          /\ Goto(r, "persist") /\ verdict' = [verdict EXCEPT ![r] = "Dead"]
    /\ UNCHANGED <<storeVars, health, booted, todo>>

\* Mutant: the path that retries with another key forgets to release this one.
PersistWithoutRelease(r) ==
    /\ pc[r] = "persist"
    /\ status' = [status EXCEPT ![holds[r]] = IF Exists(holds[r]) THEN verdict[r] ELSE @]
    /\ verdict' = [verdict EXCEPT ![r] = NoVerdict]
    /\ Goto(r, "idle")
    /\ UNCHANGED <<vars, probeOnly, health, booted, todo>>

\* Then, in a second step, in the store (a row deleted meanwhile is not found).
Persist(r) ==
    /\ pc[r] = "persist"
    /\ status' = [status EXCEPT ![holds[r]] = IF Exists(holds[r]) THEN verdict[r] ELSE @]
    /\ verdict' = [verdict EXCEPT ![r] = NoVerdict]
    /\ Goto(r, "release")
    /\ UNCHANGED <<vars, probeOnly, health, booted, todo>>

Release(r) ==
    /\ pc[r] = "release"
    /\ ReleaseKey(r)
    /\ Goto(r, "idle")
    /\ UNCHANGED <<storeVars, health, booted, todo, verdict>>

-----------------------------------------------------------------------------
(* Admin handlers: one store update each, then a reload. *)

AdminIdle(t) == booted /\ pc[t] = "idle"

AddAPIKey(t) ==
    /\ AdminIdle(t)
    /\ \E k \in Keys :
        /\ First(k, {j \in Keys : status[j] = "New"})
        /\ status' = [status EXCEPT ![k] = "Active"]
        /\ probeOnly' \in {probeOnly, probeOnly \cup {k}}
    /\ Goto(t, "read")
    /\ UNCHANGED <<vars, health, booted, todo, verdict>>

\* UpdateAPIKey with a probeOnly field (its other fields do not concern the pool).
UpdateAPIKey(t) ==
    /\ AdminIdle(t)
    /\ \E k \in {j \in Keys : Exists(j)} : probeOnly' \in {probeOnly \cup {k}, probeOnly \ {k}}
    /\ Goto(t, "read")
    /\ UNCHANGED <<vars, status, health, booted, todo, verdict>>

DeleteAPIKey(t) ==
    /\ AdminIdle(t)
    /\ \E k \in {j \in Keys : Exists(j)} :
        /\ status' = [status EXCEPT ![k] = "Deleted"]
        /\ probeOnly' = probeOnly \ {k}
    /\ Goto(t, "read")
    /\ UNCHANGED <<vars, health, booted, todo, verdict>>

UpdateAPIKeyStatus(t) ==
    /\ AdminIdle(t)
    /\ \E k \in {j \in Keys : Exists(j)}, s \in {"Active", "Disabled"} :
        status' = [status EXCEPT ![k] = s]
    /\ Goto(t, "read")
    /\ UNCHANGED <<vars, probeOnly, health, booted, todo, verdict>>

\* Reads one row; Probe, Record and a reload follow.
ProbeAPIKey(t) ==
    /\ AdminIdle(t)
    /\ \E k \in {j \in Keys \ Broken : Exists(j)} : todo' = [todo EXCEPT ![t] = {k}]
    /\ Goto(t, "probe")
    /\ UNCHANGED <<vars, storeVars, health, booted, verdict>>

\* Also what every handler does that changes proxies or the configuration.
ReloadSystem(t) ==
    /\ AdminIdle(t)
    /\ Goto(t, "read")
    /\ UNCHANGED <<vars, storeVars, health, booted, todo, verdict>>

-----------------------------------------------------------------------------
HealthChanges ==
    /\ \E k \in Keys, h \in Healths : health' = [health EXCEPT ![k] = h]
    /\ UNCHANGED <<vars, storeVars, threadVars>>

Passes == Tick /\ UNCHANGED <<storeVars, health, threadVars>>

LoadStep(t) ==
    \/ LoadRead(t) \/ LoadReset(t) \/ LoadAdd(t) \/ LoadEnd(t)
    \/ RestoreRead(t) \/ Probe(t) \/ Record(t) \/ RestoreEnd(t)

\* A request that holds a key, or waits for one, goes on; when it starts is up to clients.
Proceed(r) == Acquire(r) \/ FindNothing(r) \/ Answered(r) \/ Persist(r) \/ Release(r)
Arrive(r) == Begin(r) \/ GiveUp(r) \/ \E k \in Keys : TryPreferred(r, k)

AdminStep(t) ==
    \/ AddAPIKey(t) \/ UpdateAPIKey(t) \/ DeleteAPIKey(t) \/ UpdateAPIKeyStatus(t)
    \/ ProbeAPIKey(t) \/ ReloadSystem(t)

PoolNext ==
    \/ \E t \in Threads : LoadStep(t)
    \/ RefresherTick
    \/ \E t \in Probers : ProberTick(t)
    \/ \E r \in Requests : Proceed(r) \/ Arrive(r)
    \/ \E t \in Admins : AdminStep(t)
    \/ HealthChanges
    \/ Passes

PoolSafety == PoolInit /\ [][PoolNext]_poolVars

\* A runnable goroutine runs, the tickers fire, upstream calls are bounded by timeouts.
PoolFairness ==
    /\ \A t \in Threads : WF_poolVars(LoadStep(t))
    /\ WF_poolVars(RefresherTick)
    /\ \A t \in Probers : WF_poolVars(ProberTick(t))
    /\ \A r \in Requests : WF_poolVars(Proceed(r))

PoolSpec == PoolSafety /\ PoolFairness

-----------------------------------------------------------------------------
(* Properties. *)

\* A request that is calling, or has called, holds a key, and any other holds none; a
\* thread that is about to write the store has a status to write.  (So every verdict is
\* about a leased key, every release is of a lease, and no probe that failed is recorded.)
Holding == {"calling", "persist", "release"}
HoldsWhatItUses == \A r \in Requests : pc[r] \in Holding <=> holds[r] # NoKey
WritesVerdicts == \A t \in Threads : pc[t] \in {"record", "persist"} => verdict[t] \in RowStatuses
PoolInv == PoolTypeOK /\ HoldsWhatItUses /\ WritesVerdicts

\* Requests, reloads and restores change the scheduler through its operations only,
\* and return each key they acquired exactly once: the pool implements Scheduler.
ImplementsScheduler == Spec

\* A key an admin disabled stays disabled once the work under way with it is over (a
\* reload or probe of a snapshot that held it, its place in the rotation, a call with
\* it): nothing but an admin handler can bring it back, or even make it be used.
Settled(k) ==
    /\ status[k] = "Disabled"
    /\ ~IsActive(k) /\ Holders(k) = {}
    /\ \A t \in Threads : k \notin todo[t]
DisabledIsFinal ==
    [][\A k \in Keys : Settled(k) =>
         \/ Settled(k)'
         \/ \E t \in Admins : DeleteAPIKey(t) \/ UpdateAPIKeyStatus(t) \/ ProbeAPIKey(t)]_poolVars

\* A key the upstream accepts from some point on, and that the admin left in use,
\* comes back into the rotation however its refusals, restores and reloads raced.
Usable(k) ==
    /\ status[k] \in {"Active", "Cooling", "Dead"} /\ k \notin probeOnly
    /\ health[k] = "ok" /\ k \notin Broken
    /\ \A j \in Broken : j < k => ~Loadable(j)
HealthyKeyReturns ==
    \A k \in Keys : <>[]Usable(k) => []<>(IsActive(k) /\ k \notin dead /\ cooling[k] = 0)

\* A key that stays withdrawn (disabled, deleted, probe-only) leaves the rotation for
\* good: no reload that started from an older snapshot keeps it there.
WithdrawnKeyLeaves ==
    \A k \in Keys :
        <>[](status[k] \in {"Disabled", "Deleted"} \/ k \in probeOnly) => <>[]~IsActive(k)

\* Every request gives its key back, whatever happened to the key meanwhile: no request
\* holds a key from some point on.
LeaseReturned == \A r \in Requests : []<>(holds[r] = NoKey)
=============================================================================
