---------------------------- MODULE HealthReport ----------------------------
(***************************************************************************)
(* The health page (health.go): requests that run a check of the upstream, *)
(* list its models or read the last report, over the reports kept in       *)
(* memory (systemHealthStore) and the copy of them in the store.  A check  *)
(* of all models, or of one, hands the models to a few workers under an    *)
(* overall deadline.  A report and a model run are the number of the check *)
(* that made them, 0 for none.                                             *)
(***************************************************************************)
EXTENDS Integers, FiniteSets, Sequences

CONSTANTS Handlers, Models,
          Listings,         \* the lists of models the upstream may answer with
          Workers,          \* the concurrency of runModelRunTasks
          HistoryLimit,
          MaxReports, MaxLists, MaxFaults    \* bounds: checks, lists of models, faults

ASSUME HealthAssumption ==
    /\ Models \subseteq Nat /\ IsFiniteSet(Models) /\ Listings \subseteq SUBSET Models
    /\ Workers \in Nat \ {0} /\ HistoryLimit \in Nat \ {0}
    /\ {MaxReports, MaxLists, MaxFaults} \subseteq Nat

VARIABLES mem,       \* systemHealthStore
          disk,      \* HealthState of the store
          at,        \* where each request is
          req,       \* its variables
          pool,      \* of a request that checks models: its dispatcher and its workers
          checks, lists, faults,
          hydrated, calm       \* history: since the start, memory was filled; since ever,
                               \* no save failed, was overtaken or overlapped a load

vars == <<mem, disk, at, req, pool, checks, lists, faults, hydrated, calm>>

Empty == [latest |-> 0, history |-> <<>>, active |-> 0, sweep |-> 0, catalog |-> {}]
Reports == 0 .. MaxReports
NoRequest == [kind |-> "none", id |-> 0, state |-> Empty]
NoPool == [todo |-> {}, busy |-> {}, done |-> {}, skipped |-> {}, open |-> FALSE, late |-> FALSE,
           ran |-> FALSE]

MemOK(m) ==
    /\ {m.latest, m.active, m.sweep} \subseteq Reports /\ m.catalog \subseteq Models
    /\ Len(m.history) <= HistoryLimit
    /\ \A i, j \in 1 .. Len(m.history) : i < j => m.history[i] # m.history[j]

TypeOK ==
    /\ MemOK(mem) /\ MemOK(disk)
    /\ at \in [Handlers -> {"idle", "load", "fill", "work", "probe", "check", "save"}]
    /\ \A h \in Handlers :
         /\ req[h].kind \in {"none", "all", "single", "models", "get"} /\ req[h].id \in Reports
         /\ Cardinality(pool[h].busy) <= Workers

Init ==
    /\ mem = Empty /\ disk = Empty
    /\ at = [h \in Handlers |-> "idle"] /\ req = [h \in Handlers |-> NoRequest]
    /\ pool = [h \in Handlers |-> NoPool]
    /\ checks = 0 /\ lists = 0 /\ faults = 0
    /\ hydrated = FALSE /\ calm = TRUE

Fault == faults < MaxFaults /\ faults' = faults + 1
Others(h, places) == \E g \in Handlers \ {h} : at[g] \in places
Goes(h, from, to) == at[h] = from /\ at' = [at EXCEPT ![h] = to]
Ends(h, from) == Goes(h, from, "idle") /\ req' = [req EXCEPT ![h] = NoRequest]

---------------------------------------------------------------------------
(* A request begins with ensureHydrated *)

Begin(h) ==
    /\ Goes(h, "idle", "load")
    /\ \E kind \in {"all", "single", "models", "get"} :
         req' = [req EXCEPT ![h] = [NoRequest EXCEPT !.kind = kind]]
    /\ UNCHANGED <<mem, disk, pool, checks, lists, faults, hydrated, calm>>

(* Every request reads the store; one that cannot goes on without.         *)
Load(h) ==
    /\ \/ /\ Goes(h, "load", "fill")
          /\ req' = [req EXCEPT ![h].state = disk]
          /\ calm' = (calm /\ ~Others(h, {"save"})) /\ UNCHANGED faults
       \/ Goes(h, "load", "work") /\ Fault /\ calm' = FALSE /\ UNCHANGED req
    /\ UNCHANGED <<mem, disk, pool, checks, lists, hydrated>>

(* Field by field: what memory has stays.                                  *)
Filled(m, s) ==
    [latest |-> IF m.latest = 0 THEN s.latest ELSE m.latest,
     history |-> IF m.history = <<>> THEN s.history ELSE m.history,
     active |-> IF m.active = 0 THEN s.active ELSE m.active,
     sweep |-> IF m.sweep = 0 THEN s.sweep ELSE m.sweep,
     catalog |-> IF m.catalog = {} THEN s.catalog ELSE m.catalog]

Fill(h) ==
    /\ Goes(h, "fill", "work")
    /\ mem' = Filled(mem, req[h].state) /\ hydrated' = TRUE
    /\ req' = [req EXCEPT ![h].state = Empty]
    /\ UNCHANGED <<disk, pool, checks, lists, faults, calm>>

(* GetHealthReport, and requests that are refused.                         *)
Answer(h) ==
    /\ req[h].kind = "get" \/ at[h] = "probe"
    /\ at[h] \in {"work", "probe"} /\ Ends(h, at[h])
    /\ UNCHANGED <<mem, disk, pool, checks, lists, faults, hydrated, calm>>

---------------------------------------------------------------------------
(* The check, and the list of models *)

Work(h) ==
    /\ req[h].kind # "get"
    /\ Goes(h, "work", "probe")
    /\ req' = [req EXCEPT ![h].state.catalog = mem.catalog]
    /\ UNCHANGED <<mem, disk, pool, checks, lists, faults, hydrated, calm>>

(* An answer of the upstream lists its models; a body that cannot be parsed *)
(* lists none, and the check counts as passed.                             *)
Catalog(h, found) == IF found = {} THEN req[h].state.catalog ELSE found

(* buildSystemHealthReport up to the model run: without a key to probe     *)
(* with, without the upstream (found = {} and ~ok), or with its models.    *)
Probe(h) ==
    /\ req[h].kind \in {"all", "single"} /\ checks < MaxReports /\ checks' = checks + 1
    /\ \E ok \in BOOLEAN, found \in Listings \cup {{}} :
         LET catalog == Catalog(h, found) IN
         \E asked \in IF req[h].kind = "all" THEN {catalog} ELSE {catalog \cap {x} : x \in Models} :
           /\ ok \/ found = {}
           /\ Goes(h, "probe", "check")
           /\ pool' = [pool EXCEPT ![h] = IF ok /\ catalog # {}
                         THEN [NoPool EXCEPT !.todo = asked, !.open = TRUE, !.ran = TRUE] ELSE @]
           /\ req' = [req EXCEPT ![h].id = checks + 1,
                        ![h].state = [Empty EXCEPT !.latest = checks + 1, !.catalog = catalog,
                                      !.active = mem.active, !.sweep = mem.sweep]]
    /\ UNCHANGED <<mem, disk, lists, faults, hydrated, calm>>

(* GetUpstreamModels, when the upstream has answered: what it lists is the *)
(* catalog, even when it lists nothing.                                    *)
SetModelCatalog(h) ==
    /\ req[h].kind = "models" /\ lists < MaxLists /\ lists' = lists + 1
    /\ Goes(h, "probe", "save")
    /\ \E found \in Listings \cup {{}} :
         /\ mem' = [mem EXCEPT !.catalog = found]
         /\ req' = [req EXCEPT ![h].state = [mem EXCEPT !.catalog = found]]
    /\ calm' = (calm /\ ~Others(h, {"save", "fill"}))
    /\ UNCHANGED <<disk, pool, checks, faults, hydrated>>

---------------------------------------------------------------------------
(* runModelRunTasks *)

InPool(h) ==
    /\ at[h] = "check"
    /\ UNCHANGED <<mem, disk, at, req, checks, lists, faults, hydrated, calm>>
Next1(S) == CHOOSE m \in S : \A n \in S : m <= n

Deadline(h) ==
    /\ InPool(h) /\ ~pool[h].late
    /\ pool' = [pool EXCEPT ![h].late = TRUE]

(* The channel is unbuffered: a model is handed to a worker that waits.    *)
Dispatch(h) ==
    /\ InPool(h) /\ pool[h].open /\ pool[h].todo # {} /\ Cardinality(pool[h].busy) < Workers
    /\ LET m == Next1(pool[h].todo) IN
       pool' = [pool EXCEPT ![h].todo = @ \ {m}, ![h].busy = @ \cup {m}]

\* Mutant: at the deadline the first model that was not dispatched is left out.
CloseOffByOne(h) ==
    /\ InPool(h) /\ pool[h].open
    /\ pool[h].todo = {} \/ pool[h].late
    /\ pool' = [pool EXCEPT ![h].open = FALSE, ![h].todo = {},
                            ![h].skipped = IF pool[h].todo = {} THEN {}
                                           ELSE pool[h].todo \ {Next1(pool[h].todo)}]

(* The dispatcher ends after the last model, or when it notices the        *)
(* deadline; what was not dispatched will be reported as skipped.          *)
Close(h) ==
    /\ InPool(h) /\ pool[h].open
    /\ pool[h].todo = {} \/ pool[h].late
    /\ pool' = [pool EXCEPT ![h].open = FALSE, ![h].todo = {}, ![h].skipped = pool[h].todo]

\* Mutant: a worker that the deadline cancels leaves without wg.Done.
CheckedInTime(h, m) ==
    /\ InPool(h) /\ m \in pool[h].busy /\ ~pool[h].late
    /\ pool' = [pool EXCEPT ![h].busy = @ \ {m}, ![h].done = @ \cup {m}]

(* A worker's check ends, at the latest when its own timeout or the        *)
(* deadline cancels it.                                                    *)
Checked(h, m) ==
    /\ InPool(h) /\ m \in pool[h].busy
    /\ pool' = [pool EXCEPT ![h].busy = @ \ {m}, ![h].done = @ \cup {m}]

---------------------------------------------------------------------------
(* The report is kept *)

Newest(h, n) == SubSeq(h, IF Len(h) > n THEN Len(h) - n + 1 ELSE 1, Len(h))

(* After wg.Wait the report gets the run; a field it lacks stays as it is. *)
Put(h) ==
    /\ ~pool[h].open /\ pool[h].busy = {}
    /\ Goes(h, "check", "save")
    /\ pool' = [pool EXCEPT ![h] = NoPool]
    /\ LET r == req[h].state
           ran(kinds, other) == IF pool[h].ran /\ req[h].kind \in kinds THEN req[h].id ELSE other
           kept(new, old, none) == IF new # none THEN new ELSE old
           m == [latest |-> r.latest,
                 history |-> Newest(Append(mem.history, r.latest), HistoryLimit),
                 active |-> kept(ran({"all", "single"}, r.active), mem.active, 0),
                 sweep |-> kept(ran({"all"}, r.sweep), mem.sweep, 0),
                 catalog |-> kept(r.catalog, mem.catalog, {})]
       IN  mem' = m /\ req' = [req EXCEPT ![h].state = m]
    /\ calm' = (calm /\ ~Others(h, {"save", "fill"}))
    /\ UNCHANGED <<disk, checks, lists, faults, hydrated>>

\* Mutant: only reports are written, not a catalog.
SaveReport(h) ==
    /\ Ends(h, "save")
    /\ disk' = IF req[h].kind = "models" THEN disk ELSE req[h].state
    /\ UNCHANGED <<mem, pool, checks, lists, faults, hydrated, calm>>

(* persistHealthState, outside the lock, with the copy made under it.      *)
Save(h) ==
    /\ Ends(h, "save")
    /\ \/ disk' = req[h].state /\ UNCHANGED <<faults, calm>>
       \/ Fault /\ calm' = FALSE /\ UNCHANGED disk
    /\ UNCHANGED <<mem, pool, checks, lists, hydrated>>

Crash ==
    /\ Fault
    /\ mem' = Empty /\ hydrated' = FALSE
    /\ at' = [h \in Handlers |-> "idle"] /\ req' = [h \in Handlers |-> NoRequest]
    /\ pool' = [h \in Handlers |-> NoPool]
    /\ UNCHANGED <<disk, checks, lists, calm>>

---------------------------------------------------------------------------
Pool(h) == Dispatch(h) \/ Close(h) \/ (\E m \in Models : Checked(h, m))
Handle(h) ==
    \/ Load(h) \/ Fill(h) \/ Answer(h) \/ Work(h) \/ Probe(h) \/ SetModelCatalog(h)
    \/ Put(h) \/ Save(h)

Next == Crash \/ \E h \in Handlers : Begin(h) \/ Handle(h) \/ Pool(h) \/ Deadline(h)

(* The handler's goroutine, its workers and its deadline.                  *)
Fairness == \A h \in Handlers : WF_vars(Handle(h)) /\ WF_vars(Pool(h))

Spec == Init /\ [][Next]_vars /\ Fairness

---------------------------------------------------------------------------
\* A run that ends reports each model that it was asked to check once, as checked or as
\* skipped, wherever the deadline falls between the dispatcher and the workers, and no
\* model is skipped before the deadline.
Asked(h) == pool[h].todo \cup pool[h].busy \cup pool[h].done \cup pool[h].skipped
EveryModelReported ==
    /\ TypeOK
    /\ \A h \in Handlers : pool[h].ran /\ req[h].kind = "all" =>
         Asked(h) = req[h].state.catalog /\ (pool[h].skipped # {} => pool[h].late)

\* As long as no save failed, was overtaken by another or overlapped a load, the store holds
\* what memory holds once the saves are done: a restart serves the same report, history,
\* runs and catalog.
RestartServesTheSame ==
    calm /\ hydrated /\ (\A h \in Handlers : at[h] # "save") => disk = mem

\* Every request ends, wherever the deadline falls and whatever the upstream does.
EveryRequestEnds == \A h \in Handlers : []<>(at[h] = "idle")
=============================================================================
