---------------------------- MODULE ProxyImport ----------------------------
(***************************************************************************)
(* The import of free proxies (proxy_import_manager.go,                    *)
(* free_proxy_import.go): one task at a time, started by an admin or by    *)
(* the schedule, fetches candidates, tests each and writes them to the     *)
(* store in one update, while admins change the store.  A candidate is an  *)
(* endpoint; a proxy's endpoint is its port field.                         *)
(***************************************************************************)
EXTENDS StoreRows, Sequences

CONSTANTS Endpoints,
          Outcomes,        \* what a test may find: "good", "slow" (over the limit), "bad"
          Schedules,       \* sets of minutes that admins choose
          Cleanups,        \* options [enabled, failed] of an import
          Minutes, MaxTasks, MaxEvents,   \* bounds; events: changes, failures, restarts
          LogLimit

ASSUME ImportAssumption ==
    /\ Endpoints \subseteq Nat \ {0} /\ {1, 2} \subseteq Endpoints /\ IsFiniteSet(Endpoints)
    /\ Outcomes \subseteq {"good", "slow", "bad"}
    /\ \A s \in Schedules : s \subseteq Minutes
    /\ Cleanups \subseteq [enabled: BOOLEAN, failed: BOOLEAN] /\ Cleanups # {}
    /\ Minutes \subseteq Nat
    /\ {MaxTasks, MaxEvents, LogLimit} \subseteq Nat

VARIABLES rows,                 \* proxies and keys of the store
          times, opts, lastRun, \* ProxyImportSchedule: Times, cleanup options, LastRunAt
          logs,                 \* ProxyImportLogs, newest first
          task,                 \* the manager's task
          jobs,                 \* of each task, its goroutine
          timer, ticked,        \* the schedule's goroutine, and whether it ran this minute
          minute,
          events,
          starts, excused, calm, \* history of this minute: scheduled starts, the faults that
                                \* excuse one more, and whether only the schedule was at work
          cleared               \* history: logs were cleared, lost or failed to be written

storeVars == <<rows, times, opts, lastRun, logs>>
history == <<starts, excused, calm, cleared>>
importVars == <<storeVars, task, jobs, timer, ticked, minute, events, history>>

Tasks == 1 .. MaxTasks
Never == 0 - 1
NoTask == [id |-> 0, status |-> "idle"]
NoJob == [pc |-> "none", opts |-> [enabled |-> FALSE, failed |-> FALSE],
          found |-> {}, tested |-> NoRows]

AutoRow(e, outcome) == [by |-> "auto", ref |-> 0, port |-> e, on |-> outcome # "bad", test |-> outcome]
ManualRow(e) == [by |-> "manual", ref |-> 0, port |-> e, on |-> TRUE, test |-> "none"]

ImportTypeOK ==
    /\ \A p \in Proxies(rows) : rows.proxies.rows[p] \in
         [by: {"manual", "auto"}, ref: {0}, port: Endpoints, on: BOOLEAN,
          test: {"none", "good", "slow", "bad"}]
    /\ IdsBelowNext(rows) /\ times \subseteq Minutes /\ lastRun \in Minutes \cup {Never}
    /\ Len(logs) <= LogLimit /\ task.id \in 0 .. MaxTasks
    /\ task.status \in {"idle", "running", "succeeded", "failed"}
    /\ \A t \in Tasks :
         jobs[t].pc \in {"none", "fetch", "test", "persist", "load", "fail", "complete", "log"}
    /\ timer \in {"idle", "due", "record"}

ImportInit ==
    /\ rows = [DefaultRows EXCEPT
         !.proxies = Appended(Appended(DefaultList, AutoRow(1, "good")), ManualRow(2)),
         !.api_keys = Appended(Appended(DefaultList, 1), 2)]
    /\ times \in Schedules /\ opts \in Cleanups /\ lastRun = Never /\ logs = <<>>
    /\ task = NoTask /\ jobs = [t \in Tasks |-> NoJob]
    /\ timer = "idle" /\ ticked = FALSE /\ minute = 0
    /\ events = 0
    /\ starts = 0 /\ excused = 0 /\ calm = TRUE /\ cleared = {}

Mid(t) == jobs[t].pc \in {"fetch", "test", "persist", "load", "fail", "complete"}
Event == events < MaxEvents /\ events' = events + 1

---------------------------------------------------------------------------
(* The manager *)

Started(o) ==
    /\ task.status # "running" /\ task.id < MaxTasks
    /\ task' = [id |-> task.id + 1, status |-> "running"]
    /\ jobs' = [jobs EXCEPT ![task.id + 1] = [NoJob EXCEPT !.pc = "fetch", !.opts = o]]

StartManualImport ==
    /\ \E o \in Cleanups : Started(o)
    /\ calm' = FALSE
    /\ UNCHANGED <<storeVars, timer, ticked, minute, events, starts, excused, cleared>>

\* Mutant: the last run is compared by its day.
DueOnceADay == minute \in times /\ lastRun = Never
Due == minute \in times /\ lastRun # minute

RunScheduledIfNeeded ==
    /\ timer = "idle" /\ timer' = (IF Due THEN "due" ELSE "idle") /\ ticked' = TRUE
    /\ UNCHANGED <<storeVars, task, jobs, minute, events, history>>

(* startImport from the schedule, refused while a task runs.               *)
StartScheduled ==
    /\ timer = "due"
    /\ \/ Started(opts) /\ timer' = "record" /\ starts' = starts + 1
       \/ /\ task.status = "running" /\ timer' = "idle"
          /\ UNCHANGED <<task, jobs, starts>>
    /\ UNCHANGED <<storeVars, ticked, minute, events, excused, calm, cleared>>

RecordLastRun ==
    /\ timer = "record" /\ timer' = "idle"
    /\ \/ lastRun' = minute /\ UNCHANGED <<events, excused, calm>>
       \/ Event /\ excused' = excused + 1 /\ calm' = FALSE /\ UNCHANGED lastRun
    /\ UNCHANGED <<rows, times, opts, logs, task, jobs, ticked, minute,
                   starts, cleared>>

(* The ticker has a period of 20 seconds: no minute passes without it.     *)
NextMinute ==
    /\ timer = "idle" /\ ticked /\ minute \in Minutes
    /\ minute' = minute + 1 /\ ticked' = FALSE
    /\ starts' = 0 /\ excused' = 0 /\ calm' = (task.status # "running")
    /\ UNCHANGED <<storeVars, task, jobs, timer, events, cleared>>

---------------------------------------------------------------------------
(* A task: importFreeUpstreamProxiesWithHooks *)

Around(t) == UNCHANGED <<times, opts, lastRun, timer, ticked, minute,
                         starts, excused, calm>>

Fetch(t) ==
    /\ jobs[t].pc = "fetch"
    /\ \E C \in SUBSET Endpoints :
         jobs' = [jobs EXCEPT ![t].pc = IF C = {} THEN "complete" ELSE "test", ![t].found = C]
    /\ Around(t) /\ UNCHANGED <<rows, logs, task, events, cleared>>

(* All results are in before the first is written.                         *)
Test(t) ==
    /\ jobs[t].pc = "test"
    /\ \E outcomes \in [jobs[t].found -> Outcomes] :
         jobs' = [jobs EXCEPT ![t].pc = "persist", ![t].tested = outcomes]
    /\ Around(t) /\ UNCHANGED <<rows, logs, task, events, cleared>>

At(s, e) == {p \in Proxies(s) : s.proxies.rows[p].port = e}
First(S) == CHOOSE p \in S : \A q \in S : p <= q

\* Mutant: a proxy added by hand is switched like an imported one.
TestedAnySource(row, outcome) == [row EXCEPT !.test = outcome, !.on = outcome # "bad"]

Tested(row, outcome) ==
    [row EXCEPT !.test = outcome, !.on = IF row.by = "auto" THEN outcome # "bad" ELSE @]

(* upsertImportedFreeProxy for each candidate: the first proxy at the      *)
(* endpoint, or a new one (the order of the results decides only its id).  *)
Upserted(s, tested) ==
    LET new == {e \in DOMAIN tested : At(s, e) = {}}
        id(e) == s.proxies.next + Cardinality({d \in new : d < e})
        rowOf(p) == s.proxies.rows[p]
        hit(p) == rowOf(p).port \in DOMAIN tested /\ p = First(At(s, rowOf(p).port))
    IN  [s EXCEPT !.proxies =
           [next |-> @.next + Cardinality(new),
            rows |-> [p \in Proxies(s) \cup {id(e) : e \in new} |->
                        IF p \notin Proxies(s)
                        THEN LET e == CHOOSE e \in new : id(e) = p IN AutoRow(e, tested[e])
                        ELSE IF hit(p) THEN Tested(rowOf(p), tested[rowOf(p).port])
                        ELSE rowOf(p)]]]

Cleaned(s, o) ==
    LET gone == {p \in Proxies(s) :
                   /\ o.enabled /\ s.proxies.rows[p].by = "auto"
                   /\ \/ o.failed /\ s.proxies.rows[p].test \in {"none", "bad"}
                      \/ s.proxies.rows[p].test = "slow"}
    IN  DeleteProxyRows(s, gone)

Imported(s, job) == Cleaned(Upserted(s, job.tested), job.opts)

(* Nothing to reload when only proxies added by hand were tested.          *)
Reloads(s, tested) ==
    \/ \E e \in DOMAIN tested : At(s, e) = {} \/ s.proxies.rows[First(At(s, e))].by = "auto"
    \/ Proxies(rows') # Proxies(s)

Persist(t) ==
    /\ jobs[t].pc = "persist"
    /\ \/ /\ rows' = Imported(rows, jobs[t])
          /\ jobs' = [jobs EXCEPT ![t].pc = IF Reloads(rows, jobs[t].tested) THEN "load" ELSE "complete"]
          /\ UNCHANGED events
       \/ Event /\ jobs' = [jobs EXCEPT ![t].pc = "fail"] /\ UNCHANGED rows
    /\ Around(t) /\ UNCHANGED <<logs, task, cleared>>

(* LoadActiveKeys, which may fail to read the store.                       *)
LoadKeys(t) ==
    /\ jobs[t].pc = "load"
    /\ \/ jobs' = [jobs EXCEPT ![t].pc = "complete"] /\ UNCHANGED events
       \/ Event /\ jobs' = [jobs EXCEPT ![t].pc = "fail"]
    /\ Around(t) /\ UNCHANGED <<rows, logs, task, cleared>>

\* Mutant: an import that found nothing is not reported as ended.
EndIfFound(t) ==
    /\ jobs[t].pc \in {"complete", "fail"} /\ jobs[t].found # {}
    /\ task' = IF task.id = t
               THEN [task EXCEPT !.status = IF jobs[t].pc = "fail" THEN "failed" ELSE "succeeded"]
               ELSE task
    /\ jobs' = [jobs EXCEPT ![t] = [NoJob EXCEPT !.pc = "log"]]
    /\ Around(t) /\ UNCHANGED <<rows, logs, events, cleared>>

(* completeTask, failTask: another task may start before this one's log.   *)
End(t) ==
    /\ jobs[t].pc \in {"complete", "fail"}
    /\ task' = IF task.id = t
               THEN [task EXCEPT !.status = IF jobs[t].pc = "fail" THEN "failed" ELSE "succeeded"]
               ELSE task
    /\ jobs' = [jobs EXCEPT ![t] = [NoJob EXCEPT !.pc = "log"]]
    /\ Around(t) /\ UNCHANGED <<rows, logs, events, cleared>>

AppendExecutionLog(t) ==
    /\ jobs[t].pc = "log" /\ jobs' = [jobs EXCEPT ![t] = NoJob]
    /\ \/ LET all == <<t>> \o logs IN
          logs' = SubSeq(all, 1, IF Len(all) < LogLimit THEN Len(all) ELSE LogLimit)
          /\ UNCHANGED <<events, cleared>>
       \/ Event /\ cleared' = cleared \cup {t} /\ UNCHANGED logs
    /\ Around(t) /\ UNCHANGED <<rows, task>>

---------------------------------------------------------------------------
(* Admins, and the end of the process *)

Besides == UNCHANGED <<task, jobs, timer, ticked, minute, starts, excused>>

ChangeProxies ==
    /\ Event
    /\ \/ \E e \in Endpoints : rows' = [rows EXCEPT !.proxies = Appended(@, ManualRow(e))]
       \/ \E p \in Proxies(rows), e \in Endpoints : rows' = [rows EXCEPT !.proxies.rows[p].port = e]
       \/ \E p \in Proxies(rows) : rows' = DeleteProxyRows(rows, {p})
       \/ \E p \in Proxies(rows), on \in BOOLEAN : rows' = SetProxyStatus(rows, {p}, on)
       \/ \E k \in Keys(rows), p \in Proxies(rows) : rows' = BindKeys(rows, {k}, p)
    /\ Besides /\ UNCHANGED <<times, opts, lastRun, logs, calm, cleared>>

\* Mutant: LastRunAt is that of the request, which has none.
UpdateScheduleAfresh ==
    /\ Event
    /\ times' \in Schedules /\ opts' \in Cleanups /\ lastRun' = Never /\ calm' = FALSE
    /\ Besides /\ UNCHANGED <<rows, logs, cleared>>

UpdateSchedule ==
    /\ Event
    /\ times' \in Schedules /\ opts' \in Cleanups /\ calm' = FALSE
    /\ Besides /\ UNCHANGED <<rows, lastRun, logs, cleared>>

ClearProxyImportLogs ==
    /\ Event
    /\ logs' = <<>> /\ cleared' = cleared \cup Range(logs)
    /\ Besides /\ UNCHANGED <<rows, times, opts, lastRun, calm>>

Crash ==
    /\ Event
    /\ task' = [task EXCEPT !.status = "idle"]
    /\ jobs' = [t \in Tasks |-> NoJob] /\ cleared' = cleared \cup {t \in Tasks : jobs[t].pc # "none"}
    /\ timer' = "idle" /\ excused' = excused + 1 /\ calm' = FALSE
    /\ UNCHANGED <<storeVars, ticked, minute, starts>>

---------------------------------------------------------------------------
Run(t) == Fetch(t) \/ Test(t) \/ Persist(t) \/ LoadKeys(t) \/ End(t) \/ AppendExecutionLog(t)
Timer == RunScheduledIfNeeded \/ StartScheduled \/ RecordLastRun

ImportNext ==
    \/ StartManualImport \/ Timer \/ NextMinute
    \/ \E t \in Tasks : Run(t)
    \/ ChangeProxies \/ UpdateSchedule \/ ClearProxyImportLogs \/ Crash

(* Fetches and tests have timeouts: every goroutine goes on.               *)
ImportFairness == \A t \in Tasks : WF_importVars(Run(t))

ImportSpec == ImportInit /\ [][ImportNext]_importVars /\ ImportFairness

---------------------------------------------------------------------------
\* A scheduled time starts at most one import, whatever admins do to the schedule and
\* however soon the import ends; one more only for a restart, or a write of LastRunAt
\* that failed, within the minute.
OncePerMinute == ImportTypeOK /\ starts <= 1 + excused

\* A minute of the schedule in which no import runs from before, no admin starts one or
\* edits the schedule, and nothing fails, ends with its import started.
ScheduledMinuteServed ==
    [][minute' # minute /\ calm /\ minute \in times /\ task.id < MaxTasks => starts = 1]_importVars

\* An import deletes no proxy added by hand and takes no binding to one away; such a proxy
\* is enabled or disabled by admins only; and an import leaves no key bound to a proxy that
\* it deleted, nor, when told to clean up, an imported proxy whose last test was slow.
ImportSparesManual ==
    [][\A t \in Tasks : jobs[t].pc = "persist" /\ jobs'[t].pc \in {"load", "complete"} =>
         /\ \A p \in Proxies(rows) : rows.proxies.rows[p].by = "manual" =>
              /\ p \in Proxies(rows')
              /\ rows'.proxies.rows[p].on = rows.proxies.rows[p].on
              /\ \A k \in Keys(rows) : rows.api_keys.rows[k] = p => rows'.api_keys.rows[k] = p
         /\ BindingsResolved(rows')
         /\ jobs[t].opts.enabled => \A p \in Proxies(rows') :
              rows'.proxies.rows[p].by = "auto" => rows'.proxies.rows[p].test # "slow"]_importVars

\* Every task that was started ends and is found in the logs, unless twenty others came
\* after it, an admin cleared them, the log could not be written, or the process ended.
Accounted(t) == t \in Range(logs) \/ t \in cleared \/ Len(logs) = LogLimit
EveryTaskLogged == \A t \in Tasks : []<>(t > task.id \/ Accounted(t))
=============================================================================
