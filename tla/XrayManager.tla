---------------------------- MODULE XrayManager ----------------------------
(***************************************************************************)
(* The manager of the xray core (pkg/gateway/core_xray_manager.go) with    *)
(* the handlers that change core profiles and ask it to reload.  A         *)
(* reconcile brings profiles and managed proxies into line in the store,   *)
(* finds a binary, writes config.json, and only then takes the manager's   *)
(* lock, under which it replaces the process and waits for its ports.      *)
(***************************************************************************)
EXTENDS XrayBinary, StoreRows

CONSTANTS Ticker,       \* the thread of Start: Ensure every 30 seconds
          Procs,        \* process slots; a slot is reused once its waiter ended
          MaxProfiles, MaxPort, MaxChanges     \* bounds on what admins do

Admins == Threads \ {Ticker}
ASSUME ManagerAssumption == Ticker \in Threads /\ 0 \notin Procs /\ MaxPort \in Nat

VARIABLES store, changes,
          resolved,     \* of each reconcile: the ports of the enabled profiles
          force,
          config,       \* config.json: Torn, or the ports of its inbounds
          cmd,          \* m.cmd, 0 for nil
          proc,         \* processes: state and ports they listen on
          running, activePorts      \* of m.runtime

managerVars == <<resolved, force, config, cmd, proc, running, activePorts>>
vars == <<binaryVars, store, changes, managerVars>>

NoProc == [at |-> "free", ports |-> {}]

TypeOK ==
    /\ pc \in [Threads -> {"idle", "sync", "inspect", "local", "unpacking", "verify", "fetch",
                           "download", "rename", "unpack", "write", "writing", "lock", "ready"}]
    /\ binary \in {Nothing, Torn, Whole}
    /\ {archive, part} \subseteq {Nothing, Torn, Whole} \cup Threads
    /\ tries \in [Threads -> 0 .. Urls] /\ faults \in 0 .. MaxFaults
    /\ resolved \in [Threads -> SUBSET Nat] /\ force \in [Threads -> BOOLEAN]
    /\ config = Torn \/ config \in SUBSET Nat
    /\ cmd \in Procs \cup {0}
    /\ \A n \in Procs : proc[n].at \in {"free", "starting", "listening", "killed", "dead"}
    /\ cmd # 0 => proc[cmd].at # "free"
    /\ running => cmd # 0

Init ==
    /\ pc = [t \in Threads |-> IF t = Ticker THEN "sync" ELSE "idle"]
    /\ binary = Nothing /\ archive = Nothing /\ part = Nothing
    /\ tries = [t \in Threads |-> 0] /\ faults = 0
    /\ store = AddProfileRow(DefaultRows, 0, TRUE) /\ changes = 0
    /\ resolved = [t \in Threads |-> {}]
    /\ force = [t \in Threads |-> t = Ticker]
    /\ config = {} /\ cmd = 0 /\ proc = [n \in Procs |-> NoProc]
    /\ running = FALSE /\ activePorts = {}

---------------------------------------------------------------------------
(* The lock is held while startLocked waits for the ports.                 *)
Free == \A t \in Threads : pc[t] # "ready"

Listens(n) == proc[n].at \in {"listening", "killed"}
Reachable(ports) == \A p \in ports : \E n \in Procs : Listens(n) /\ p \in proc[n].ports
InUse == \E n \in Procs : proc[n].at \in {"starting", "listening", "killed"}

EnabledPorts(s) == {s.core_profiles.rows[c].port : c \in {d \in Profiles(s) : s.core_profiles.rows[d].on}}

---------------------------------------------------------------------------
(* The handlers: a change of the store, then a reload.                     *)

Reload(t) == Step(t, "idle", "sync") /\ force' = [force EXCEPT ![t] = TRUE]

Change(t, new) ==
    /\ changes < MaxChanges /\ changes' = changes + 1
    /\ store' = new
    /\ Reload(t)
    /\ UNCHANGED <<binary, archive, part, tries, faults>>
    /\ UNCHANGED <<resolved, config, cmd, proc, running, activePorts>>

CreateCoreProfile(t) ==
    /\ Cardinality(Profiles(store)) < MaxProfiles
    /\ \E port \in 0 .. MaxPort, fits \in BOOLEAN : Change(t, AddProfileRow(store, port, fits))

(* The port and the status the request names; the others keep theirs.      *)
UpdateCoreProfile(t) ==
    \E c \in Profiles(store), port \in 0 .. MaxPort, on \in BOOLEAN :
        Change(t, SetProfile(store, c, port, on))

DeleteCoreProfiles(t) ==
    \E cs \in SUBSET Profiles(store) \ {{}} : Change(t, DeleteProfileRows(store, cs))

(* POST /core/runtime/reload, and the connectivity tests of profiles.      *)
ReloadCoreRuntime(t) == Change(t, store)

---------------------------------------------------------------------------
(* reconcile *)

Ensure ==
    /\ Step(Ticker, "idle", "sync")
    /\ force' = [force EXCEPT ![Ticker] = FALSE]
    /\ UNCHANGED <<binary, archive, part, tries, faults, store, changes>>
    /\ UNCHANGED <<resolved, config, cmd, proc, running, activePorts>>

Sync(t) ==
    /\ pc[t] = "sync"
    /\ store' = SyncProfiles(store)
    /\ resolved' = [resolved EXCEPT ![t] = EnabledPorts(store')]
    /\ Step(t, "sync", IF EnabledPorts(store') = {} THEN "lock" ELSE "inspect")
    /\ UNCHANGED <<binary, archive, part, tries, faults, changes>>
    /\ UNCHANGED <<force, config, cmd, proc, running, activePorts>>

Obtain(t) ==
    /\ Prepare(t, InUse)
    /\ UNCHANGED <<store, changes, managerVars>>

(* os.WriteFile truncates config.json and fills it again.                  *)
BeginConfig(t) ==
    /\ Step(t, "write", "writing")
    /\ config' = Torn
    /\ UNCHANGED <<binary, archive, part, tries, faults, store, changes>>
    /\ UNCHANGED <<resolved, force, cmd, proc, running, activePorts>>

EndConfig(t) ==
    /\ Step(t, "writing", "lock")
    /\ config' = resolved[t]
    /\ UNCHANGED <<binary, archive, part, tries, faults, store, changes>>
    /\ UNCHANGED <<resolved, force, cmd, proc, running, activePorts>>

Killed(n) == IF proc[n].at \in {"starting", "listening"}
             THEN [proc EXCEPT ![n].at = "killed"] ELSE proc

(* Slots tell processes apart and nothing else: a free one stands for all.  *)
AnySlot == CHOOSE n \in Procs : proc[n].at = "free"

StopLocked ==
    /\ running' = FALSE
    /\ IF cmd = 0 THEN UNCHANGED proc ELSE proc' = Killed(cmd)

StopCore(t) ==
    /\ resolved[t] = {} /\ Free
    /\ Step(t, "lock", "idle")
    /\ StopLocked /\ activePorts' = {}
    /\ UNCHANGED <<binary, archive, part, tries, faults, store, changes, resolved, force, config, cmd>>

Enter(t) == resolved[t] # {} /\ Free /\ activePorts' = resolved[t]

\* Mutant: a running core is kept without a look at its ports.
KeepCoreUnprobed(t) ==
    /\ Enter(t)
    /\ cmd # 0 /\ ~force[t] /\ running
    /\ Step(t, "lock", "idle")
    /\ UNCHANGED <<binary, archive, part, tries, faults, store, changes>>
    /\ UNCHANGED <<resolved, force, config, cmd, proc, running>>

KeepCore(t) ==
    /\ Enter(t)
    /\ cmd # 0 /\ ~force[t] /\ running /\ Reachable(resolved[t])
    /\ Step(t, "lock", "idle")
    /\ UNCHANGED <<binary, archive, part, tries, faults, store, changes>>
    /\ UNCHANGED <<resolved, force, config, cmd, proc, running>>

(* Kill reports an error when the wait for the process has returned and    *)
(* its waiter is still at the lock; a command that cannot be run leaves    *)
(* the stopped one in m.cmd.                                               *)
FailStart(t) ==
    /\ Enter(t)
    /\ ~(cmd # 0 /\ ~force[t] /\ running /\ Reachable(resolved[t]))
    /\ ~Works \/ (cmd # 0 /\ proc[cmd].at = "dead")
    /\ Step(t, "lock", "idle")
    /\ StopLocked
    /\ UNCHANGED <<binary, archive, part, tries, faults, store, changes>>
    /\ UNCHANGED <<resolved, force, config, cmd>>

StartCore(t) ==
    /\ Enter(t)
    /\ ~(cmd # 0 /\ ~force[t] /\ running /\ Reachable(resolved[t]))
    /\ Works
    /\ \E n \in Procs :
         /\ proc[n].at = "free" /\ n = AnySlot
         /\ cmd' = n
         /\ proc' = [(IF cmd = 0 THEN proc ELSE Killed(cmd)) EXCEPT
                        ![n] = [at |-> "starting", ports |-> {}]]
    /\ Step(t, "lock", "ready")
    /\ running' = FALSE
    /\ UNCHANGED <<binary, archive, part, tries, faults, store, changes, resolved, force, config>>

(* Whoever listens on the ports: the process that was killed may still.    *)
PortsReady(t) ==
    /\ Reachable(activePorts)
    /\ Step(t, "ready", "idle")
    /\ running' = TRUE
    /\ UNCHANGED <<binary, archive, part, tries, faults, store, changes>>
    /\ UNCHANGED <<resolved, force, config, cmd, proc, activePorts>>

(* Ten seconds without all ports: the process ended, listens elsewhere or  *)
(* is slow.                                                                *)
PortsMissing(t) ==
    /\ ~Reachable(activePorts)
    /\ \/ cmd # 0 /\ proc[cmd].at # "starting" /\ UNCHANGED faults
       \/ faults < MaxFaults /\ faults' = faults + 1
    /\ Step(t, "ready", "idle")
    /\ proc' = Killed(cmd)
    /\ UNCHANGED <<binary, archive, part, tries, store, changes>>
    /\ UNCHANGED <<resolved, force, config, cmd, running, activePorts>>

---------------------------------------------------------------------------
(* The process and its waiter *)

(* xray reads config.json, and ends when it cannot listen on every port.   *)
Listen(n) ==
    /\ proc[n].at = "starting"
    /\ proc' = [proc EXCEPT ![n] =
          IF config # Torn /\ (\A o \in Procs : Listens(o) => proc[o].ports \cap config = {})
          THEN [at |-> "listening", ports |-> config]
          ELSE [at |-> "dead", ports |-> {}]]
    /\ UNCHANGED <<binaryVars, store, changes>>
    /\ UNCHANGED <<resolved, force, config, cmd, running, activePorts>>

Die(n) ==
    /\ \/ proc[n].at = "killed" /\ UNCHANGED faults
       \/ proc[n].at = "listening" /\ faults < MaxFaults /\ faults' = faults + 1
    /\ proc' = [proc EXCEPT ![n] = [at |-> "dead", ports |-> {}]]
    /\ UNCHANGED <<pc, binary, archive, part, tries, store, changes>>
    /\ UNCHANGED <<resolved, force, config, cmd, running, activePorts>>

\* Mutant: the waiter clears m.cmd whichever process it waited for.
WaitCommandUnchecked(n) ==
    /\ proc[n].at = "dead" /\ Free
    /\ proc' = [proc EXCEPT ![n] = NoProc]
    /\ cmd' = 0 /\ running' = FALSE
    /\ UNCHANGED <<binaryVars, store, changes, resolved, force, config, activePorts>>

WaitCommand(n) ==
    /\ proc[n].at = "dead" /\ Free
    /\ proc' = [proc EXCEPT ![n] = NoProc]
    /\ IF cmd = n THEN cmd' = 0 /\ running' = FALSE ELSE UNCHANGED <<cmd, running>>
    /\ UNCHANGED <<binaryVars, store, changes, resolved, force, config, activePorts>>

---------------------------------------------------------------------------
Reconcile(t) ==
    \/ Sync(t) \/ Obtain(t) \/ BeginConfig(t) \/ EndConfig(t)
    \/ StopCore(t) \/ KeepCore(t) \/ FailStart(t) \/ StartCore(t)
    \/ PortsReady(t) \/ PortsMissing(t)
Administer(t) ==
    \/ CreateCoreProfile(t) \/ UpdateCoreProfile(t) \/ DeleteCoreProfiles(t)
    \/ ReloadCoreRuntime(t)
Process(n) == Listen(n) \/ Die(n) \/ WaitCommand(n)

Next ==
    \/ Ensure
    \/ \E t \in Threads : Reconcile(t)
    \/ \E t \in Admins : Administer(t)
    \/ \E n \in Procs : Process(n)

(* The ticker ticks and reconciles run on; processes come up, those killed  *)
(* end, and a waiter gets the lock in the end (Go's mutex starves nobody). *)
(* Admins need never act, and processes need not crash.                    *)
Fairness ==
    /\ WF_vars(Ensure)
    /\ \A t \in Threads : WF_vars(Reconcile(t))
    /\ WF_vars(\E n \in Procs : Listen(n))
    /\ WF_vars(\E n \in Procs : proc[n].at = "killed" /\ Die(n))
    /\ SF_vars(\E n \in Procs : WaitCommand(n))

Spec == Init /\ [][Next]_vars /\ Fairness

---------------------------------------------------------------------------
\* No process is lost: one that is starting or listening and was not told to end is
\* the one m.cmd names, however late the waiter of an earlier one comes.
NoOrphan ==
    /\ TypeOK
    /\ \A n \in Procs : proc[n].at \in {"starting", "listening"} => cmd = n

\* Whatever admins did in between, a reconcile leaves profiles and managed proxies in
\* correspondence, each profile with a port of its own.
SyncRepairs ==
    [][\A t \in Threads : pc[t] = "sync" /\ pc'[t] # "sync" => Synced(store')]_vars

\* Once the admins stop, every enabled profile comes to be served and stays so, and
\* when none is enabled the core ends: whatever reconciles raced, downloads were lost,
\* binaries or configurations were half written and processes died or started late.
EnabledServed ==
    <>[]/\ Reachable(EnabledPorts(store))
        /\ EnabledPorts(store) = {} => \A n \in Procs : ~Listens(n)
=============================================================================
