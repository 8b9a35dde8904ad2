---------------------------- MODULE ManagerProofs ----------------------------
(***************************************************************************)
(* What the two managers that run in the background of the gateway keep.   *)
(* The xray manager, for every number of reconciles, processes, profiles   *)
(* and ports: the process that serves is the one it knows, and a reconcile *)
(* leaves profiles and managed proxies in step.  The import manager, for   *)
(* every set of endpoints, minutes and timetables: a scheduled minute      *)
(* starts its import, once, and an import spares what admins own.          *)
(***************************************************************************)
EXTENDS XrayManager, ProxyImport, StoreRowsProofs

Places == {"idle", "sync", "inspect", "local", "unpacking", "verify", "fetch",
           "download", "rename", "unpack", "write", "writing", "lock", "ready"}
Proc == [at: {"free", "starting", "listening", "killed", "dead"}, ports: SUBSET Nat]

(* A thread at "fetch" has a URL left.                                     *)
BinaryOK ==
    /\ pc \in [Threads -> Places]
    /\ binary \in {Nothing, Torn, Whole}
    /\ {archive, part} \subseteq {Nothing, Torn, Whole} \cup Threads
    /\ tries \in [Threads -> 0 .. Urls] /\ faults \in 0 .. MaxFaults
    /\ \A t \in Threads : pc[t] = "fetch" => tries[t] < Urls

ManagerTypes ==
    /\ resolved \in [Threads -> SUBSET Nat] /\ force \in [Threads -> BOOLEAN]
    /\ config = Torn \/ config \in SUBSET Nat
    /\ cmd \in Procs \cup {0} /\ proc \in [Procs -> Proc] /\ running \in BOOLEAN

(* m.cmd names a process until its waiter ended, as long as a thread waits *)
(* for the ports and while the core counts as running.                     *)
CmdOK ==
    /\ cmd # 0 => proc[cmd].at # "free"
    /\ running \/ (\E t \in Threads : pc[t] = "ready") => cmd # 0
    /\ \A n \in Procs : proc[n].at \in {"starting", "listening"} => cmd = n

StoreOK == RowsTyped(store) /\ Matched(store)

XrayInv == BinaryOK /\ ManagerTypes /\ CmdOK /\ StoreOK
---------------------------------------------------------------------------
(* The start has one new profile, no process and no binary.                *)
LEMMA InitHolds == Init => XrayInv
<1>. SUFFICES ASSUME Init PROVE XrayInv
  OBVIOUS
<1>1. Urls \in Nat /\ MaxFaults \in Nat /\ 0 \notin Procs
  BY BinaryAssumption, ManagerAssumption DEF BinaryAssumption, ManagerAssumption
<1>2. BinaryOK
  <2>1. pc \in [Threads -> Places] /\ \A t \in Threads : pc[t] # "fetch"
    BY DEF Init, Places
  <2>2. tries \in [Threads -> 0 .. Urls] /\ faults \in 0 .. MaxFaults
    BY <1>1 DEF Init
  <2>. QED
    BY <2>1, <2>2 DEF Init, BinaryOK
<1>3. ManagerTypes
  <2>1. proc \in [Procs -> Proc]
    BY DEF Init, NoProc, Proc
  <2>2. force \in [Threads -> BOOLEAN]
    BY Zenon DEF Init
  <2>3. running \in BOOLEAN
    BY Zenon DEF Init
  <2>. QED
    BY <2>1, <2>2, <2>3 DEF Init, ManagerTypes
<1>4. CmdOK
  BY DEF Init, CmdOK, NoProc
<1>5. StoreOK
  <2>1. RowsTyped(DefaultRows) /\ Matched(DefaultRows)
    BY DEF RowsTyped, Matched, IsList, DefaultRows, DefaultList, NoRows, Profiles, Managed, Proxies
  <2>. QED
    BY <2>1, ProfileAdded DEF Init, StoreOK
<1>. QED
  BY <1>2, <1>3, <1>4, <1>5 DEF XrayInv

---------------------------------------------------------------------------
(* The binary *)

(* A step of one thread.                                                   *)
LEMMA StepMoves ==
    ASSUME BinaryOK, NEW t \in Threads, NEW from, NEW to \in Places, Step(t, from, to)
    PROVE  /\ pc' \in [Threads -> Places] /\ pc[t] = from /\ pc'[t] = to
           /\ \A u \in Threads \ {t} : pc'[u] = pc[u]
BY DEF Step, BinaryOK

(* A thread that fails tries the next URL if it has one.                   *)
LEMMA FailedMoves ==
    ASSUME BinaryOK, NEW t \in Threads, NEW from, Failed(t, from)
    PROVE  /\ pc' \in [Threads -> Places] /\ pc[t] = from
           /\ \/ pc'[t] = "fetch" /\ tries[t] < Urls
              \/ pc'[t] = "idle"
           /\ \A u \in Threads \ {t} : pc'[u] = pc[u]
BY DEF Failed, Step, BinaryOK, Places

(* A step that begins no download and leaves the files to those who write  *)
(* them keeps what is known of the binary.                                 *)
LEMMA BinaryKept ==
    ASSUME BinaryOK, NEW t \in Threads, pc' \in [Threads -> Places],
           \A u \in Threads \ {t} : pc'[u] = pc[u], pc'[t] = "fetch" => tries[t] < Urls,
           tries' = tries, faults' \in {faults, faults + 1}, faults' # faults => faults < MaxFaults,
           binary' \in {binary, Torn, Whole},
           archive' \in {archive, part, Torn, Whole}, part' \in {part, Nothing, Whole, t}
    PROVE  BinaryOK'
<1>1. MaxFaults \in Nat
  BY BinaryAssumption DEF BinaryAssumption
<1>2. faults' \in 0 .. MaxFaults
  BY <1>1 DEF BinaryOK
<1>. QED
  BY <1>2 DEF BinaryOK

(* Every step of the way to a binary.                                      *)
LEMMA PrepareKeeps ==
    ASSUME BinaryOK, NEW t \in Threads, NEW busy \in BOOLEAN, Prepare(t, busy)
    PROVE  BinaryOK' /\ pc'[t] # "ready" /\ \A u \in Threads \ {t} : pc'[u] = pc[u]
<1>. USE DEF Places
<1>0. Urls \in Nat
  BY BinaryAssumption DEF BinaryAssumption
<1>1. CASE Inspect(t)
  <2>1. /\ pc' \in [Threads -> Places] /\ pc'[t] \in {"write", "local"}
        /\ \A u \in Threads \ {t} : pc'[u] = pc[u]
    BY <1>1, StepMoves DEF Inspect
  <2>2. tries' \in [Threads -> 0 .. Urls] /\ \A u \in Threads \ {t} : tries'[u] = tries[u]
    BY <1>0, <1>1 DEF Inspect, BinaryOK
  <2>. QED
    BY <1>1, <2>1, <2>2 DEF Inspect, BinaryOK
<1>2. CASE UnpackLocal(t, busy) \/ UnpackArchive(t, busy)
  <2>1. PICK from : Unpack(t, from)
    BY <1>2 DEF UnpackLocal, UnpackArchive
  <2>2. /\ pc' \in [Threads -> Places] /\ pc'[t] = "unpacking"
        /\ \A u \in Threads \ {t} : pc'[u] = pc[u]
    BY <2>1, StepMoves DEF Unpack
  <2>. QED
    BY <2>1, <2>2, BinaryKept DEF Unpack
<1>3. CASE NothingLocal(t, busy)
  BY <1>3, FailedMoves, BinaryKept DEF NothingLocal
<1>4. CASE Unpacked(t)
  <2>1. /\ pc' \in [Threads -> Places] /\ pc'[t] = "verify"
        /\ \A u \in Threads \ {t} : pc'[u] = pc[u]
    BY <1>4, StepMoves DEF Unpacked
  <2>. QED
    BY <1>4, <2>1, BinaryKept DEF Unpacked
<1>5. CASE Verify(t)
  <2>1. CASE Works
    <3>1. /\ pc' \in [Threads -> Places] /\ pc'[t] = "write"
          /\ \A u \in Threads \ {t} : pc'[u] = pc[u]
      BY <1>5, <2>1, StepMoves DEF Verify
    <3>. QED
      BY <1>5, <3>1, BinaryKept DEF Verify
  <2>2. CASE ~Works
    BY <1>5, <2>2, FailedMoves, BinaryKept DEF Verify
  <2>. QED
    BY <2>1, <2>2
<1>6. CASE BeginDownload(t)
  <2>1. /\ pc' \in [Threads -> Places] /\ pc[t] = "fetch" /\ pc'[t] = "download"
        /\ \A u \in Threads \ {t} : pc'[u] = pc[u]
    BY <1>6, StepMoves DEF BeginDownload
  <2>2. tries[t] \in 0 .. Urls /\ tries[t] < Urls
    BY <2>1 DEF BinaryOK
  <2>3. tries' \in [Threads -> 0 .. Urls] /\ \A u \in Threads \ {t} : tries'[u] = tries[u]
    BY <1>0, <1>6, <2>2 DEF BeginDownload, BinaryOK
  <2>. QED
    BY <1>6, <2>1, <2>3 DEF BeginDownload, BinaryOK
<1>7. CASE EndDownload(t)
  <2>1. archive' \in {archive, Whole}
    BY <1>7 DEF EndDownload, Ended
  <2>2. CASE part' = Whole /\ Step(t, "download", "rename")
    <3>1. /\ pc' \in [Threads -> Places] /\ pc'[t] = "rename"
          /\ \A u \in Threads \ {t} : pc'[u] = pc[u]
      BY <2>2, StepMoves
    <3>. QED
      BY <1>7, <2>1, <2>2, <3>1, BinaryKept DEF EndDownload
  <2>3. CASE part' = Nothing /\ Failed(t, "download")
    BY <1>7, <2>1, <2>3, FailedMoves, BinaryKept DEF EndDownload
  <2>. QED
    BY <1>7, <2>2, <2>3 DEF EndDownload
<1>8. CASE LoseDownload(t)
  <2>1. archive' \in {archive, Torn}
    BY <1>8 DEF LoseDownload, Ended
  <2>. QED
    BY <1>8, <2>1, FailedMoves, BinaryKept DEF LoseDownload
<1>9. CASE Rename(t)
  <2>1. CASE part = Nothing
    BY <1>9, <2>1, FailedMoves, BinaryKept DEF Rename
  <2>2. CASE part # Nothing
    <3>1. /\ pc' \in [Threads -> Places] /\ pc'[t] = "unpack"
          /\ \A u \in Threads \ {t} : pc'[u] = pc[u]
      BY <1>9, <2>2, StepMoves DEF Rename
    <3>. QED
      BY <1>9, <3>1, BinaryKept DEF Rename
  <2>. QED
    BY <2>1, <2>2
<1>10. CASE RefuseArchive(t, busy)
  BY <1>10, FailedMoves, BinaryKept DEF RefuseArchive
<1>. QED
  BY <1>1, <1>2, <1>3, <1>4, <1>5, <1>6, <1>7, <1>8, <1>9, <1>10 DEF Prepare

---------------------------------------------------------------------------
(* The store *)

(* What admins and reconciles do to the store keeps profiles and managed   *)
(* proxies matched.                                                        *)
LEMMA StoreKept ==
    ASSUME StoreOK, NEW t \in Threads, Administer(t) \/ Sync(t)
    PROVE  StoreOK'
<1>. USE DEF StoreOK
<1>1. CASE CreateCoreProfile(t)
  <2>1. PICK port \in 0 .. MaxPort, fits \in BOOLEAN : store' = AddProfileRow(store, port, fits)
    BY <1>1 DEF CreateCoreProfile, Change
  <2>2. port \in Nat
    BY ManagerAssumption DEF ManagerAssumption
  <2>. QED
    BY <2>1, <2>2, ProfileAdded
<1>2. CASE UpdateCoreProfile(t)
  <2>1. PICK c \in Profiles(store), port \in 0 .. MaxPort, on \in BOOLEAN :
          store' = SetProfile(store, c, port, on)
    BY <1>2 DEF UpdateCoreProfile, Change
  <2>2. port \in Nat
    BY ManagerAssumption DEF ManagerAssumption
  <2>. QED
    BY <2>1, <2>2, ProfileSet
<1>3. CASE DeleteCoreProfiles(t)
  <2>1. PICK cs \in SUBSET Profiles(store) : store' = DeleteProfileRows(store, cs)
    BY <1>3 DEF DeleteCoreProfiles, Change
  <2>. QED
    BY <2>1, ProfilesDeleted
<1>4. CASE ReloadCoreRuntime(t)
  BY <1>4 DEF ReloadCoreRuntime, Change
<1>5. CASE Sync(t)
  <2>1. store' = SyncProfiles(store)
    BY <1>5 DEF Sync
  <2>. QED
    BY <2>1, SyncProfilesTyped, SyncedMatches
<1>. QED
  BY <1>1, <1>2, <1>3, <1>4, <1>5 DEF Administer

(* Ports are numbers.                                                      *)
LEMMA PortsAreNumbers == ASSUME NEW s, RowsTyped(s) PROVE EnabledPorts(s) \in SUBSET Nat
BY DEF RowsTyped, IsList, Profiles, ProfileRow, EnabledPorts

---------------------------------------------------------------------------
(* The process *)

(* A thread that does not come to wait for ports, and leaves the command   *)
(* and the process alone.                                                  *)
LEMMA CmdKept ==
    ASSUME CmdOK, NEW t \in Threads, \A u \in Threads \ {t} : pc'[u] = pc[u], pc'[t] # "ready",
           UNCHANGED <<cmd, proc, running>>
    PROVE  CmdOK'
BY DEF CmdOK

(* Killing ends a process that starts or listens, and changes no other.    *)
LEMMA KillEnds ==
    ASSUME ManagerTypes, NEW n \in Procs
    PROVE  /\ Killed(n) \in [Procs -> Proc] /\ Killed(n)[n].at \notin {"starting", "listening"}
           /\ \A m \in Procs : Killed(n)[m].at = "free" <=> proc[m].at = "free"
           /\ \A m \in Procs \ {n} : Killed(n)[m] = proc[m]
<1>1. proc \in [Procs -> Proc] /\ proc[n] \in Proc
  BY DEF ManagerTypes
<1>2. CASE proc[n].at \in {"starting", "listening"}
  <2>1. Killed(n) = [proc EXCEPT ![n] = [proc[n] EXCEPT !.at = "killed"]]
    BY <1>2 DEF Killed
  <2>2. [proc[n] EXCEPT !.at = "killed"] \in Proc /\ [proc[n] EXCEPT !.at = "killed"].at = "killed"
    BY <1>1 DEF Proc
  <2>. QED
    BY <1>1, <1>2, <2>1, <2>2
<1>3. CASE proc[n].at \notin {"starting", "listening"}
  BY <1>1, <1>3 DEF Killed
<1>. QED
  BY <1>2, <1>3

(* So does StopLocked with the process in m.cmd.                           *)
LEMMA StopEnds ==
    ASSUME ManagerTypes, CmdOK, StopLocked
    PROVE  /\ proc' \in [Procs -> Proc] /\ running' = FALSE
           /\ \A m \in Procs : proc'[m].at \notin {"starting", "listening"}
           /\ \A m \in Procs : proc'[m].at = "free" <=> proc[m].at = "free"
<1>1. CASE cmd = 0
  BY <1>1, ManagerAssumption DEF StopLocked, ManagerTypes, CmdOK, ManagerAssumption
<1>2. CASE cmd # 0
  <2>1. cmd \in Procs /\ proc' = Killed(cmd) /\ running' = FALSE
    BY <1>2 DEF ManagerTypes, StopLocked
  <2>. QED
    BY <2>1, KillEnds DEF CmdOK
<1>. QED
  BY <1>1, <1>2

---------------------------------------------------------------------------
(* The invariant *)

(* A handler, the ticker, or a reconcile before it asks for the lock.      *)
LEMMA UnlockedKeeps ==
    ASSUME XrayInv, NEW t \in Threads,
           \/ Administer(t) \/ (t = Ticker /\ Ensure) \/ Sync(t) \/ Obtain(t)
           \/ BeginConfig(t) \/ EndConfig(t)
    PROVE  XrayInv'
<1>. USE DEF XrayInv
<1>1. CASE Administer(t)
  <2>1. /\ Reload(t) /\ UNCHANGED <<binary, archive, part, tries, faults>>
        /\ UNCHANGED <<resolved, config, cmd, proc, running, activePorts>>
    BY <1>1 DEF Administer, CreateCoreProfile, UpdateCoreProfile, DeleteCoreProfiles,
                ReloadCoreRuntime, Change
  <2>2. /\ pc' \in [Threads -> Places] /\ pc'[t] = "sync"
        /\ \A u \in Threads \ {t} : pc'[u] = pc[u]
    BY <2>1, StepMoves DEF Reload, Places
  <2>3. force' \in [Threads -> BOOLEAN]
    BY <2>1 DEF Reload, ManagerTypes
  <2>4. BinaryOK'
    BY <2>1, <2>2, BinaryKept
  <2>5. CmdOK'
    BY <2>1, <2>2, CmdKept
  <2>. QED
    BY <1>1, <2>1, <2>3, <2>4, <2>5, StoreKept DEF ManagerTypes
<1>2. CASE t = Ticker /\ Ensure
  <2>1. /\ pc' \in [Threads -> Places] /\ pc'[t] = "sync"
        /\ \A u \in Threads \ {t} : pc'[u] = pc[u]
    BY <1>2, StepMoves DEF Ensure, Places
  <2>2. force' \in [Threads -> BOOLEAN]
    BY <1>2 DEF Ensure, ManagerTypes
  <2>3. BinaryOK'
    BY <1>2, <2>1, BinaryKept DEF Ensure
  <2>4. CmdOK'
    BY <1>2, <2>1, CmdKept DEF Ensure
  <2>. QED
    BY <1>2, <2>2, <2>3, <2>4 DEF Ensure, ManagerTypes, StoreOK
<1>3. CASE Sync(t)
  <2>1. StoreOK'
    BY <1>3, StoreKept
  <2>2. EnabledPorts(store') \in SUBSET Nat
    BY <2>1, PortsAreNumbers DEF StoreOK
  <2>3. /\ pc' \in [Threads -> Places] /\ pc'[t] \in {"lock", "inspect"}
        /\ \A u \in Threads \ {t} : pc'[u] = pc[u]
    BY <1>3, StepMoves DEF Sync, Places
  <2>4. resolved' \in [Threads -> SUBSET Nat]
    BY <1>3, <2>2 DEF Sync, ManagerTypes
  <2>5. BinaryOK'
    BY <1>3, <2>3, BinaryKept DEF Sync
  <2>6. CmdOK'
    BY <1>3, <2>3, CmdKept DEF Sync
  <2>. QED
    BY <1>3, <2>1, <2>4, <2>5, <2>6 DEF Sync, ManagerTypes
<1>4. CASE Obtain(t)
  <2>1. InUse \in BOOLEAN /\ Prepare(t, InUse) /\ UNCHANGED <<store, changes, managerVars>>
    BY <1>4 DEF Obtain, InUse
  <2>2. BinaryOK' /\ pc'[t] # "ready" /\ \A u \in Threads \ {t} : pc'[u] = pc[u]
    BY <2>1, PrepareKeeps
  <2>3. CmdOK'
    BY <2>1, <2>2, CmdKept DEF managerVars
  <2>. QED
    BY <2>1, <2>2, <2>3 DEF managerVars, ManagerTypes, StoreOK
<1>5. CASE BeginConfig(t) \/ EndConfig(t)
  <2>1. /\ pc' \in [Threads -> Places] /\ pc'[t] \in {"writing", "lock"}
        /\ \A u \in Threads \ {t} : pc'[u] = pc[u]
    BY <1>5, StepMoves DEF BeginConfig, EndConfig, Places
  <2>2. config' = Torn \/ config' \in SUBSET Nat
    BY <1>5 DEF BeginConfig, EndConfig, ManagerTypes
  <2>3. /\ UNCHANGED <<binary, archive, part, tries, faults, store, changes>>
        /\ UNCHANGED <<resolved, force, cmd, proc, running, activePorts>>
    BY <1>5 DEF BeginConfig, EndConfig
  <2>4. BinaryOK'
    BY <2>1, <2>3, BinaryKept
  <2>5. CmdOK'
    BY <2>1, <2>3, CmdKept
  <2>. QED
    BY <2>2, <2>3, <2>4, <2>5 DEF ManagerTypes, StoreOK
<1>. QED
  BY <1>1, <1>2, <1>3, <1>4, <1>5

(* A reconcile under the lock.                                             *)
LEMMA LockedKeeps ==
    ASSUME XrayInv, NEW t \in Threads,
           \/ StopCore(t) \/ KeepCore(t) \/ FailStart(t) \/ StartCore(t)
           \/ PortsReady(t) \/ PortsMissing(t)
    PROVE  XrayInv'
<1>. USE DEF XrayInv
<1>1. CASE StopCore(t) \/ FailStart(t)
  <2>1. /\ StopLocked /\ Step(t, "lock", "idle") /\ Free
        /\ UNCHANGED <<binary, archive, part, tries, faults, store, changes, resolved, force, config, cmd>>
    BY <1>1 DEF StopCore, FailStart, Enter
  <2>2. /\ pc' \in [Threads -> Places] /\ pc'[t] = "idle"
        /\ \A u \in Threads \ {t} : pc'[u] = pc[u]
    BY <2>1, StepMoves DEF Places
  <2>3. BinaryOK'
    BY <2>1, <2>2, BinaryKept
  <2>4. \A u \in Threads : pc'[u] # "ready"
    BY <2>1, <2>2 DEF Free
  <2>5. CmdOK'
    <3>1. cmd # 0 => cmd \in Procs /\ proc[cmd].at # "free"
      BY DEF ManagerTypes, CmdOK
    <3>. QED
      BY <2>1, <2>4, <3>1, StopEnds DEF CmdOK
  <2>6. ManagerTypes'
    <3>1. running' \in BOOLEAN
      BY <2>1, Zenon DEF StopLocked
    <3>. QED
      BY <2>1, <3>1, StopEnds DEF ManagerTypes
  <2>. QED
    BY <2>1, <2>3, <2>5, <2>6 DEF StoreOK
<1>2. CASE KeepCore(t)
  <2>1. /\ pc' \in [Threads -> Places] /\ pc'[t] = "idle"
        /\ \A u \in Threads \ {t} : pc'[u] = pc[u]
    BY <1>2, StepMoves DEF KeepCore, Places
  <2>2. BinaryOK'
    BY <1>2, <2>1, BinaryKept DEF KeepCore
  <2>3. CmdOK'
    BY <1>2, <2>1, CmdKept DEF KeepCore
  <2>. QED
    BY <1>2, <2>2, <2>3 DEF KeepCore, ManagerTypes, StoreOK
<1>3. CASE StartCore(t)
  <2>. DEFINE before == IF cmd = 0 THEN proc ELSE Killed(cmd)
              fresh == [at |-> "starting", ports |-> {}]
  <2>1. PICK n \in Procs : proc[n].at = "free" /\ cmd' = n /\ proc' = [before EXCEPT ![n] = fresh]
    BY <1>3 DEF StartCore
  <2>2. /\ pc' \in [Threads -> Places] /\ pc'[t] = "ready"
        /\ \A u \in Threads \ {t} : pc'[u] = pc[u]
    BY <1>3, StepMoves DEF StartCore, Places
  <2>3. before \in [Procs -> Proc] /\ \A m \in Procs : before[m].at \notin {"starting", "listening"}
    <3>1. CASE cmd = 0
      BY <3>1, ManagerAssumption DEF ManagerTypes, CmdOK, ManagerAssumption
    <3>2. CASE cmd # 0
      BY <3>2, KillEnds DEF ManagerTypes, CmdOK
    <3>. QED
      BY <3>1, <3>2
  <2>4. fresh \in Proc /\ fresh.at = "starting"
    BY DEF Proc
  <2>. HIDE DEF before, fresh
  <2>5. /\ proc' \in [Procs -> Proc] /\ proc'[n].at = "starting"
        /\ \A m \in Procs \ {n} : proc'[m].at \notin {"starting", "listening"}
    BY <2>1, <2>3, <2>4
  <2>6. n # 0
    BY ManagerAssumption DEF ManagerAssumption
  <2>7. CmdOK'
    BY <2>1, <2>5, <2>6 DEF CmdOK
  <2>8. running' \in BOOLEAN
    BY <1>3, Zenon DEF StartCore
  <2>9. BinaryOK'
    BY <1>3, <2>2, BinaryKept DEF StartCore
  <2>. QED
    BY <1>3, <2>1, <2>5, <2>7, <2>8, <2>9 DEF StartCore, ManagerTypes, StoreOK
<1>4. CASE PortsReady(t)
  <2>1. /\ pc' \in [Threads -> Places] /\ pc[t] = "ready" /\ pc'[t] = "idle"
        /\ \A u \in Threads \ {t} : pc'[u] = pc[u]
    BY <1>4, StepMoves DEF PortsReady, Places
  <2>2. BinaryOK'
    BY <1>4, <2>1, BinaryKept DEF PortsReady
  <2>3. CmdOK'
    BY <1>4, <2>1 DEF PortsReady, CmdOK
  <2>4. running' \in BOOLEAN
    BY <1>4, Zenon DEF PortsReady
  <2>. QED
    BY <1>4, <2>2, <2>3, <2>4 DEF PortsReady, ManagerTypes, StoreOK
<1>5. CASE PortsMissing(t)
  <2>1. /\ pc' \in [Threads -> Places] /\ pc[t] = "ready" /\ pc'[t] = "idle"
        /\ \A u \in Threads \ {t} : pc'[u] = pc[u]
    BY <1>5, StepMoves DEF PortsMissing, Places
  <2>2. faults' \in {faults, faults + 1} /\ (faults' # faults => faults < MaxFaults)
    BY <1>5 DEF PortsMissing
  <2>3. BinaryOK'
    BY <1>5, <2>1, <2>2, BinaryKept DEF PortsMissing
  <2>4. cmd \in Procs
    BY <2>1 DEF CmdOK, ManagerTypes
  <2>5. /\ proc' \in [Procs -> Proc] /\ \A m \in Procs : proc'[m].at \notin {"starting", "listening"}
        /\ \A m \in Procs : proc'[m].at = "free" <=> proc[m].at = "free"
    BY <1>5, <2>4, KillEnds DEF PortsMissing, CmdOK
  <2>6. CmdOK'
    BY <1>5, <2>1, <2>4, <2>5 DEF PortsMissing, CmdOK
  <2>. QED
    BY <1>5, <2>3, <2>5, <2>6 DEF PortsMissing, ManagerTypes, StoreOK
<1>. QED
  BY <1>1, <1>2, <1>3, <1>4, <1>5

(* A process, or its waiter.                                               *)
LEMMA ProcessKeeps ==
    ASSUME XrayInv, NEW n \in Procs, Process(n)
    PROVE  XrayInv'
<1>. USE DEF XrayInv
<1>0. proc \in [Procs -> Proc] /\ MaxFaults \in Nat
  BY BinaryAssumption DEF ManagerTypes, BinaryAssumption
<1>1. CASE Listen(n)
  <2>1. PICK p \in Proc : p.at \in {"listening", "dead"} /\ proc' = [proc EXCEPT ![n] = p]
    <3>. DEFINE up == [at |-> "listening", ports |-> config]
                down == [at |-> "dead", ports |-> {}]
    <3>1. \/ proc' = [proc EXCEPT ![n] = up] /\ config # Torn
          \/ proc' = [proc EXCEPT ![n] = down]
      BY <1>1 DEF Listen
    <3>2. config # Torn => up \in Proc
      BY DEF ManagerTypes, Proc
    <3>3. down \in Proc
      BY DEF Proc
    <3>. QED
      BY <3>1, <3>2, <3>3
  <2>2. /\ proc' \in [Procs -> Proc] /\ proc'[n].at \in {"listening", "dead"}
        /\ \A m \in Procs \ {n} : proc'[m] = proc[m]
    BY <1>0, <2>1
  <2>3. /\ UNCHANGED <<pc, binary, archive, part, tries, faults, store, changes>>
        /\ UNCHANGED <<resolved, force, config, cmd, running, activePorts>>
        /\ proc[n].at = "starting"
    BY <1>1 DEF Listen, binaryVars
  <2>4. CmdOK'
    BY <2>2, <2>3 DEF CmdOK
  <2>. QED
    BY <2>2, <2>3, <2>4 DEF BinaryOK, ManagerTypes, StoreOK
<1>2. CASE Die(n)
  <2>1. faults' \in 0 .. MaxFaults
    BY <1>0, <1>2 DEF Die, BinaryOK
  <2>2. /\ proc' \in [Procs -> Proc] /\ proc'[n].at = "dead"
        /\ \A m \in Procs \ {n} : proc'[m] = proc[m]
    BY <1>0, <1>2 DEF Die, Proc
  <2>3. CmdOK'
    BY <1>2, <2>2 DEF Die, CmdOK
  <2>. QED
    BY <1>2, <2>1, <2>2, <2>3 DEF Die, BinaryOK, ManagerTypes, StoreOK
<1>3. CASE WaitCommand(n)
  <2>1. /\ proc' \in [Procs -> Proc] /\ proc'[n].at = "free"
        /\ \A m \in Procs \ {n} : proc'[m] = proc[m]
    BY <1>0, <1>3 DEF WaitCommand, NoProc, Proc
  <2>2. /\ UNCHANGED <<pc, binary, archive, part, tries, faults, store, changes>>
        /\ UNCHANGED <<resolved, force, config, activePorts>>
        /\ \A t \in Threads : pc[t] # "ready"
    BY <1>3 DEF WaitCommand, binaryVars, Free
  <2>3. \/ cmd = n /\ cmd' = 0 /\ running' = FALSE
        \/ cmd # n /\ cmd' = cmd /\ running' = running
    BY <1>3 DEF WaitCommand
  <2>4. proc[n].at = "dead"
    BY <1>3 DEF WaitCommand
  <2>5. CmdOK'
    BY <2>1, <2>2, <2>3, <2>4 DEF CmdOK, ManagerTypes
  <2>6. running' \in BOOLEAN
    <3>1. CASE running' = FALSE
      BY <3>1, Zenon
    <3>2. CASE running' = running
      BY <3>2 DEF ManagerTypes
    <3>. QED
      BY <2>3, <3>1, <3>2
  <2>. QED
    BY <2>1, <2>2, <2>3, <2>5, <2>6 DEF BinaryOK, ManagerTypes, StoreOK
<1>. QED
  BY <1>1, <1>2, <1>3 DEF Process

(* The invariant is inductive.                                             *)
LEMMA StepKeeps == XrayInv /\ [Next]_vars => XrayInv'
<1>. SUFFICES ASSUME XrayInv, [Next]_vars PROVE XrayInv'
  OBVIOUS
<1>1. CASE Ensure
  BY <1>1, UnlockedKeeps, ManagerAssumption DEF ManagerAssumption
<1>2. ASSUME NEW t \in Threads, Reconcile(t) \/ Administer(t) PROVE XrayInv'
  BY <1>2, UnlockedKeeps, LockedKeeps DEF Reconcile
<1>3. ASSUME NEW n \in Procs, Process(n) PROVE XrayInv'
  BY <1>3, ProcessKeeps
<1>4. CASE UNCHANGED vars
  BY <1>4 DEF vars, binaryVars, managerVars, XrayInv, BinaryOK, ManagerTypes, CmdOK, StoreOK
<1>. QED
  BY <1>1, <1>2, <1>3, <1>4 DEF Next, Admins

---------------------------------------------------------------------------
\* Whatever reconciles race and processes die, an xray process that was not told to end is
\* the one the manager knows.
THEOREM NoProcessIsLost == Spec => []NoOrphan
<1>1. XrayInv => NoOrphan
  <2>. SUFFICES ASSUME XrayInv PROVE NoOrphan
    OBVIOUS
  <2>1. \A n \in Procs : proc[n].at \in {"free", "starting", "listening", "killed", "dead"}
    BY DEF XrayInv, ManagerTypes, Proc
  <2>. QED
    BY <2>1 DEF XrayInv, BinaryOK, Places, ManagerTypes, CmdOK, NoOrphan, TypeOK
<1>. QED
  BY <1>1, InitHolds, StepKeeps, PTL DEF Spec

\* A reconcile leaves a managed proxy for every enabled or disabled profile, none besides, and
\* a port of its own to every profile, whatever admins did before.
THEOREM ReconcileRepairs == Spec => SyncRepairs
<1>. DEFINE Repairs == \A t \in Threads : pc[t] = "sync" /\ pc'[t] # "sync" => Synced(store')
<1>1. XrayInv /\ [Next]_vars => [Repairs]_vars
  <2>. SUFFICES ASSUME XrayInv, Next, NEW t \in Threads, pc[t] = "sync", pc'[t] # "sync"
                PROVE  Synced(store')
    BY DEF vars, binaryVars
  <2>1. Sync(t)
    <3>1. ASSUME NEW u \in Threads, Reconcile(u) \/ Administer(u) \/ (u = Ticker /\ Ensure), ~Sync(u)
          PROVE  pc'[t] = "sync"
      BY <3>1 DEF Reconcile, Administer, Ensure, Sync, Obtain, Prepare, BeginConfig, EndConfig, StopCore,
                  KeepCore, FailStart, StartCore, PortsReady, PortsMissing, Inspect, Unpack, UnpackLocal,
                  NothingLocal, Unpacked, Verify, BeginDownload, EndDownload, LoseDownload, Rename,
                  UnpackArchive, RefuseArchive, Failed, Step, CreateCoreProfile, UpdateCoreProfile,
                  DeleteCoreProfiles, ReloadCoreRuntime, Change, Reload, XrayInv, BinaryOK
    <3>2. ASSUME NEW u \in Threads, Sync(u) PROVE u = t
      BY <3>2 DEF Sync, Step, XrayInv, BinaryOK
    <3>3. ASSUME NEW n \in Procs, Process(n) PROVE pc'[t] = "sync"
      BY <3>3 DEF Process, Listen, Die, WaitCommand, binaryVars
    <3>. QED
      BY <3>1, <3>2, <3>3, ManagerAssumption DEF Next, Admins, ManagerAssumption
  <2>. QED
    BY <2>1, SyncProfilesTyped DEF Sync, XrayInv, StoreOK
<1>. QED
  BY <1>1, InitHolds, StepKeeps, PTL DEF Spec, SyncRepairs

---------------------------------------------------------------------------
(* The imports: the rows they may find, and where the manager's tasks are. *)

FoundRow == [by: {"manual", "auto"}, ref: {0}, port: Endpoints, on: BOOLEAN,
             test: {"none", "good", "slow", "bad"}]
ImportRowsOK(s) ==
    /\ {"api_keys", "proxies", "core_profiles"} \subseteq DOMAIN s
    /\ IsList(s.api_keys, Nat) /\ IsList(s.proxies, FoundRow)
    /\ s.core_profiles = DefaultList /\ BindingsResolved(s)

Choice == [enabled: BOOLEAN, failed: BOOLEAN]
Results == UNION {[C -> Outcomes] : C \in SUBSET Endpoints}
JobPlaces == {"none", "fetch", "test", "persist", "load", "fail", "complete", "log"}
Job == [pc: JobPlaces, opts: Choice, found: SUBSET Endpoints, tested: Results]
TasksOK ==
    /\ jobs \in [Tasks -> Job]
    /\ task \in [id: 0 .. MaxTasks, status: {"idle", "running", "succeeded", "failed"}]
    /\ logs \in Seq(Nat) /\ Len(logs) <= LogLimit
    /\ times \subseteq Minutes /\ opts \in Choice

(* Once the minute's import has started, LastRunAt says so or will, or the *)
(* write failed or was lost.                                               *)
MinuteOK ==
    /\ starts \in Nat /\ excused \in Nat /\ minute \in Nat /\ lastRun \in Minutes \cup {Never}
    /\ timer \in {"idle", "due", "record"}
    /\ timer # "idle" => minute \in Minutes
    /\ timer = "idle" => starts <= excused + (IF lastRun = minute THEN 1 ELSE 0)
    /\ timer = "due" => lastRun # minute /\ starts <= excused
    /\ timer = "record" => starts <= excused + 1

(* In a minute that nothing disturbs the import waits for the ticker, is   *)
(* about to be recorded, or has been.                                      *)
CalmOK ==
    /\ lastRun <= minute
    /\ calm => \/ /\ starts = 0 /\ task.status # "running" /\ lastRun # minute
                  /\ \/ timer = "idle" /\ (ticked => minute \notin times)
                     \/ timer = "due"
               \/ starts = 1 /\ timer = "record"
               \/ starts = 1 /\ timer = "idle" /\ lastRun = minute

ImportInv == ImportRowsOK(rows) /\ TasksOK /\ MinuteOK /\ CalmOK

(* Other proxies under the same ids or more, all of them known by hand or  *)
(* imported.                                                               *)
LEMMA FoundRowsPut ==
    ASSUME NEW s, ImportRowsOK(s), NEW list, IsList(list, FoundRow), Proxies(s) \subseteq DOMAIN list.rows
    PROVE  ImportRowsOK([s EXCEPT !.proxies = list])
<1>. DEFINE u == [s EXCEPT !.proxies = list]
<1>1. /\ u.api_keys = s.api_keys /\ u.proxies = list /\ u.core_profiles = s.core_profiles
      /\ DOMAIN u = DOMAIN s
  BY DEF ImportRowsOK
<1>. HIDE DEF u
<1>2. BindingsResolved(u)
  BY <1>1 DEF ImportRowsOK, BindingsResolved, ValidReference, Keys, Proxies
<1>3. ImportRowsOK(u)
  BY <1>1, <1>2 DEF ImportRowsOK
<1>. QED
  BY <1>3 DEF u

(* Other rows under the same ids.                                          *)
LEMMA FoundRowsSet ==
    ASSUME NEW s, ImportRowsOK(s), NEW f, DOMAIN f = Proxies(s), \A p \in Proxies(s) : f[p] \in FoundRow
    PROVE  ImportRowsOK([s EXCEPT !.proxies.rows = f])
<1>. DEFINE list == [s.proxies EXCEPT !.rows = f]
<1>1. /\ list.rows = f /\ list.next = s.proxies.next /\ DOMAIN list = DOMAIN s.proxies
      /\ \A p \in Proxies(s) : p \in Nat \ {0} /\ p < s.proxies.next
      /\ s.proxies.next \in Nat \ {0} /\ {"next", "rows"} \subseteq DOMAIN s.proxies
  BY DEF ImportRowsOK, IsList, Proxies
<1>2. [s EXCEPT !.proxies.rows = f] = [s EXCEPT !.proxies = list]
  OBVIOUS
<1>. HIDE DEF list
<1>3. IsList(list, FoundRow)
  BY <1>1 DEF IsList
<1>. QED
  BY <1>1, <1>2, <1>3, FoundRowsPut

(* A proxy that an admin adds.                                             *)
LEMMA FoundRowAdded ==
    ASSUME NEW s, ImportRowsOK(s), NEW row \in FoundRow
    PROVE  ImportRowsOK([s EXCEPT !.proxies = Appended(@, row)])
<1>. DEFINE list == Appended(s.proxies, row)
            new == s.proxies.next
<1>1. /\ new \in Nat \ {0}
      /\ \A p \in Proxies(s) : p \in Nat \ {0} /\ p < new /\ s.proxies.rows[p] \in FoundRow
  BY DEF ImportRowsOK, IsList, Proxies
<1>2. /\ list.next = new + 1 /\ {"next", "rows"} \subseteq DOMAIN list
      /\ DOMAIN list.rows = Proxies(s) \cup {new} /\ list.rows[new] = row
      /\ \A p \in Proxies(s) : list.rows[p] = s.proxies.rows[p]
  BY <1>1 DEF Appended, Put, Proxies
<1>3. [s EXCEPT !.proxies = Appended(@, row)] = [s EXCEPT !.proxies = list]
  OBVIOUS
<1>. HIDE DEF list, new
<1>4. \A p \in DOMAIN list.rows : p \in Nat \ {0} /\ p < new + 1 /\ list.rows[p] \in FoundRow
  BY <1>1, <1>2
<1>5. IsList(list, FoundRow)
  BY <1>1, <1>2, <1>4 DEF IsList
<1>. QED
  BY <1>2, <1>3, <1>5, FoundRowsPut

(* Proxies that an admin or the clean-up deletes, with the bindings to     *)
(* them; the others stay as they are.                                      *)
LEMMA FoundRowsDeleted ==
    ASSUME NEW s, ImportRowsOK(s), NEW ps
    PROVE  LET u == DeleteProxyRows(s, ps) IN
           /\ ImportRowsOK(u)
           /\ Proxies(u) = Proxies(s) \ ps /\ Keys(u) = Keys(s)
           /\ \A p \in Proxies(u) : u.proxies.rows[p] = s.proxies.rows[p]
           /\ \A k \in Keys(u) : u.api_keys.rows[k] =
                                   (IF s.api_keys.rows[k] \in ps THEN 0 ELSE s.api_keys.rows[k])
<1>. DEFINE proxies == Without(s.proxies.rows, ps)
            keys == [k \in Keys(s) |-> IF s.api_keys.rows[k] \in ps THEN 0 ELSE s.api_keys.rows[k]]
            b == [s EXCEPT !.proxies.rows = proxies]
            u == [b EXCEPT !.api_keys.rows = keys]
<1>1. DeleteProxyRows(s, ps) = Unbind(b, ps)
  BY DEF DeleteProxyRows
<1>2. /\ DOMAIN proxies = Proxies(s) \ ps
      /\ \A p \in Proxies(s) \ ps : proxies[p] = s.proxies.rows[p]
  BY DEF Without, Restrict, Proxies
<1>. HIDE DEF proxies
<1>3. /\ DOMAIN b = DOMAIN s /\ b.api_keys = s.api_keys
      /\ b.core_profiles = s.core_profiles /\ b.proxies = [s.proxies EXCEPT !.rows = proxies]
  BY DEF ImportRowsOK
<1>4. Unbind(b, ps) = u
  BY <1>3 DEF Unbind, Keys
<1>. HIDE DEF b, keys
<1>5. /\ DOMAIN u = DOMAIN s /\ u.core_profiles = s.core_profiles /\ u.proxies = b.proxies
      /\ u.api_keys = [s.api_keys EXCEPT !.rows = keys]
  BY <1>3 DEF ImportRowsOK
<1>. HIDE DEF u
<1>6. IsList(u.proxies, FoundRow) /\ u.proxies.rows = proxies
  BY <1>2, <1>3, <1>5 DEF IsList, ImportRowsOK, Proxies
<1>7. DOMAIN keys = Keys(s) /\ \A k \in Keys(s) :
        keys[k] = (IF s.api_keys.rows[k] \in ps THEN 0 ELSE s.api_keys.rows[k])
  BY DEF keys
<1>8. IsList(u.api_keys, Nat) /\ u.api_keys.rows = keys
  BY <1>5, <1>7 DEF IsList, ImportRowsOK, Keys
<1>9. Proxies(u) = Proxies(s) \ ps /\ Keys(u) = Keys(s)
  BY <1>2, <1>6, <1>7, <1>8 DEF Proxies, Keys
<1>10. \A k \in Keys(s) : s.api_keys.rows[k] = 0 \/ s.api_keys.rows[k] \in Proxies(s)
  BY DEF ImportRowsOK, BindingsResolved, ValidReference
<1>11. BindingsResolved(u)
  BY <1>7, <1>8, <1>9, <1>10 DEF BindingsResolved, ValidReference
<1>12. ImportRowsOK(u)
  BY <1>5, <1>6, <1>8, <1>11 DEF ImportRowsOK
<1>. QED
  BY <1>1, <1>2, <1>4, <1>6, <1>7, <1>8, <1>9, <1>12

(* What the results make of the store before the clean-up: no proxy is     *)
(* lost, no binding changed, and a proxy added by hand is only tested.     *)
LEMMA ResultsUpserted ==
    ASSUME NEW s, ImportRowsOK(s), NEW tested \in Results
    PROVE  LET u == Upserted(s, tested) IN
           /\ ImportRowsOK(u) /\ Proxies(s) \subseteq Proxies(u) /\ u.api_keys = s.api_keys
           /\ \A p \in Proxies(s) :
                /\ u.proxies.rows[p].by = s.proxies.rows[p].by
                /\ s.proxies.rows[p].by = "manual" => u.proxies.rows[p].on = s.proxies.rows[p].on
<1>. DEFINE new == {e \in DOMAIN tested : At(s, e) = {}}
            id(e) == s.proxies.next + Cardinality({d \in new : d < e})
            rowOf(p) == s.proxies.rows[p]
            hit(p) == rowOf(p).port \in DOMAIN tested /\ p = First(At(s, rowOf(p).port))
            f == [p \in Proxies(s) \cup {id(e) : e \in new} |->
                    IF p \notin Proxies(s)
                    THEN LET e == CHOOSE e \in new : id(e) = p IN AutoRow(e, tested[e])
                    ELSE IF hit(p) THEN Tested(rowOf(p), tested[rowOf(p).port])
                    ELSE rowOf(p)]
            list == [next |-> s.proxies.next + Cardinality(new), rows |-> f]
<1>1. Upserted(s, tested) = [s EXCEPT !.proxies = list]
  BY DEF Upserted
<1>2. PICK C \in SUBSET Endpoints : tested \in [C -> Outcomes]
  BY DEF Results
<1>3. /\ \A e \in DOMAIN tested : e \in Endpoints /\ tested[e] \in {"good", "slow", "bad"}
      /\ new \subseteq Endpoints
  BY <1>2, ImportAssumption DEF ImportAssumption
<1>4. IsFiniteSet(new) /\ new \subseteq Nat /\ Cardinality(new) \in Nat
  BY <1>3, ImportAssumption, FS_Subset, FS_CardinalityType DEF ImportAssumption
<1>5. /\ s.proxies.next \in Nat \ {0}
      /\ \A p \in Proxies(s) : p \in Nat \ {0} /\ p < s.proxies.next /\ rowOf(p) \in FoundRow
  BY DEF ImportRowsOK, IsList, Proxies
<1>6. \A e \in new : Cardinality({d \in new : d < e}) \in Nat
                     /\ Cardinality({d \in new : d < e}) < Cardinality(new)
  BY <1>4, Ranks
<1>. HIDE DEF new
<1>7. ASSUME NEW e \in new PROVE id(e) \in Nat \ {0} /\ id(e) < s.proxies.next + Cardinality(new)
  <2>. DEFINE rank == Cardinality({d \in new : d < e})
  <2>1. rank \in Nat /\ rank < Cardinality(new) /\ id(e) = s.proxies.next + rank
    BY <1>6
  <2>. HIDE DEF rank, id
  <2>. QED
    BY <1>4, <1>5, <2>1
<1>8. ASSUME NEW p \in Proxies(s)
      PROVE  /\ f[p] \in FoundRow /\ f[p].by = rowOf(p).by
             /\ rowOf(p).by = "manual" => f[p].on = rowOf(p).on
  <2>1. f[p] = IF hit(p) THEN Tested(rowOf(p), tested[rowOf(p).port]) ELSE rowOf(p)
    BY Zenon
  <2>2. rowOf(p) \in FoundRow
    BY <1>5
  <2>3. CASE hit(p)
    <3>1. tested[rowOf(p).port] \in {"good", "slow", "bad"} /\ f[p] = Tested(rowOf(p), tested[rowOf(p).port])
      BY <1>3, <2>1, <2>3
    <3>. HIDE DEF f, hit
    <3>. QED
      BY <2>2, <3>1 DEF Tested, FoundRow
  <2>4. CASE ~hit(p)
    BY <2>1, <2>2, <2>4
  <2>. QED
    BY <2>3, <2>4
<1>9. ASSUME NEW p \in {id(e) : e \in new}, p \notin Proxies(s) PROVE f[p] \in FoundRow
  <2>. DEFINE e == CHOOSE e \in new : id(e) = p
  <2>1. e \in new
    <3>1. \E d \in new : id(d) = p
      OBVIOUS
    <3>. QED
      BY <3>1, Zenon
  <2>2. f[p] = AutoRow(e, tested[e])
    BY <1>9
  <2>3. e \in Endpoints /\ tested[e] \in {"good", "slow", "bad"}
    <3>1. e \in DOMAIN tested
      BY <2>1 DEF new
    <3>. HIDE DEF e
    <3>. QED
      BY <1>3, <3>1
  <2>. HIDE DEF e, f
  <2>. QED
    BY <2>2, <2>3 DEF AutoRow, FoundRow
<1>10. DOMAIN f = Proxies(s) \cup {id(e) : e \in new}
  OBVIOUS
<1>11. IsList(list, FoundRow)
  <2>1. DOMAIN list = {"next", "rows"} /\ list.rows = f /\ list.next = s.proxies.next + Cardinality(new)
    OBVIOUS
  <2>. HIDE DEF list, f, id
  <2>2. list.next \in Nat \ {0} /\ \A p \in Proxies(s) : p < list.next
    BY <1>4, <1>5, <2>1
  <2>3. \A p \in DOMAIN f : p \in Nat \ {0} /\ p < list.next /\ f[p] \in FoundRow
    BY <1>5, <1>7, <1>8, <1>9, <1>10, <2>1, <2>2 DEF id
  <2>. QED
    BY <2>1, <2>2, <2>3 DEF IsList
<1>12. ImportRowsOK([s EXCEPT !.proxies = list])
  <2>1. list.rows = f
    OBVIOUS
  <2>2. Proxies(s) \subseteq DOMAIN list.rows
    BY <1>10, <2>1
  <2>. HIDE DEF list, f
  <2>. QED
    BY <1>11, <2>2, FoundRowsPut
<1>13. LET u == [s EXCEPT !.proxies = list] IN u.proxies.rows = f /\ u.api_keys = s.api_keys
  BY DEF ImportRowsOK
<1>. HIDE DEF list, f
<1>. QED
  BY <1>1, <1>8, <1>10, <1>12, <1>13 DEF Proxies

(* The whole update of an import.                                          *)
LEMMA ImportSpares ==
    ASSUME NEW s, ImportRowsOK(s), NEW job \in Job
    PROVE  LET u == Imported(s, job) IN
           /\ ImportRowsOK(u) /\ Keys(u) = Keys(s)
           /\ \A p \in Proxies(s) : s.proxies.rows[p].by = "manual" =>
                /\ p \in Proxies(u) /\ u.proxies.rows[p].on = s.proxies.rows[p].on
                /\ \A k \in Keys(s) : s.api_keys.rows[k] = p => u.api_keys.rows[k] = p
           /\ job.opts.enabled => \A p \in Proxies(u) :
                u.proxies.rows[p].by = "auto" => u.proxies.rows[p].test # "slow"
<1>. DEFINE m == Upserted(s, job.tested)
            o == job.opts
            gone == {p \in Proxies(m) :
                       /\ o.enabled /\ m.proxies.rows[p].by = "auto"
                       /\ \/ o.failed /\ m.proxies.rows[p].test \in {"none", "bad"}
                          \/ m.proxies.rows[p].test = "slow"}
            u == DeleteProxyRows(m, gone)
<1>1. job.tested \in Results
  BY DEF Job
<1>. HIDE DEF m
<1>2. /\ ImportRowsOK(m) /\ Proxies(s) \subseteq Proxies(m) /\ m.api_keys = s.api_keys
      /\ \A p \in Proxies(s) :
           /\ m.proxies.rows[p].by = s.proxies.rows[p].by
           /\ s.proxies.rows[p].by = "manual" => m.proxies.rows[p].on = s.proxies.rows[p].on
  BY <1>1, ResultsUpserted DEF m
<1>3. Imported(s, job) = u
  BY DEF Imported, Cleaned, m
<1>4. \A p \in Proxies(s) : s.proxies.rows[p].by = "manual" => p \in Proxies(m) \ gone
  BY <1>2
<1>5. o.enabled => \A p \in Proxies(m) \ gone : m.proxies.rows[p].by = "auto" => m.proxies.rows[p].test # "slow"
  OBVIOUS
<1>. HIDE DEF gone, u, o
<1>6. /\ ImportRowsOK(u) /\ Proxies(u) = Proxies(m) \ gone /\ Keys(u) = Keys(m)
      /\ \A p \in Proxies(u) : u.proxies.rows[p] = m.proxies.rows[p]
      /\ \A k \in Keys(u) : u.api_keys.rows[k] =
                              (IF m.api_keys.rows[k] \in gone THEN 0 ELSE m.api_keys.rows[k])
  BY <1>2, FoundRowsDeleted DEF u
<1>7. Keys(m) = Keys(s)
  BY <1>2 DEF Keys
<1>. QED
  BY <1>2, <1>3, <1>4, <1>5, <1>6, <1>7 DEF o

(* What a task without a goroutine holds is of the same type.              *)
LEMMA NoJobTyped == NoJob \in Job
<1>1. NoRows \in [{} -> Outcomes]
  BY DEF NoRows
<1>2. NoRows \in Results
  BY <1>1 DEF Results
<1>. HIDE DEF NoRows
<1>. QED
  BY <1>2 DEF NoJob, Job, JobPlaces, Choice

(* The start has a proxy of each kind, with a key bound to it.             *)
LEMMA ImportInitHolds == ImportInit => ImportInv
<1>. SUFFICES ASSUME ImportInit PROVE ImportInv
  OBVIOUS
<1>1. /\ {1, 2} \subseteq Endpoints /\ MaxTasks \in Nat /\ LogLimit \in Nat /\ Cleanups \subseteq Choice
      /\ \A m \in Schedules : m \subseteq Minutes
  BY ImportAssumption DEF ImportAssumption, Choice
<1>2. ImportRowsOK(rows)
  <2>. DEFINE a == AutoRow(1, "good")
              b == ManualRow(2)
              one == Appended(DefaultList, a)
              two == Appended(one, b)
              key == Appended(DefaultList, 1)
              keys == Appended(key, 2)
  <2>1. a \in FoundRow /\ b \in FoundRow
    BY <1>1 DEF AutoRow, ManualRow, FoundRow
  <2>2. rows = [DefaultRows EXCEPT !.proxies = two, !.api_keys = keys]
    BY DEF ImportInit
  <2>. HIDE DEF a, b
  <2>3. DOMAIN DefaultList.rows = {} /\ DefaultList.next = 1
    BY DEF DefaultList, NoRows
  <2>4. one.next = 2 /\ DOMAIN one.rows = {1} /\ one.rows[1] = a
    BY <2>3 DEF Appended, Put
  <2>5. key.next = 2 /\ DOMAIN key.rows = {1} /\ key.rows[1] = 1
    BY <2>3 DEF Appended, Put
  <2>. HIDE DEF one, key
  <2>6. /\ DOMAIN two = {"next", "rows"} /\ two.next = 3
        /\ DOMAIN two.rows = {1, 2} /\ two.rows[1] = a /\ two.rows[2] = b
    BY <2>4 DEF Appended, Put
  <2>7. /\ DOMAIN keys = {"next", "rows"} /\ keys.next = 3
        /\ DOMAIN keys.rows = {1, 2} /\ keys.rows[1] = 1 /\ keys.rows[2] = 2
    BY <2>5 DEF Appended, Put
  <2>. HIDE DEF two, keys
  <2>8. IsList(two, FoundRow) /\ IsList(keys, Nat)
    BY <2>1, <2>6, <2>7 DEF IsList
  <2>9. /\ DOMAIN rows = {"api_keys", "proxies", "core_profiles", "system_config"}
        /\ rows.proxies = two /\ rows.api_keys = keys /\ rows.core_profiles = DefaultList
    BY <2>2 DEF DefaultRows
  <2>10. BindingsResolved(rows)
    BY <2>6, <2>7, <2>9 DEF BindingsResolved, ValidReference, Keys, Proxies
  <2>. QED
    BY <2>8, <2>9, <2>10 DEF ImportRowsOK
<1>3. TasksOK
  <2>1. NoJob \in Job
    BY NoJobTyped
  <2>. HIDE DEF NoJob
  <2>2. jobs \in [Tasks -> Job]
    BY <2>1 DEF ImportInit
  <2>3. task \in [id: 0 .. MaxTasks, status: {"idle", "running", "succeeded", "failed"}]
    BY <1>1 DEF ImportInit, NoTask
  <2>4. logs \in Seq(Nat) /\ Len(logs) <= LogLimit
    BY <1>1 DEF ImportInit
  <2>5. times \subseteq Minutes /\ opts \in Choice
    BY <1>1 DEF ImportInit
  <2>. QED
    BY <2>2, <2>3, <2>4, <2>5 DEF TasksOK
<1>4. MinuteOK
  BY DEF ImportInit, MinuteOK, Never
<1>5. CalmOK
  BY DEF ImportInit, CalmOK, Never, NoTask
<1>. QED
  BY <1>2, <1>3, <1>4, <1>5 DEF ImportInv

(* A goroutine goes on to another of its steps.                            *)
LEMMA JobMoves == ASSUME NEW j \in Job, NEW at \in JobPlaces PROVE [j EXCEPT !.pc = at] \in Job
BY DEF Job

(* A goroutine that starts has the options of its import.                  *)
LEMMA JobGets ==
    ASSUME NEW j \in Job, NEW at \in JobPlaces, NEW o \in Choice
    PROVE  [j EXCEPT !.pc = at, !.opts = o] \in Job
BY DEF Job

(* It finds candidates,                                                    *)
LEMMA JobFinds ==
    ASSUME NEW j \in Job, NEW at \in JobPlaces, NEW C \in SUBSET Endpoints
    PROVE  [j EXCEPT !.pc = at, !.found = C] \in Job
BY DEF Job

(* and what they are worth.                                                *)
LEMMA JobTests ==
    ASSUME NEW j \in Job, NEW at \in JobPlaces, NEW r \in Results
    PROVE  [j EXCEPT !.pc = at, !.tested = r] \in Job
BY DEF Job

(* A task that starts is in its place and fetches.                         *)
LEMMA StartedTask ==
    ASSUME TasksOK, NEW o \in Choice, Started(o)
    PROVE  /\ jobs' \in [Tasks -> Job] /\ task' = [id |-> task.id + 1, status |-> "running"]
           /\ task' \in [id: 0 .. MaxTasks, status: {"idle", "running", "succeeded", "failed"}]
           /\ \A t \in Tasks : jobs'[t].pc \in {"fetch", jobs[t].pc}
<1>1. MaxTasks \in Nat /\ task.id \in 0 .. MaxTasks
  BY ImportAssumption DEF ImportAssumption, TasksOK
<1>2. task' = [id |-> task.id + 1, status |-> "running"] /\ task.id < MaxTasks
  BY DEF Started
<1>3. task' \in [id: 0 .. MaxTasks, status: {"idle", "running", "succeeded", "failed"}]
  BY <1>1, <1>2
<1>. DEFINE new == [NoJob EXCEPT !.pc = "fetch", !.opts = o]
<1>4. new \in Job /\ new.pc = "fetch"
  <2>1. "fetch" \in JobPlaces
    BY DEF JobPlaces
  <2>2. new \in Job
    BY <2>1, NoJobTyped, JobGets, Zenon
  <2>. QED
    BY <2>2 DEF NoJob
<1>5. jobs' = [jobs EXCEPT ![task.id + 1] = new] /\ jobs \in [Tasks -> Job]
  BY DEF Started, TasksOK
<1>. HIDE DEF new
<1>6. jobs' \in [Tasks -> Job] /\ \A t \in Tasks : jobs'[t] = jobs[t] \/ jobs'[t] = new
  BY <1>4, <1>5
<1>. QED
  BY <1>2, <1>3, <1>4, <1>6

(* What leaves the clock, the schedule and the task's being at work alone  *)
(* leaves the minute alone.                                                *)
LEMMA MinuteKept ==
    ASSUME MinuteOK, CalmOK, task'.status = "running" => task.status = "running",
           UNCHANGED <<times, lastRun, timer, ticked, minute, starts, excused, calm>>
    PROVE  MinuteOK' /\ CalmOK'
BY DEF MinuteOK, CalmOK

\* A task goes one step further.
LEMMA RunKeeps ==
    ASSUME ImportInv, NEW t \in Tasks, Run(t) PROVE ImportInv'
<1>0. JobPlaces = {"none", "fetch", "test", "persist", "load", "fail", "complete", "log"}
  BY DEF JobPlaces
<1>1. /\ jobs \in [Tasks -> Job] /\ jobs[t] \in Job /\ ImportRowsOK(rows)
      /\ task \in [id: 0 .. MaxTasks, status: {"idle", "running", "succeeded", "failed"}]
  BY DEF ImportInv, TasksOK
<1>2. ASSUME NEW at \in JobPlaces, jobs' = [jobs EXCEPT ![t].pc = at] PROVE jobs' \in [Tasks -> Job]
  <2>1. [jobs[t] EXCEPT !.pc = at] \in Job
    BY <1>1, JobMoves
  <2>2. jobs' = [jobs EXCEPT ![t] = [jobs[t] EXCEPT !.pc = at]]
    BY <1>1, <1>2
  <2>. QED
    BY <1>1, <2>1, <2>2
<1>3. ASSUME NEW j \in Job, jobs' = [jobs EXCEPT ![t] = j] PROVE jobs' \in [Tasks -> Job]
  BY <1>1, <1>3
<1>4. Around(t)
  BY DEF Run, Fetch, Test, Persist, LoadKeys, End, AppendExecutionLog
<1>5. /\ ImportRowsOK(rows') /\ jobs' \in [Tasks -> Job]
      /\ logs' \in Seq(Nat) /\ Len(logs') <= LogLimit
      /\ task' \in [id: 0 .. MaxTasks, status: {"idle", "running", "succeeded", "failed"}]
      /\ task'.status = "running" => task.status = "running"
  <2>0. logs \in Seq(Nat) /\ Len(logs) <= LogLimit /\ LogLimit \in Nat
    BY ImportAssumption DEF ImportAssumption, ImportInv, TasksOK
  <2>1. CASE Fetch(t)
    <3>1. PICK C \in SUBSET Endpoints :
            jobs' = [jobs EXCEPT ![t].pc = IF C = {} THEN "complete" ELSE "test", ![t].found = C]
      BY <2>1 DEF Fetch
    <3>. DEFINE at == IF C = {} THEN "complete" ELSE "test"
    <3>2. at \in JobPlaces
      BY <1>0
    <3>3. jobs' = [jobs EXCEPT ![t] = [jobs[t] EXCEPT !.pc = at, !.found = C]]
      <4>1. jobs' = [jobs EXCEPT ![t].pc = at, ![t].found = C]
        BY <3>1
      <4>. HIDE DEF at
      <4>. QED
        BY <1>1, <4>1
    <3>. HIDE DEF at
    <3>4. [jobs[t] EXCEPT !.pc = at, !.found = C] \in Job
      BY <1>1, <3>2, JobFinds, Zenon
    <3>5. UNCHANGED <<rows, logs, task>>
      BY <2>1 DEF Fetch
    <3>. QED
      BY <1>1, <1>3, <2>0, <3>3, <3>4, <3>5
  <2>2. CASE Test(t)
    <3>1. PICK r \in [jobs[t].found -> Outcomes] :
            jobs' = [jobs EXCEPT ![t].pc = "persist", ![t].tested = r]
      BY <2>2 DEF Test
    <3>2. r \in Results
      BY <1>1 DEF Results, Job
    <3>3. jobs' = [jobs EXCEPT ![t] = [jobs[t] EXCEPT !.pc = "persist", !.tested = r]]
      BY <1>1, <3>1
    <3>4. "persist" \in JobPlaces
      BY <1>0
    <3>5. [jobs[t] EXCEPT !.pc = "persist", !.tested = r] \in Job
      BY <1>1, <3>2, <3>4, JobTests, Zenon
    <3>6. UNCHANGED <<rows, logs, task>>
      BY <2>2 DEF Test
    <3>. QED
      BY <1>1, <1>3, <2>0, <3>3, <3>5, <3>6
  <2>3. CASE Persist(t)
    <3>1. \E at \in JobPlaces : jobs' = [jobs EXCEPT ![t].pc = at]
      BY <1>0, <2>3 DEF Persist
    <3>2. ImportRowsOK(Imported(rows, jobs[t]))
      BY <1>1, ImportSpares
    <3>3. ImportRowsOK(rows') /\ UNCHANGED <<logs, task>>
      BY <1>1, <2>3, <3>2 DEF Persist
    <3>. QED
      BY <1>1, <1>2, <2>0, <3>1, <3>3
  <2>4. CASE LoadKeys(t)
    <3>1. \E at \in JobPlaces : jobs' = [jobs EXCEPT ![t].pc = at]
      BY <1>0, <2>4 DEF LoadKeys
    <3>2. UNCHANGED <<rows, logs, task>>
      BY <2>4 DEF LoadKeys
    <3>. QED
      BY <1>1, <1>2, <2>0, <3>1, <3>2
  <2>5. CASE End(t)
    <3>1. jobs' = [jobs EXCEPT ![t] = [NoJob EXCEPT !.pc = "log"]] /\ UNCHANGED <<rows, logs>>
      BY <2>5 DEF End
    <3>2. [NoJob EXCEPT !.pc = "log"] \in Job
      BY <1>0, NoJobTyped, JobMoves
    <3>3. /\ task' \in [id: 0 .. MaxTasks, status: {"idle", "running", "succeeded", "failed"}]
          /\ task'.status = "running" => task.status = "running"
      BY <1>1, <2>5 DEF End
    <3>. QED
      BY <1>1, <1>3, <2>0, <3>1, <3>2, <3>3
  <2>6. CASE AppendExecutionLog(t)
    <3>1. jobs' = [jobs EXCEPT ![t] = NoJob] /\ UNCHANGED <<rows, task>>
      BY <2>6 DEF AppendExecutionLog
    <3>2. logs' \in Seq(Nat) /\ Len(logs') <= LogLimit
      <4>. DEFINE all == <<t>> \o logs
                  n == IF Len(all) < LogLimit THEN Len(all) ELSE LogLimit
      <4>1. t \in Nat
        BY ImportAssumption DEF ImportAssumption, Tasks
      <4>2. all \in Seq(Nat) /\ Len(all) \in Nat
        BY <2>0, <4>1
      <4>3. n \in 0 .. Len(all) /\ n <= LogLimit
        BY <2>0, <4>2
      <4>4. logs' = logs \/ logs' = SubSeq(all, 1, n)
        BY <2>6 DEF AppendExecutionLog
      <4>. HIDE DEF all, n
      <4>5. SubSeq(all, 1, n) \in Seq(Nat) /\ Len(SubSeq(all, 1, n)) = n
        BY <4>2, <4>3
      <4>. QED
        BY <2>0, <4>3, <4>4, <4>5
    <3>. QED
      BY <1>1, <1>3, <3>1, <3>2, NoJobTyped
  <2>. QED
    BY <2>1, <2>2, <2>3, <2>4, <2>5, <2>6 DEF Run
<1>6. MinuteOK' /\ CalmOK'
  BY <1>4, <1>5, MinuteKept DEF Around, ImportInv
<1>7. TasksOK'
  BY <1>4, <1>5 DEF Around, ImportInv, TasksOK
<1>. QED
  BY <1>5, <1>6, <1>7 DEF ImportInv

\* The ticker looks, starts the minute's import and records it.
LEMMA TimerKeeps == ASSUME ImportInv, Timer PROVE ImportInv'
<1>1. /\ starts \in Nat /\ excused \in Nat /\ minute \in Nat /\ lastRun \in Minutes \cup {Never}
      /\ Minutes \subseteq Nat /\ times \subseteq Minutes /\ opts \in Choice
  BY ImportAssumption DEF ImportAssumption, ImportInv, MinuteOK, TasksOK
<1>2. CASE RunScheduledIfNeeded
  <2>1. MinuteOK'
    BY <1>1, <1>2 DEF RunScheduledIfNeeded, ImportInv, MinuteOK, Due, storeVars, history
  <2>2. CalmOK'
    BY <1>1, <1>2 DEF RunScheduledIfNeeded, ImportInv, CalmOK, Due, storeVars, history
  <2>. QED
    BY <1>2, <2>1, <2>2 DEF RunScheduledIfNeeded, ImportInv, TasksOK, storeVars, history
<1>3. CASE StartScheduled
  <2>1. CASE Started(opts) /\ timer' = "record" /\ starts' = starts + 1
    <3>1. /\ jobs' \in [Tasks -> Job] /\ task'.status = "running"
          /\ task' \in [id: 0 .. MaxTasks, status: {"idle", "running", "succeeded", "failed"}]
      BY <1>1, <2>1, StartedTask DEF ImportInv
    <3>2. MinuteOK'
      BY <1>1, <1>3, <2>1 DEF StartScheduled, ImportInv, MinuteOK, storeVars
    <3>3. CalmOK'
      BY <1>1, <1>3, <2>1 DEF StartScheduled, ImportInv, CalmOK, storeVars
    <3>. QED
      BY <1>3, <3>1, <3>2, <3>3 DEF StartScheduled, ImportInv, TasksOK, storeVars
  <2>2. CASE task.status = "running" /\ timer' = "idle" /\ UNCHANGED <<task, jobs, starts>>
    <3>1. MinuteOK'
      BY <1>1, <1>3, <2>2 DEF StartScheduled, ImportInv, MinuteOK, storeVars
    <3>2. CalmOK'
      BY <1>1, <1>3, <2>2 DEF StartScheduled, ImportInv, CalmOK, storeVars
    <3>. QED
      BY <1>3, <2>2, <3>1, <3>2 DEF StartScheduled, ImportInv, TasksOK, storeVars
  <2>. QED
    BY <1>3, <2>1, <2>2 DEF StartScheduled
<1>4. CASE RecordLastRun
  <2>1. MinuteOK'
    BY <1>1, <1>4 DEF RecordLastRun, ImportInv, MinuteOK, Event
  <2>2. CalmOK'
    BY <1>1, <1>4 DEF RecordLastRun, ImportInv, CalmOK, Event
  <2>. QED
    BY <1>4, <2>1, <2>2 DEF RecordLastRun, ImportInv, TasksOK, Event
<1>. QED
  BY <1>2, <1>3, <1>4 DEF Timer

\* A new minute.
LEMMA MinuteKeeps == ASSUME ImportInv, NextMinute PROVE ImportInv'
<1>1. /\ starts \in Nat /\ excused \in Nat /\ minute \in Nat /\ lastRun \in Minutes \cup {Never}
      /\ Minutes \subseteq Nat
  BY ImportAssumption DEF ImportAssumption, ImportInv, MinuteOK
<1>2. MinuteOK'
  BY <1>1 DEF NextMinute, ImportInv, MinuteOK, storeVars
<1>3. lastRun' < minute' /\ minute' \in Nat /\ lastRun' \in Int
  <2>1. lastRun <= minute /\ lastRun \in Int
    BY <1>1 DEF ImportInv, CalmOK, Never
  <2>2. lastRun' = lastRun /\ minute' = minute + 1
    BY DEF NextMinute, storeVars
  <2>. QED
    BY <1>1, <2>1, <2>2
<1>4. CalmOK'
  <2>1. lastRun' <= minute' /\ lastRun' # minute'
    BY <1>3
  <2>2. starts' = 0 /\ timer' = "idle" /\ ticked' = FALSE /\ (calm' => task'.status # "running")
    BY DEF NextMinute
  <2>. QED
    BY <2>1, <2>2 DEF CalmOK
<1>. QED
  BY <1>2, <1>4 DEF NextMinute, ImportInv, TasksOK, storeVars

\* An admin starts an import.
LEMMA ManualStartKeeps == ASSUME ImportInv, StartManualImport PROVE ImportInv'
<1>1. PICK o \in Cleanups : Started(o)
  BY DEF StartManualImport
<1>2. /\ jobs' \in [Tasks -> Job]
      /\ task' \in [id: 0 .. MaxTasks, status: {"idle", "running", "succeeded", "failed"}]
  BY <1>1, StartedTask, ImportAssumption DEF ImportAssumption, Choice, ImportInv
<1>3. MinuteOK'
  BY DEF StartManualImport, ImportInv, MinuteOK, storeVars
<1>4. CalmOK'
  BY DEF StartManualImport, ImportInv, CalmOK, storeVars
<1>. QED
  BY <1>2, <1>3, <1>4 DEF StartManualImport, ImportInv, TasksOK, storeVars

\* Admins add, edit, delete, enable, disable and bind.
LEMMA ChangeKeeps == ASSUME ImportInv, ChangeProxies PROVE ImportInv'
<1>1. ImportRowsOK(rows)
  BY DEF ImportInv
<1>2. \A p \in Proxies(rows) : rows.proxies.rows[p] \in FoundRow
  BY <1>1 DEF ImportRowsOK, IsList, Proxies
<1>3. ASSUME NEW e \in Endpoints, rows' = [rows EXCEPT !.proxies = Appended(@, ManualRow(e))]
      PROVE  ImportRowsOK(rows')
  <2>1. ManualRow(e) \in FoundRow
    BY DEF ManualRow, FoundRow
  <2>. QED
    BY <1>1, <1>3, <2>1, FoundRowAdded
<1>4. ASSUME NEW p \in Proxies(rows), NEW e \in Endpoints, rows' = [rows EXCEPT !.proxies.rows[p].port = e]
      PROVE  ImportRowsOK(rows')
  <2>. DEFINE f == [rows.proxies.rows EXCEPT ![p].port = e]
  <2>1. DOMAIN f = Proxies(rows) /\ \A q \in Proxies(rows) : f[q] \in FoundRow
    BY <1>2 DEF Proxies, FoundRow
  <2>2. rows' = [rows EXCEPT !.proxies.rows = f]
    BY <1>4
  <2>. HIDE DEF f
  <2>. QED
    BY <1>1, <2>1, <2>2, FoundRowsSet
<1>5. ASSUME NEW p \in Proxies(rows), rows' = DeleteProxyRows(rows, {p}) PROVE ImportRowsOK(rows')
  BY <1>1, <1>5, FoundRowsDeleted
<1>6. ASSUME NEW p \in Proxies(rows), NEW on \in BOOLEAN, rows' = SetProxyStatus(rows, {p}, on)
      PROVE  ImportRowsOK(rows')
  <2>. DEFINE f == [q \in Proxies(rows) |-> IF q \in {p} THEN [rows.proxies.rows[q] EXCEPT !.on = on]
                                                         ELSE rows.proxies.rows[q]]
  <2>1. DOMAIN f = Proxies(rows) /\ \A q \in Proxies(rows) : f[q] \in FoundRow
    BY <1>2 DEF FoundRow
  <2>2. rows' = [rows EXCEPT !.proxies.rows = f]
    BY <1>6 DEF SetProxyStatus, Proxies
  <2>. HIDE DEF f
  <2>. QED
    BY <1>1, <2>1, <2>2, FoundRowsSet
<1>7. ASSUME NEW k \in Keys(rows), NEW p \in Proxies(rows), rows' = BindKeys(rows, {k}, p)
      PROVE  ImportRowsOK(rows')
  <2>. DEFINE f == [j \in Keys(rows) |-> IF j \in {k} THEN p ELSE rows.api_keys.rows[j]]
              u == [rows EXCEPT !.api_keys.rows = f]
  <2>1. rows' = u
    BY <1>7 DEF BindKeys, Keys
  <2>2. /\ DOMAIN u = DOMAIN rows /\ u.proxies = rows.proxies /\ u.core_profiles = rows.core_profiles
        /\ u.api_keys = [rows.api_keys EXCEPT !.rows = f]
    BY <1>1 DEF ImportRowsOK
  <2>. HIDE DEF u
  <2>3. \A j \in Keys(rows) : f[j] = rows.api_keys.rows[j] \/ f[j] = p
    OBVIOUS
  <2>4. DOMAIN f = Keys(rows) /\ p \in Nat
    BY <1>1 DEF ImportRowsOK, IsList, Proxies
  <2>. HIDE DEF f
  <2>5. IsList(u.api_keys, Nat) /\ u.api_keys.rows = f
    BY <1>1, <2>2, <2>3, <2>4 DEF ImportRowsOK, IsList, Keys
  <2>6. BindingsResolved(u)
    BY <1>1, <2>2, <2>3, <2>4, <2>5 DEF ImportRowsOK, BindingsResolved, ValidReference, Keys, Proxies
  <2>. QED
    BY <1>1, <2>1, <2>2, <2>5, <2>6 DEF ImportRowsOK
<1>8. ImportRowsOK(rows')
  BY <1>3, <1>4, <1>5, <1>6, <1>7 DEF ChangeProxies
<1>9. UNCHANGED <<task, jobs, timer, ticked, minute, starts, excused, times, opts, lastRun, logs, calm>>
  BY DEF ChangeProxies, Besides
<1>10. MinuteOK' /\ CalmOK' /\ TasksOK'
  BY <1>9, MinuteKept DEF ImportInv, TasksOK
<1>. QED
  BY <1>8, <1>10 DEF ImportInv

\* An admin edits the schedule or clears the logs, or the process ends.
LEMMA RestKeeps ==
    ASSUME ImportInv, UpdateSchedule \/ ClearProxyImportLogs \/ Crash PROVE ImportInv'
<1>1. starts \in Nat /\ excused \in Nat /\ minute \in Nat
  BY DEF ImportInv, MinuteOK
<1>2. CASE UpdateSchedule
  <2>1. times' \subseteq Minutes /\ opts' \in Choice
    BY <1>2, ImportAssumption DEF UpdateSchedule, ImportAssumption, Choice
  <2>2. MinuteOK' /\ CalmOK'
    BY <1>2 DEF UpdateSchedule, Besides, ImportInv, MinuteOK, CalmOK
  <2>. QED
    BY <1>2, <2>1, <2>2 DEF UpdateSchedule, Besides, ImportInv, TasksOK
<1>3. CASE ClearProxyImportLogs
  <2>1. MinuteOK' /\ CalmOK'
    BY <1>3, MinuteKept DEF ClearProxyImportLogs, Besides, ImportInv
  <2>2. logs' \in Seq(Nat) /\ Len(logs') <= LogLimit
    BY <1>3, ImportAssumption DEF ClearProxyImportLogs, ImportAssumption
  <2>. QED
    BY <1>3, <2>1, <2>2 DEF ClearProxyImportLogs, Besides, ImportInv, TasksOK
<1>4. CASE Crash
  <2>1. MinuteOK'
    BY <1>1, <1>4 DEF Crash, ImportInv, MinuteOK, storeVars
  <2>2. CalmOK'
    BY <1>4 DEF Crash, ImportInv, CalmOK, storeVars
  <2>3. jobs' \in [Tasks -> Job]
    BY <1>4, NoJobTyped DEF Crash
  <2>4. task' \in [id: 0 .. MaxTasks, status: {"idle", "running", "succeeded", "failed"}]
    BY <1>4 DEF Crash, ImportInv, TasksOK
  <2>. QED
    BY <1>4, <2>1, <2>2, <2>3, <2>4 DEF Crash, ImportInv, TasksOK, storeVars
<1>. QED
  BY <1>2, <1>3, <1>4

(* So every step of the imports keeps the invariant.                       *)
LEMMA ImportStepKeeps == ImportInv /\ [ImportNext]_importVars => ImportInv'
<1>. SUFFICES ASSUME ImportInv, [ImportNext]_importVars PROVE ImportInv'
  OBVIOUS
<1>1. CASE UNCHANGED importVars
  BY <1>1, MinuteKept DEF importVars, storeVars, history, ImportInv, TasksOK
<1>2. CASE ImportNext
  BY <1>2, RunKeeps, TimerKeeps, MinuteKeeps, ManualStartKeeps, ChangeKeeps, RestKeeps DEF ImportNext
<1>. QED
  BY <1>1, <1>2

\* However admins, the schedule, failures and restarts fall together, a scheduled minute
\* starts one import, and one more only for each fault that excuses it.
THEOREM OncePerMinuteHolds == ImportSpec => []OncePerMinute
<1>1. ASSUME ImportInv PROVE OncePerMinute
  <2>1. starts <= 1 + excused
    BY <1>1 DEF ImportInv, MinuteOK
  <2>2. ImportTypeOK
    <3>1. \A p \in Proxies(rows) : rows.proxies.rows[p] \in FoundRow /\ p < rows.proxies.next
      BY <1>1 DEF ImportInv, ImportRowsOK, IsList, Proxies
    <3>2. \A k \in Keys(rows) : k < rows.api_keys.next
      BY <1>1 DEF ImportInv, ImportRowsOK, IsList, Keys
    <3>3. Profiles(rows) = {}
      BY <1>1 DEF ImportInv, ImportRowsOK, DefaultList, NoRows, Profiles
    <3>4. IdsBelowNext(rows)
      BY <3>1, <3>2, <3>3 DEF IdsBelowNext
    <3>5. \A t \in Tasks : jobs[t].pc \in {"none", "fetch", "test", "persist", "load", "fail", "complete", "log"}
      BY <1>1 DEF ImportInv, TasksOK, Job, JobPlaces
    <3>6. task.id \in 0 .. MaxTasks /\ task.status \in {"idle", "running", "succeeded", "failed"}
      BY <1>1 DEF ImportInv, TasksOK
    <3>7. times \subseteq Minutes /\ Len(logs) <= LogLimit
      BY <1>1 DEF ImportInv, TasksOK
    <3>8. lastRun \in Minutes \cup {Never} /\ timer \in {"idle", "due", "record"}
      BY <1>1 DEF ImportInv, MinuteOK
    <3>. QED
      BY <3>1, <3>4, <3>5, <3>6, <3>7, <3>8, Zenon DEF ImportTypeOK, FoundRow
  <2>. QED
    BY <2>1, <2>2 DEF OncePerMinute
<1>. QED
  BY <1>1, ImportInitHolds, ImportStepKeeps, PTL DEF ImportSpec

\* A minute of the schedule that nothing disturbs does not end without its import.
THEOREM ScheduledMinutesAreServed == ImportSpec => ScheduledMinuteServed
<1>1. ASSUME ImportInv, [ImportNext]_importVars
      PROVE  [minute' # minute /\ calm /\ minute \in times /\ task.id < MaxTasks => starts = 1]_importVars
  <2>1. ASSUME NEW t \in Tasks, Run(t) PROVE minute' = minute
    BY <2>1 DEF Run, Fetch, Test, Persist, LoadKeys, End, AppendExecutionLog, Around
  <2>2. ASSUME Timer PROVE minute' = minute
    BY <2>2 DEF Timer, RunScheduledIfNeeded, StartScheduled, RecordLastRun
  <2>3. ASSUME StartManualImport \/ ChangeProxies \/ UpdateSchedule \/ ClearProxyImportLogs \/ Crash
        PROVE  minute' = minute
    BY <2>3 DEF StartManualImport, ChangeProxies, UpdateSchedule, ClearProxyImportLogs, Crash, Besides
  <2>4. ASSUME NextMinute, calm, minute \in times PROVE starts = 1
    BY <1>1, <2>4 DEF NextMinute, ImportInv, CalmOK
  <2>5. ASSUME UNCHANGED importVars PROVE minute' = minute
    BY <2>5 DEF importVars
  <2>. QED
    BY <1>1, <2>1, <2>2, <2>3, <2>4, <2>5 DEF ImportNext
<1>. QED
  BY <1>1, ImportInitHolds, ImportStepKeeps, PTL DEF ImportSpec, ScheduledMinuteServed

(* What the step that writes an import leaves alone.                       *)
Spared(t) ==
    jobs[t].pc = "persist" /\ jobs'[t].pc \in {"load", "complete"} =>
      /\ \A p \in Proxies(rows) : rows.proxies.rows[p].by = "manual" =>
           /\ p \in Proxies(rows')
           /\ rows'.proxies.rows[p].on = rows.proxies.rows[p].on
           /\ \A k \in Keys(rows) : rows.api_keys.rows[k] = p => rows'.api_keys.rows[k] = p
      /\ BindingsResolved(rows')
      /\ jobs[t].opts.enabled => \A p \in Proxies(rows') :
           rows'.proxies.rows[p].by = "auto" => rows'.proxies.rows[p].test # "slow"

\* No import, whatever it finds and however the store was edited while it tested, takes a
\* proxy or a binding of an admin away, dangles one, or leaves what it was told to clean.
THEOREM ImportsSpareManual == ImportSpec => ImportSparesManual
<1>1. ASSUME ImportInv, ImportNext, NEW t \in Tasks PROVE Spared(t)
  <2>. SUFFICES ASSUME jobs[t].pc = "persist", jobs'[t].pc \in {"load", "complete"} PROVE Spared(t)
    BY DEF Spared
  <2>1. jobs \in [Tasks -> Job]
    BY <1>1 DEF ImportInv, TasksOK
  <2>2. ASSUME NEW r \in Tasks, Run(r) PROVE Persist(t) /\ rows' = Imported(rows, jobs[t])
    <3>1. r = t
      <4>. SUFFICES ASSUME r # t PROVE FALSE
        OBVIOUS
      <4>1. jobs'[t] = jobs[t]
        BY <2>1, <2>2 DEF Run, Fetch, Test, Persist, LoadKeys, End, AppendExecutionLog
      <4>. QED
        BY <4>1
    <3>2. Persist(t)
      BY <2>2, <3>1 DEF Run, Fetch, Test, LoadKeys, End, AppendExecutionLog
    <3>3. jobs'[t].pc # "fail"
      OBVIOUS
    <3>4. rows' = Imported(rows, jobs[t]) \/ jobs' = [jobs EXCEPT ![t].pc = "fail"]
      BY <3>2 DEF Persist
    <3>5. jobs' # [jobs EXCEPT ![t].pc = "fail"]
      <4>1. jobs[t] \in Job
        BY <2>1
      <4>2. [jobs EXCEPT ![t].pc = "fail"][t].pc = "fail"
        BY <2>1, <4>1 DEF Job
      <4>. QED
        BY <3>3, <4>2
    <3>. QED
      BY <3>2, <3>4, <3>5
  <2>3. ~Timer
    <3>1. ASSUME Started(opts) PROVE FALSE
      <4>1. opts \in Choice /\ TasksOK
        BY <1>1 DEF ImportInv, TasksOK
      <4>. QED
        BY <3>1, <4>1, StartedTask
    <3>2. jobs' # jobs
      OBVIOUS
    <3>. QED
      BY <3>1, <3>2 DEF Timer, RunScheduledIfNeeded, StartScheduled, RecordLastRun
  <2>4. ~StartManualImport
    <3>1. ASSUME NEW o \in Cleanups, Started(o) PROVE FALSE
      <4>1. o \in Choice /\ TasksOK
        BY <1>1, ImportAssumption DEF ImportInv, ImportAssumption, Choice
      <4>. QED
        BY <3>1, <4>1, StartedTask
    <3>. QED
      BY <3>1 DEF StartManualImport
  <2>5. jobs' # jobs
    OBVIOUS
  <2>6. ~Crash
    BY DEF Crash, NoJob
  <2>7. ~NextMinute /\ ~ChangeProxies /\ ~UpdateSchedule /\ ~ClearProxyImportLogs
    BY <2>5 DEF NextMinute, ChangeProxies, UpdateSchedule, ClearProxyImportLogs, Besides
  <2>8. rows' = Imported(rows, jobs[t])
    BY <1>1, <2>2, <2>3, <2>4, <2>6, <2>7 DEF ImportNext
  <2>9. ImportRowsOK(rows) /\ jobs[t] \in Job
    BY <1>1, <2>1 DEF ImportInv
  <2>. QED
    BY <2>8, <2>9, ImportSpares DEF Spared, ImportRowsOK
<1>2. ASSUME ImportInv, [ImportNext]_importVars PROVE [\A t \in Tasks : Spared(t)]_importVars
  BY <1>1, <1>2
<1>. QED
  BY <1>2, ImportInitHolds, ImportStepKeeps, PTL DEF ImportSpec, ImportSparesManual, Spared
=============================================================================
