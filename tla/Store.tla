------------------------------- MODULE Store -------------------------------
(***************************************************************************)
(* pkg/db: the store in memory (storeCache) and in its ten files.  An      *)
(* update holds storeMu from the clone of the cache to the replacement of  *)
(* the last file; readers take the cache without a lock.  The process may  *)
(* end between any two replacements.  Start-up takes over the files of     *)
(* older releases: flat files, which are moved, and a single JSON store,   *)
(* which is split.                                                         *)
(***************************************************************************)
EXTENDS StoreRows, Sequences

CONSTANTS
    Legacies,        \* data directories the first start may find
    Settings,        \* files of settings that admins change here
    RenameRefused,   \* os.Rename may refuse to replace a file (Windows)
    MaxKeys, MaxProxies, MaxProfiles,   \* bounds: ids given out
    MaxCrashes, MaxFailures,            \* bounds: ends of the process, writes and renames that fail
    None

\* Mutant: the proxies' file is replaced before the keys'.
ProxiesFirst ==
    <<"proxies", "api_keys", "master_keys", "core_profiles", "system_config",
      "external_proxy_sources", "proxy_import_schedule", "proxy_import_logs",
      "health_state", "model_catalog">>

(* writeStoreUnlocked *)
WriteOrder ==
    <<"api_keys", "proxies", "master_keys", "core_profiles", "system_config",
      "external_proxy_sources", "proxy_import_schedule", "proxy_import_logs",
      "health_state", "model_catalog">>
Files == Range(WriteOrder)
Lists == {"api_keys", "proxies", "core_profiles"}
Opaque == Files \ DOMAIN DefaultRows      \* 0: the default, 1: anything else

Default == [f \in Files |-> IF f \in Opaque THEN 0 ELSE DefaultRows[f]]

(* A directory is a function from the names of the files it holds.  A file *)
(* is empty, as a power failure leaves it (NUL bytes included), or <<x>>,  *)
(* where x is its part of the store.                                       *)
IsPart(f, x) ==
    IF f \in Lists THEN IsList(x, RowsOf[f]) ELSE x \in IF f \in Opaque THEN {0, 1} ELSE Nat
IsStore(s) == DOMAIN s = Files /\ \A f \in Files : IsPart(f, s[f])
IsDirectory(dir) ==
    /\ DOMAIN dir \subseteq Files
    /\ \A f \in DOMAIN dir : dir[f] = << >> \/ (dir[f] = <<dir[f][1]>> /\ IsPart(f, dir[f][1]))

(* readJSONFile: an absent file and a blank one read as the default. *)
Content(dir, f) == IF f \in DOMAIN dir /\ dir[f] # << >> THEN dir[f][1] ELSE Default[f]

(* What an older release left is taken over where the store has no file of *)
(* that name; its single JSON store only if there is nothing else.         *)
Kept(dir, flat) == [f \in Files |-> Content(IF f \in DOMAIN dir THEN dir ELSE flat, f)]
JsonOnly(dir, flat, at) == at = "data" /\ DOMAIN dir = {} /\ DOMAIN flat = {}

(* What a directory promises to the start that finds it. *)
Promise(l) == IF JsonOnly(l.disk, l.old, l.jsonAt) THEN l.json ELSE Kept(l.disk, l.old)

ASSUME StoreAssumption ==
    /\ Settings \subseteq Opaque
    /\ RenameRefused \in BOOLEAN
    /\ {MaxKeys, MaxProxies, MaxProfiles, MaxCrashes, MaxFailures} \subseteq Nat

ASSUME LegaciesAssumption ==
    \A l \in Legacies :
        /\ IsDirectory(l.disk) /\ IsDirectory(l.old) /\ IsStore(l.json)
        /\ l.jsonAt \in {"none", "data", "store"}
        /\ BindingsResolved(Promise(l))

VARIABLES
    disk,        \* the directory of the store
    old,         \* the flat files of an older release
    json, jsonAt, \* the JSON store of an older release, and where it lies
    cache,       \* storeCache
    phase,       \* where start-up is, or "up"
    job,         \* the write in progress, under storeMu
    crashes, failures,
    promised,    \* history: what readers saw last, or what the directory held at first
    tried, lost, \* history: stores attempted, and files taken away, since the last commit
    issued,      \* history: proxy ids that readers have seen
    faults       \* history: what has gone wrong so far

legacyVars == <<old, json, jsonAt>>
historyVars == <<promised, tried, lost, issued, faults>>
vars == <<disk, legacyVars, cache, phase, job, crashes, failures, historyVars>>

(* hasExistingDataFiles looks for any *.json in the store's directory. *)
HasData == DOMAIN disk # {} \/ jsonAt = "store"

Idle == [to |-> None, at |-> 0, removed |-> FALSE]
Writing(s) == [to |-> s, at |-> 1, removed |-> FALSE]

Init ==
    /\ \E l \in Legacies :
         /\ disk = l.disk /\ old = l.old /\ json = l.json /\ jsonAt = l.jsonAt
         /\ promised = Promise(l)
    /\ cache = None
    /\ phase = "down"
    /\ job = Idle
    /\ crashes = 0 /\ failures = 0
    /\ tried = {}
    /\ lost = IF JsonOnly(disk, old, jsonAt) THEN Files ELSE {}
    /\ issued = {}
    /\ faults = {}

---------------------------------------------------------------------------
(* Start-up: ensureStoreLayout, then the first ReadStore. *)

Start ==
    /\ phase = "down"
    /\ phase' = "moving"
    /\ UNCHANGED <<disk, legacyVars, cache, job, crashes, failures, historyVars>>

Movable(f) == f \in DOMAIN old \ DOMAIN disk

(* migrateLegacyDataFiles ranges over a map: any order. *)
MoveLegacyFile(f) ==
    /\ phase = "moving"
    /\ Movable(f)
    /\ disk' = Put(disk, f, old[f])
    /\ old' = Without(old, {f})
    /\ UNCHANGED <<json, jsonAt, cache, phase, job, crashes, failures, historyVars>>

Layout ==
    /\ phase = "moving"
    /\ \A f \in Files : ~Movable(f)
    /\ IF HasData THEN phase' = "ensure" /\ UNCHANGED job
       ELSE phase' = "create" /\ job' = Writing(IF jsonAt = "data" THEN json ELSE Default)
    /\ UNCHANGED <<disk, legacyVars, cache, crashes, failures, historyVars>>

(* The end of the write that created the store; a JSON store is renamed    *)
(* out of the way only now.                                                *)
Created ==
    /\ phase = "create"
    /\ job.at > Len(WriteOrder)
    /\ cache' = job.to
    /\ job' = Idle
    /\ jsonAt' = IF jsonAt = "data" THEN "none" ELSE jsonAt
    /\ phase' = "ensure"
    /\ UNCHANGED <<disk, old, json, crashes, failures, historyVars>>

(* ensureDefaultFiles goes through the files in the order of a write. *)
EnsureFile(n) ==
    /\ phase = "ensure"
    /\ WriteOrder[n] \notin DOMAIN disk
    /\ \A i \in 1 .. n - 1 : WriteOrder[i] \in DOMAIN disk
    /\ disk' = Put(disk, WriteOrder[n], <<Default[WriteOrder[n]]>>)
    /\ UNCHANGED <<legacyVars, cache, phase, job, crashes, failures, historyVars>>

(* ReadStore: from the cache if the start filled it, else from the files. *)
Open ==
    /\ phase = "ensure"
    /\ DOMAIN disk = Files
    /\ cache' = IF cache # None THEN cache ELSE [f \in Files |-> Content(disk, f)]
    /\ phase' = "up"
    /\ promised' = cache'
    /\ tried' = {} /\ lost' = {}
    /\ issued' = issued \cup Proxies(cache')
    /\ UNCHANGED <<disk, legacyVars, job, crashes, failures, faults>>

---------------------------------------------------------------------------
(* Updates *)

(* What the admin handlers' mutators make of the store. *)
Rebindings(s) == UNION {{BindKeys(s, {k}, p) : k \in Keys(s)} : p \in Proxies(s) \cup {0}}
KeyUpdates(s) ==
    {AddKeyRow(s, p) : p \in IF s.api_keys.next > MaxKeys THEN {} ELSE Proxies(s) \cup {0}}
    \cup Rebindings(s)
    \cup {DeleteKeyRow(s, k) : k \in Keys(s)}
ProxyUpdates(s) ==
    (IF s.proxies.next > MaxProxies THEN {} ELSE {AddProxyRow(s)})
    \cup {DeleteProxyRows(s, {p}) : p \in {q \in Proxies(s) : Editable(s, q)}}
    \cup {SetSystemProxy(s, p) : p \in Proxies(s) \cup {0}}
ProfileUpdates(s) ==
    (IF s.core_profiles.next > MaxProfiles THEN {} ELSE {AddProfileRow(s, 0, TRUE)})
    \cup {DeleteProfileRows(s, {c}) : c \in Profiles(s)}
    \cup (IF s.proxies.next > MaxProxies THEN {} ELSE {SyncProfiles(s)})
SettingUpdates(s) == {[s EXCEPT ![f] = 1 - @] : f \in Settings}
Updates(s) == KeyUpdates(s) \cup ProxyUpdates(s) \cup ProfileUpdates(s) \cup SettingUpdates(s)

\* Mutant: the cache is refreshed before the files are written.
BeginUpdateCached ==
    /\ phase = "up"
    /\ job = Idle
    /\ \E s \in Updates(cache) :
         job' = Writing(s) /\ tried' = tried \cup {s} /\ cache' = s
    /\ UNCHANGED <<disk, legacyVars, phase, crashes, failures, promised, lost, issued, faults>>

BeginUpdate ==
    /\ phase = "up"
    /\ job = Idle
    /\ \E s \in Updates(cache) : job' = Writing(s) /\ tried' = tried \cup {s}
    /\ UNCHANGED <<disk, legacyVars, cache, phase, crashes, failures, promised, lost, issued, faults>>

File == WriteOrder[job.at]
InWrite == job # Idle /\ job.at <= Len(WriteOrder)

(* writeDataFile: the new content is on the disk before it gets its name. *)
Replace ==
    /\ InWrite
    /\ disk' = Put(disk, File, <<job.to[File]>>)
    /\ job' = [job EXCEPT !.at = @ + 1, !.removed = FALSE]
    /\ lost' = IF phase = "up" /\ job.removed THEN lost \ {File} ELSE lost
    /\ UNCHANGED <<legacyVars, cache, phase, crashes, failures, promised, tried, issued, faults>>

(* Its fallback removes the target first. *)
Remove ==
    /\ InWrite
    /\ RenameRefused
    /\ ~job.removed
    /\ failures < MaxFailures
    /\ failures' = failures + 1
    /\ disk' = Without(disk, {File})
    /\ job' = [job EXCEPT !.removed = TRUE]
    /\ lost' = lost \cup {File}
    /\ UNCHANGED <<legacyVars, cache, phase, crashes, promised, tried, issued, faults>>

(* UpdateStore returns the error: the cache stays, the files that were     *)
(* replaced stay replaced.  During start-up the process ends instead.      *)
FailWrite ==
    /\ InWrite
    /\ phase = "up"
    /\ failures < MaxFailures
    /\ failures' = failures + 1
    /\ job' = Idle
    /\ faults' = faults \cup {"write"}
    /\ UNCHANGED <<disk, legacyVars, cache, phase, crashes, promised, tried, lost, issued>>

Commit ==
    /\ phase = "up"
    /\ job # Idle
    /\ job.at > Len(WriteOrder)
    /\ cache' = job.to
    /\ job' = Idle
    /\ promised' = job.to
    /\ tried' = {} /\ lost' = {}
    /\ issued' = issued \cup Proxies(job.to)
    /\ faults' = faults \ {"write"}
    /\ UNCHANGED <<disk, legacyVars, phase, crashes, failures>>

(* The process ends, or start-up fails on a file (log.Fatalf). *)
Crash ==
    /\ phase # "down"
    /\ crashes < MaxCrashes
    /\ crashes' = crashes + 1
    /\ phase' = "down"
    /\ cache' = None
    /\ job' = Idle
    /\ faults' = faults \cup (IF lost # {} THEN {"lost"} ELSE {})
                        \cup (IF "write" \in faults THEN {"torn"} ELSE {})
    /\ UNCHANGED <<disk, legacyVars, failures, promised, tried, lost, issued>>

Boot ==
    \/ Start
    \/ \E f \in Files : MoveLegacyFile(f)
    \/ Layout
    \/ Created
    \/ \E n \in DOMAIN WriteOrder : EnsureFile(n)
    \/ Open
Update == BeginUpdate \/ Replace \/ Remove \/ FailWrite \/ Commit

Next == Boot \/ Update \/ Crash

Spec == Init /\ [][Next]_vars

---------------------------------------------------------------------------
TypeOK ==
    /\ phase \in {"down", "moving", "create", "ensure", "up"}
    /\ jsonAt \in {"none", "data", "store"}
    /\ job = Idle \/ (DOMAIN job.to = Files /\ job.at \in 1 .. Len(WriteOrder) + 1)
    /\ cache = None \/ DOMAIN cache = Files
    /\ phase = "up" => DOMAIN cache = Files
    /\ DOMAIN disk \subseteq Files /\ DOMAIN old \subseteq Files
    /\ \A s \in tried : DOMAIN s = Files
    /\ lost \subseteq Files /\ issued \subseteq Nat /\ faults \subseteq {"write", "torn", "lost"}

(* What a start may find where a file was lost.                            *)
Leftovers ==
    [f \in Files |-> {Default[f]} \cup {Content(l.old, f) : l \in Legacies}
                     \cup {l.json[f] : l \in {m \in Legacies : m.jsonAt = "data"}}]

(* The files on the disk, and the cache, implement a register that a crash *)
(* at any point of an update or of start-up leaves explicable: readers     *)
(* never see half an update, a failed update leaves no trace while the     *)
(* process lives, and a restart finds no file from before the last commit. *)
Register ==
    INSTANCE CrashRegister WITH
        Parts <- Files, Fallbacks <- Leftovers,
        value <- IF phase = "up" THEN cache ELSE promised,
        tried <- tried, lost <- lost, serving <- phase = "up"
ImplementsRegister == Register!Spec

(* However an update was cut off by a crash, no key is left bound to a     *)
(* proxy that is gone: the keys' file is replaced before the proxies'.     *)
(* Only a crash after a failed write, whose half is on the disk while the  *)
(* cache still had the old rows, or a file lost in the fallback breaks it. *)
BindingsResolve ==
    /\ TypeOK
    /\ phase = "up" /\ faults \subseteq {"write"} => BindingsResolved(cache)

(* A proxy id that readers have seen never comes to mean another proxy,    *)
(* not even after a crash: the counter lies in the file of its rows, so    *)
(* that bindings and the system's proxy id cannot be inherited.            *)
IdsNotReused == phase = "up" /\ "lost" \notin faults => \A p \in issued : p < cache.proxies.next
=============================================================================
