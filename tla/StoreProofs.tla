----------------------------- MODULE StoreProofs -----------------------------
(***************************************************************************)
(* Theorems about Store: the files and the cache implement CrashRegister,  *)
(* bindings resolve after crashes, and ids are not given out twice.        *)
(***************************************************************************)
EXTENDS Store, StoreRowsProofs

(* What the register lets a part come back as. *)
Explained(f) ==
    {promised[f]} \cup {t[f] : t \in tried} \cup (IF f \in lost THEN Leftovers[f] ELSE {})

DiskOK ==
    /\ DOMAIN disk \subseteq Files
    /\ \A f \in Files : Kept(disk, old)[f] \in Explained(f)

(* What is left of an older release is as it was found, and its JSON store *)
(* is read only while nothing else was promised.                           *)
OldOK ==
    /\ \E l \in Legacies :
         /\ json = l.json /\ jsonAt \in {l.jsonAt, "none"}
         /\ \A f \in DOMAIN old : f \in DOMAIN l.old /\ old[f] = l.old[f]
    /\ JsonOnly(disk, old, jsonAt) => Files \subseteq lost

(* The files before the one at which a write is have been replaced. *)
JobOK ==
    /\ job = [to |-> job.to, at |-> job.at, removed |-> job.removed]
    /\ job # Idle =>
         /\ phase \in {"create", "up"} /\ job.at \in 1 .. 11
         /\ \A i \in 1 .. 10 : i < job.at =>
              WriteOrder[i] \in DOMAIN disk /\ disk[WriteOrder[i]] = <<job.to[WriteOrder[i]]>>
         /\ phase = "up" => job.to \in tried

UpOK == phase = "up" => cache = promised /\ \A f \in Files \ DOMAIN disk : f \in lost

(* A store that start-up creates is the JSON store of an older release or  *)
(* the default; a cache that start-up has filled is what the files hold.   *)
StartOK ==
    /\ phase # "up" /\ cache # None =>
         phase = "ensure" /\ \A f \in Files : f \in DOMAIN disk /\ disk[f] = <<cache[f]>>
    /\ phase = "create" =>
         /\ job # Idle /\ DOMAIN old = {}
         /\ IF jsonAt = "data" THEN job.to = json /\ Files \subseteq lost
            ELSE job.to = Default /\ \A f \in DOMAIN disk : disk[f] = <<Default[f]>>
    /\ phase = "ensure" =>
         DOMAIN old \subseteq DOMAIN disk /\ (jsonAt # "data" \/ DOMAIN disk # {})

RegisterInv == DiskOK /\ OldOK /\ JobOK /\ UpOK /\ StartOK

---------------------------------------------------------------------------
(* What was read, cached, promised and is being written are stores. *)
StoresOK ==
    /\ IsDirectory(disk) /\ IsDirectory(old) /\ IsStore(json)
    /\ IsStore(promised) /\ \A t \in tried : IsStore(t)
    /\ job # Idle => IsStore(job.to)
    /\ cache = None \/ IsStore(cache)

(* Where start-up may be, and what the histories hold. *)
Ranges ==
    /\ phase \in {"down", "moving", "create", "ensure", "up"}
    /\ lost \subseteq Files /\ issued \subseteq Nat /\ faults \subseteq {"write", "torn", "lost"}

(* While nothing went wrong, what a start will open resolves.  The files   *)
(* before the one that a write is at are the new ones, the rest the        *)
(* cache's, and the new keys resolve in the old proxies too.               *)
KeysResolveIn(s, t) == \A k \in Keys(s) : ValidReference(t, s.api_keys.rows[k])
Progress(i) == job # Idle /\ i < job.at
Resolving ==
    /\ phase # "up" /\ faults \subseteq {"write"} => faults = {}
    /\ phase \in {"down", "moving", "ensure"} /\ faults = {} =>
         BindingsResolved(IF JsonOnly(disk, old, jsonAt) THEN json ELSE Kept(disk, old))
    /\ phase = "create" /\ faults = {} => BindingsResolved(job.to)
    /\ phase = "up" /\ faults \subseteq {"write"} =>
         /\ BindingsResolved(cache)
         /\ job # Idle => BindingsResolved(job.to) /\ KeysResolveIn(job.to, cache)
    /\ phase = "up" /\ faults = {} =>
         \A i \in 1 .. 10 : LET f == WriteOrder[i] IN
             Progress(i) \/ f \in lost \/ Content(disk, f) = cache[f]

(* No file can bring a counter back that ids were given out from since. *)
Issuing ==
    "lost" \notin faults =>
        /\ \A p \in issued : p \in Nat /\ p < promised.proxies.next
        /\ \A t \in tried : \A p \in issued : p < t.proxies.next
        /\ phase # "up" /\ issued # {} =>
             lost = {} /\ DOMAIN disk = Files /\ phase # "create"

StoreInv == RegisterInv /\ StoresOK /\ Ranges /\ Resolving /\ Issuing

---------------------------------------------------------------------------
(* The names of the files. *)
LEMMA Names ==
    /\ Files = {"api_keys", "proxies", "master_keys", "core_profiles", "system_config",
                "external_proxy_sources", "proxy_import_schedule", "proxy_import_logs",
                "health_state", "model_catalog"}
    /\ Len(WriteOrder) = 10 /\ DOMAIN WriteOrder = 1 .. 10
    /\ \A i \in 1 .. 10 : WriteOrder[i] \in Files
    /\ \A f \in Files : \E i \in 1 .. 10 : f = WriteOrder[i]
    /\ \A i, j \in 1 .. 10 : WriteOrder[i] = WriteOrder[j] => i = j
    /\ WriteOrder[1] = "api_keys" /\ WriteOrder[2] = "proxies"
<1>1. Len(WriteOrder) = 10 /\ DOMAIN WriteOrder = 1 .. 10
  BY DEF WriteOrder
<1>2. \A f \in Files : \E i \in 1 .. 10 : f = WriteOrder[i]
  BY <1>1 DEF Files, Range
<1>3. \A i \in 1 .. 10 : WriteOrder[i] \in Files
  BY <1>1 DEF Files, Range
<1>4. \A i \in 1 .. 10 : i \in {1, 2, 3, 4, 5, 6, 7, 8, 9, 10}
  OBVIOUS
<1>5. /\ WriteOrder[1] = "api_keys" /\ WriteOrder[2] = "proxies" /\ WriteOrder[3] = "master_keys"
      /\ WriteOrder[4] = "core_profiles" /\ WriteOrder[5] = "system_config"
      /\ WriteOrder[6] = "external_proxy_sources" /\ WriteOrder[7] = "proxy_import_schedule"
      /\ WriteOrder[8] = "proxy_import_logs" /\ WriteOrder[9] = "health_state"
      /\ WriteOrder[10] = "model_catalog"
  BY DEF WriteOrder
<1>6. \A i, j \in 1 .. 10 : WriteOrder[i] = WriteOrder[j] => i = j
  BY <1>4, <1>5
<1>7. Files = {"api_keys", "proxies", "master_keys", "core_profiles", "system_config",
               "external_proxy_sources", "proxy_import_schedule", "proxy_import_logs",
               "health_state", "model_catalog"}
  BY <1>2, <1>3, <1>4, <1>5
<1>. QED
  BY <1>1, <1>2, <1>3, <1>5, <1>6, <1>7

(* What is kept of a file depends on that file only. *)
LEMMA KeptOf ==
    ASSUME NEW dir, NEW flat, NEW f \in Files
    PROVE  /\ f \in DOMAIN dir => Kept(dir, flat)[f] = Content(dir, f)
           /\ f \notin DOMAIN dir => Kept(dir, flat)[f] = Content(flat, f)
BY DEF Kept

\* What a file is read as depends on that file of the directory only.
LEMMA ContentOf ==
    ASSUME NEW dir, NEW f
    PROVE  /\ f \notin DOMAIN dir => Content(dir, f) = Default[f]
           /\ \A x : f \in DOMAIN dir /\ dir[f] = <<x>> => Content(dir, f) = x
           /\ \A other : f \in DOMAIN dir /\ f \in DOMAIN other /\ dir[f] = other[f]
                         => Content(dir, f) = Content(other, f)
BY DEF Content

(* What a lost file comes back as is among the leftovers. *)
LEMMA LeftOver ==
    ASSUME OldOK, NEW f \in Files
    PROVE  /\ Default[f] \in Leftovers[f] /\ Content(old, f) \in Leftovers[f]
           /\ jsonAt = "data" => json[f] \in Leftovers[f]
<1>1. PICK l \in Legacies : /\ json = l.json /\ jsonAt \in {l.jsonAt, "none"}
                            /\ \A g \in DOMAIN old : g \in DOMAIN l.old /\ old[g] = l.old[g]
  BY DEF OldOK
<1>2. Default[f] \in Leftovers[f]
  BY DEF Leftovers
<1>3. Content(l.old, f) \in Leftovers[f]
  BY DEF Leftovers
<1>4. Content(old, f) \in {Content(l.old, f), Default[f]}
  BY <1>1, ContentOf
<1>5. jsonAt = "data" => json[f] \in Leftovers[f]
  BY <1>1 DEF Leftovers
<1>. QED
  BY <1>2, <1>3, <1>4, <1>5

\* An older release has left files of the known names only.
LEMMA OldNames == ASSUME OldOK PROVE DOMAIN old \subseteq Files
BY LegaciesAssumption DEF OldOK, LegaciesAssumption, IsDirectory

---------------------------------------------------------------------------
(* The files and the cache implement the register. *)

\* The first start finds what the directory promised.
LEMMA RegisterInit == Init => RegisterInv
<1>. SUFFICES ASSUME Init PROVE RegisterInv
  OBVIOUS
<1>1. PICK l \in Legacies : /\ disk = l.disk /\ old = l.old /\ json = l.json /\ jsonAt = l.jsonAt
                            /\ promised = Promise(l)
  BY DEF Init
<1>2. IF JsonOnly(disk, old, jsonAt) THEN promised = json /\ lost = Files
      ELSE promised = Kept(disk, old) /\ lost = {}
  BY <1>1 DEF Init, Promise
<1>3. OldOK
  BY <1>1, <1>2 DEF OldOK
<1>4. DiskOK
  <2>1. DOMAIN disk \subseteq Files
    BY <1>1, LegaciesAssumption DEF LegaciesAssumption, IsDirectory
  <2>2. ASSUME NEW f \in Files PROVE Kept(disk, old)[f] \in Explained(f)
    <3>1. CASE JsonOnly(disk, old, jsonAt)
      <4>1. Kept(disk, old)[f] = Default[f] /\ f \in lost
        BY <3>1, <1>2, KeptOf, ContentOf DEF JsonOnly
      <4>. QED
        BY <4>1, <1>3, LeftOver DEF Explained
    <3>2. CASE ~JsonOnly(disk, old, jsonAt)
      BY <3>2, <1>2 DEF Explained
    <3>. QED
      BY <3>1, <3>2
  <2>. QED
    BY <2>1, <2>2 DEF DiskOK
<1>5. JobOK /\ UpOK /\ StartOK
  BY DEF Init, JobOK, UpOK, StartOK, Idle
<1>. QED
  BY <1>3, <1>4, <1>5 DEF RegisterInv

\* Starting touches no file.
LEMMA StartKeeps == ASSUME RegisterInv, Start PROVE RegisterInv'
<1>1. DiskOK' /\ OldOK'
  BY DEF Start, RegisterInv, DiskOK, OldOK, Explained, legacyVars, historyVars
<1>2. JobOK' /\ UpOK' /\ StartOK'
  BY DEF Start, RegisterInv, JobOK, UpOK, StartOK, legacyVars, historyVars
<1>. QED
  BY <1>1, <1>2 DEF RegisterInv

\* A legacy file that is moved is read as it was where it lay.
LEMMA MoveKeeps == ASSUME RegisterInv, NEW g \in Files, MoveLegacyFile(g) PROVE RegisterInv'
<1>1. /\ g \in DOMAIN old /\ g \notin DOMAIN disk /\ phase = "moving" /\ phase' = phase
      /\ disk' = Put(disk, g, old[g]) /\ old' = Without(old, {g})
      /\ UNCHANGED <<json, jsonAt, cache, job, promised, tried, lost>>
  BY DEF MoveLegacyFile, Movable, historyVars
<1>2. /\ DOMAIN disk' = DOMAIN disk \cup {g} /\ disk'[g] = old[g]
      /\ \A f \in DOMAIN disk : disk'[f] = disk[f]
      /\ DOMAIN old' = DOMAIN old \ {g} /\ \A f \in DOMAIN old' : old'[f] = old[f]
  BY <1>1 DEF Put, Without, Restrict
<1>3. ASSUME NEW f \in Files PROVE Kept(disk', old')[f] = Kept(disk, old)[f]
  <2>1. CASE f \in DOMAIN disk'
    BY <2>1, <1>1, <1>2, KeptOf, ContentOf
  <2>2. CASE f \notin DOMAIN disk'
    <3>1. f \notin DOMAIN disk /\ f # g
      BY <2>2, <1>2
    <3>2. Content(old', f) = Content(old, f)
      BY <3>1, <1>2, ContentOf
    <3>. QED
      BY <2>2, <3>1, <3>2, KeptOf
  <2>. QED
    BY <2>1, <2>2
<1>4. DiskOK'
  BY <1>1, <1>2, <1>3 DEF RegisterInv, DiskOK, Explained
<1>5. OldOK'
  BY <1>1, <1>2 DEF RegisterInv, OldOK, JsonOnly
<1>6. JobOK' /\ UpOK' /\ StartOK'
  BY <1>1, <1>2 DEF RegisterInv, JobOK, UpOK, StartOK
<1>. QED
  BY <1>4, <1>5, <1>6 DEF RegisterInv

\* The store is created only where there is nothing to take over but a JSON store.
LEMMA LayoutKeeps == ASSUME RegisterInv, Layout PROVE RegisterInv'
<1>1. /\ phase = "moving" /\ \A f \in Files : ~Movable(f)
      /\ UNCHANGED <<disk, old, json, jsonAt, cache, promised, tried, lost>>
  BY DEF Layout, legacyVars, historyVars
<1>2. DiskOK' /\ OldOK'
  BY <1>1 DEF RegisterInv, DiskOK, OldOK, Explained
<1>3. DOMAIN old \subseteq DOMAIN disk
  BY <1>1, OldNames DEF RegisterInv, Movable
<1>4. CASE HasData
  <2>1. phase' = "ensure" /\ job' = job
    BY <1>4 DEF Layout
  <2>. QED
    BY <1>1, <1>2, <1>3, <1>4, <2>1 DEF RegisterInv, JobOK, UpOK, StartOK, HasData
<1>5. CASE ~HasData
  <2>1. /\ phase' = "create" /\ DOMAIN disk = {} /\ jsonAt # "store" /\ DOMAIN old = {}
        /\ job' = Writing(IF jsonAt = "data" THEN json ELSE Default)
    BY <1>3, <1>5 DEF Layout, HasData
  <2>2. job'.at = 1 /\ job' # Idle /\ job' = [to |-> job'.to, at |-> 1, removed |-> FALSE]
    BY <2>1 DEF Writing, Idle
  <2>3. job'.to = IF jsonAt = "data" THEN json ELSE Default
    BY <2>1 DEF Writing
  <2>4. JobOK'
    BY <2>1, <2>2 DEF JobOK
  <2>5. cache = None
    BY <1>1 DEF RegisterInv, StartOK
  <2>6. jsonAt = "data" => Files \subseteq lost
    BY <2>1 DEF RegisterInv, OldOK, JsonOnly
  <2>7. UpOK' /\ StartOK'
    BY <1>1, <2>1, <2>2, <2>3, <2>5, <2>6 DEF UpOK, StartOK
  <2>. QED
    BY <1>2, <2>4, <2>7 DEF RegisterInv
<1>. QED
  BY <1>4, <1>5

\* A store just created is complete.
LEMMA CreatedKeeps == ASSUME RegisterInv, Created PROVE RegisterInv'
<1>1. /\ phase = "create" /\ phase' = "ensure" /\ job.at > 10 /\ cache' = job.to /\ job' = Idle
      /\ jsonAt' = IF jsonAt = "data" THEN "none" ELSE jsonAt
      /\ UNCHANGED <<disk, old, json, promised, tried, lost>>
  BY Names DEF Created, historyVars
<1>2. \A f \in Files : f \in DOMAIN disk /\ disk[f] = <<job.to[f]>>
  <2>1. job # Idle /\ job.at \in Nat
    BY <1>1 DEF RegisterInv, StartOK, JobOK
  <2>2. \A i \in 1 .. 10 :
          WriteOrder[i] \in DOMAIN disk /\ disk[WriteOrder[i]] = <<job.to[WriteOrder[i]]>>
    BY <1>1, <2>1 DEF RegisterInv, JobOK
  <2>. QED
    BY <2>2, Names
<1>3. DiskOK' /\ OldOK'
  BY <1>1 DEF RegisterInv, DiskOK, OldOK, Explained, JsonOnly
<1>4. JobOK' /\ UpOK'
  BY <1>1 DEF JobOK, UpOK, Idle
<1>5. StartOK'
  <2>1. DOMAIN old = {}
    BY <1>1 DEF RegisterInv, StartOK
  <2>. QED
    BY <1>1, <1>2, <2>1 DEF StartOK
<1>. QED
  BY <1>3, <1>4, <1>5 DEF RegisterInv

\* A default file is written only where a default was read anyway.
LEMMA EnsureKeeps == ASSUME RegisterInv, NEW n \in 1 .. 10, EnsureFile(n) PROVE RegisterInv'
<1>. DEFINE g == WriteOrder[n]
<1>1. /\ g \in Files /\ g \notin DOMAIN disk /\ phase = "ensure" /\ phase' = phase
      /\ disk' = Put(disk, g, <<Default[g]>>)
      /\ UNCHANGED <<old, json, jsonAt, cache, job, promised, tried, lost>>
  BY Names DEF EnsureFile, legacyVars, historyVars
<1>. HIDE DEF g
<1>2. /\ DOMAIN disk' = DOMAIN disk \cup {g} /\ disk'[g] = <<Default[g]>>
      /\ \A f \in DOMAIN disk : disk'[f] = disk[f]
  BY <1>1 DEF Put
<1>3. g \notin DOMAIN old
  BY <1>1 DEF RegisterInv, StartOK
<1>4. ASSUME NEW f \in Files PROVE Kept(disk', old')[f] = Kept(disk, old)[f]
  <2>1. CASE f = g
    <3>1. Kept(disk', old')[f] = Default[f]
      BY <2>1, <1>2, KeptOf DEF Content
    <3>2. Kept(disk, old)[f] = Default[f]
      BY <2>1, <1>1, <1>3, KeptOf, ContentOf
    <3>. QED
      BY <3>1, <3>2
  <2>2. CASE f # g
    BY <2>2, <1>1, <1>2, KeptOf, ContentOf
  <2>. QED
    BY <2>1, <2>2
<1>5. DiskOK'
  BY <1>1, <1>2, <1>4 DEF RegisterInv, DiskOK, Explained
<1>6. OldOK'
  BY <1>1, <1>2 DEF RegisterInv, OldOK, JsonOnly
<1>7. JobOK' /\ UpOK'
  BY <1>1 DEF RegisterInv, JobOK, UpOK
<1>8. StartOK'
  BY <1>1, <1>2 DEF RegisterInv, StartOK
<1>. QED
  BY <1>5, <1>6, <1>7, <1>8 DEF RegisterInv

\* What the process opens is what the files explain.
LEMMA OpenKeeps == ASSUME RegisterInv, Open
                   PROVE  RegisterInv' /\ \A f \in Files : cache'[f] = Kept(disk, old)[f]
<1>1. /\ phase = "ensure" /\ DOMAIN disk = Files /\ phase' = "up" /\ promised' = cache'
      /\ cache' = IF cache # None THEN cache ELSE [f \in Files |-> Content(disk, f)]
      /\ tried' = {} /\ lost' = {}
      /\ UNCHANGED <<disk, old, json, jsonAt, job>>
  BY DEF Open, legacyVars
<1>2. ASSUME NEW f \in Files PROVE Kept(disk, old)[f] = cache'[f]
  <2>1. Kept(disk, old)[f] = Content(disk, f)
    BY <1>1, KeptOf
  <2>2. CASE cache # None
    <3>1. disk[f] = <<cache[f]>>
      BY <1>1, <2>2 DEF RegisterInv, StartOK
    <3>2. Content(disk, f) = cache[f]
      BY <1>1, <3>1 DEF Content
    <3>. QED
      BY <1>1, <2>1, <2>2, <3>2
  <2>3. CASE cache = None
    BY <1>1, <2>1, <2>3
  <2>. QED
    BY <2>2, <2>3
<1>3. DiskOK'
  BY <1>1, <1>2 DEF DiskOK, Explained
<1>4. OldOK'
  BY <1>1, Names DEF RegisterInv, OldOK, JsonOnly
<1>5. job = Idle
  BY <1>1 DEF RegisterInv, JobOK
<1>6. JobOK' /\ UpOK' /\ StartOK'
  BY <1>1, <1>5 DEF RegisterInv, JobOK, UpOK, StartOK
<1>. QED
  BY <1>2, <1>3, <1>4, <1>6 DEF RegisterInv

\* An update that begins touches no file and is among those attempted.
LEMMA BeginKeeps == ASSUME RegisterInv, BeginUpdate
                    PROVE  RegisterInv' /\ \E s \in Updates(cache) : tried' = tried \cup {s}
<1>1. /\ phase = "up" /\ job = Idle
      /\ UNCHANGED <<disk, old, json, jsonAt, cache, phase, promised, lost>>
  BY DEF BeginUpdate, legacyVars
<1>2. PICK s \in Updates(cache) : job' = Writing(s) /\ tried' = tried \cup {s}
  BY DEF BeginUpdate
<1>3. /\ job'.at = 1 /\ job'.to = s /\ job' # Idle
      /\ job' = [to |-> job'.to, at |-> job'.at, removed |-> job'.removed]
  BY <1>2 DEF Writing, Idle
<1>4. DiskOK' /\ OldOK'
  BY <1>1, <1>2 DEF RegisterInv, DiskOK, OldOK, Explained
<1>5. JobOK'
  BY <1>1, <1>2, <1>3 DEF JobOK
<1>6. UpOK' /\ StartOK'
  BY <1>1 DEF RegisterInv, UpOK, StartOK
<1>. QED
  BY <1>2, <1>4, <1>5, <1>6 DEF RegisterInv

(* The file that a write is at. *)
LEMMA FileAt ==
    ASSUME JobOK, InWrite
    PROVE  /\ job.at \in 1 .. 10 /\ File \in Files /\ job # Idle
           /\ phase \in {"create", "up"} /\ (phase = "up" => job.to \in tried)
           /\ \A i \in 1 .. 10 : i < job.at => WriteOrder[i] # File
<1>1. job # Idle /\ job.at <= 10 /\ job.at \in 1 .. 11
  BY Names DEF InWrite, JobOK
<1>2. job.at \in 1 .. 10
  BY <1>1
<1>. QED
  BY <1>1, <1>2, Names DEF File, JobOK

\* A file that is replaced is explained by the update that replaces it.
LEMMA ReplaceKeeps == ASSUME RegisterInv, Replace PROVE RegisterInv'
<1>1. /\ InWrite /\ disk' = Put(disk, File, <<job.to[File]>>)
      /\ job' = [job EXCEPT !.at = @ + 1, !.removed = FALSE]
      /\ lost' = IF phase = "up" /\ job.removed THEN lost \ {File} ELSE lost
      /\ UNCHANGED <<old, json, jsonAt, cache, phase, promised, tried>>
  BY DEF Replace, legacyVars
<1>2. /\ job.at \in 1 .. 10 /\ File \in Files /\ job # Idle
      /\ phase \in {"create", "up"} /\ (phase = "up" => job.to \in tried)
      /\ \A i \in 1 .. 10 : i < job.at => WriteOrder[i] # File
  BY <1>1, FileAt DEF RegisterInv
<1>3. job' = [to |-> job.to, at |-> job.at + 1, removed |-> FALSE]
  BY <1>1 DEF RegisterInv, JobOK
<1>4. PICK g \in Files : g = File /\ g = WriteOrder[job.at]
  BY <1>2 DEF File
<1>5. /\ DOMAIN disk' = DOMAIN disk \cup {g} /\ disk'[g] = <<job.to[g]>>
      /\ \A f \in DOMAIN disk : f # g => disk'[f] = disk[f]
      /\ \A f \in lost : f # g => f \in lost'
      /\ (phase = "create" => lost' = lost) /\ lost' \subseteq lost
  BY <1>1, <1>2, <1>4 DEF Put
<1>6. job.to[g] \in Explained(g)'
  <2>1. CASE phase = "up"
    BY <1>1, <1>2, <2>1 DEF Explained
  <2>2. CASE phase = "create"
    <3>1. CASE jsonAt = "data"
      <4>1. job.to = json /\ g \in lost
        BY <1>4, <2>2, <3>1 DEF RegisterInv, StartOK
      <4>2. json[g] \in Leftovers[g]
        BY <1>4, <3>1, LeftOver DEF RegisterInv
      <4>. QED
        BY <1>1, <1>5, <2>2, <4>1, <4>2 DEF Explained
    <3>2. CASE jsonAt # "data"
      <4>1. /\ job.to = Default /\ DOMAIN old = {}
            /\ \A f \in DOMAIN disk : disk[f] = <<Default[f]>>
        BY <2>2, <3>2 DEF RegisterInv, StartOK
      <4>2. Kept(disk, old)[g] = Default[g]
        <5>1. CASE g \in DOMAIN disk
          BY <4>1, <5>1, <1>4, KeptOf DEF Content
        <5>2. CASE g \notin DOMAIN disk
          BY <4>1, <5>2, <1>4, KeptOf DEF Content
        <5>. QED
          BY <5>1, <5>2
      <4>3. Default[g] \in Explained(g)
        BY <1>4, <4>2 DEF RegisterInv, DiskOK
      <4>. QED
        BY <1>1, <1>5, <2>2, <4>1, <4>3 DEF Explained
    <3>. QED
      BY <3>1, <3>2
  <2>. QED
    BY <1>2, <2>1, <2>2
<1>7. ASSUME NEW f \in Files PROVE Kept(disk', old')[f] \in Explained(f)'
  <2>1. CASE f = g
    <3>1. Kept(disk', old')[f] = job.to[g]
      BY <1>5, <2>1, KeptOf DEF Content
    <3>. QED
      BY <1>6, <2>1, <3>1
  <2>2. CASE f # g
    <3>1. Kept(disk', old')[f] = Kept(disk, old)[f]
      BY <1>1, <1>5, <2>2, KeptOf DEF Content
    <3>2. Kept(disk, old)[f] \in Explained(f)
      BY DEF RegisterInv, DiskOK
    <3>. QED
      BY <1>1, <1>5, <2>2, <3>1, <3>2 DEF Explained
  <2>. QED
    BY <2>1, <2>2
<1>8. DiskOK'
  BY <1>4, <1>5, <1>7 DEF RegisterInv, DiskOK
<1>9. OldOK'
  BY <1>1, <1>5 DEF RegisterInv, OldOK, JsonOnly
<1>10. JobOK'
  <2>1. /\ job'.at = job.at + 1 /\ job'.to = job.to
        /\ job' = [to |-> job'.to, at |-> job'.at, removed |-> job'.removed]
    BY <1>3
  <2>2. job'.at \in 1 .. 11
    BY <1>2, <2>1
  <2>3. ASSUME NEW i \in 1 .. 10, i < job'.at
        PROVE  WriteOrder[i] \in DOMAIN disk' /\ disk'[WriteOrder[i]] = <<job.to[WriteOrder[i]]>>
    <3>1. CASE i = job.at
      BY <1>4, <1>5, <3>1
    <3>2. CASE i < job.at
      <4>1. WriteOrder[i] \in DOMAIN disk /\ disk[WriteOrder[i]] = <<job.to[WriteOrder[i]]>>
        BY <1>2, <3>2 DEF RegisterInv, JobOK
      <4>2. WriteOrder[i] # g
        BY <1>2, <1>4, <3>2
      <4>. QED
        BY <1>5, <4>1, <4>2
    <3>. QED
      BY <1>2, <2>1, <2>3, <3>1, <3>2
  <2>. QED
    BY <1>1, <1>2, <2>1, <2>2, <2>3 DEF JobOK
<1>11. UpOK'
  BY <1>1, <1>5 DEF RegisterInv, UpOK
<1>12. StartOK'
  <2>1. phase # "ensure" /\ job'.to = job.to /\ job' # Idle
    BY <1>2, <1>3 DEF Idle
  <2>2. phase # "up" => cache = None
    BY <2>1 DEF RegisterInv, StartOK
  <2>3. phase = "create" => DOMAIN old = {}
    BY DEF RegisterInv, StartOK
  <2>4. phase = "create" /\ jsonAt = "data" => job.to = json /\ Files \subseteq lost
    BY DEF RegisterInv, StartOK
  <2>5. phase = "create" /\ jsonAt # "data" =>
          job.to = Default /\ \A f \in DOMAIN disk' : disk'[f] = <<Default[f]>>
    BY <1>5 DEF RegisterInv, StartOK
  <2>. QED
    BY <1>1, <1>5, <2>1, <2>2, <2>3, <2>4, <2>5 DEF StartOK
<1>. QED
  BY <1>8, <1>9, <1>10, <1>11, <1>12 DEF RegisterInv

\* A file removed by the rename's fallback may come back as anything that is left.
LEMMA RemoveKeeps == ASSUME RegisterInv, Remove PROVE RegisterInv'
<1>1. /\ InWrite /\ disk' = Without(disk, {File}) /\ job' = [job EXCEPT !.removed = TRUE]
      /\ lost' = lost \cup {File}
      /\ UNCHANGED <<old, json, jsonAt, cache, phase, promised, tried>>
  BY DEF Remove, legacyVars
<1>2. /\ job.at \in 1 .. 10 /\ File \in Files /\ job # Idle
      /\ phase \in {"create", "up"} /\ (phase = "up" => job.to \in tried)
      /\ \A i \in 1 .. 10 : i < job.at => WriteOrder[i] # File
  BY <1>1, FileAt DEF RegisterInv
<1>3. job' = [to |-> job.to, at |-> job.at, removed |-> TRUE]
  BY <1>1 DEF RegisterInv, JobOK
<1>4. PICK g \in Files : g = File
  BY <1>2
<1>5. /\ DOMAIN disk' = DOMAIN disk \ {g}
      /\ \A f \in DOMAIN disk : f # g => disk'[f] = disk[f]
      /\ g \in lost' /\ lost \subseteq lost'
  BY <1>1, <1>4 DEF Without, Restrict
<1>6. ASSUME NEW f \in Files PROVE Kept(disk', old')[f] \in Explained(f)'
  <2>1. CASE f = g
    <3>1. Kept(disk', old')[f] = Content(old, f)
      BY <1>1, <1>5, <2>1, KeptOf
    <3>2. Content(old, f) \in Leftovers[f]
      BY LeftOver DEF RegisterInv
    <3>. QED
      BY <1>5, <2>1, <3>1, <3>2 DEF Explained
  <2>2. CASE f # g
    <3>1. Kept(disk', old')[f] = Kept(disk, old)[f]
      <4>1. CASE f \in DOMAIN disk
        <5>1. f \in DOMAIN disk' /\ disk'[f] = disk[f]
          BY <1>5, <2>2, <4>1
        <5>2. Kept(disk, old)[f] = Content(disk, f) /\ Kept(disk', old')[f] = Content(disk', f)
          BY <4>1, <5>1, KeptOf
        <5>. QED
          BY <4>1, <5>1, <5>2, ContentOf
      <4>2. CASE f \notin DOMAIN disk
        BY <1>1, <1>5, <4>2, KeptOf
      <4>. QED
        BY <4>1, <4>2
    <3>2. Kept(disk, old)[f] \in Explained(f)
      BY DEF RegisterInv, DiskOK
    <3>. QED
      BY <1>1, <1>5, <3>1, <3>2 DEF Explained
  <2>. QED
    BY <2>1, <2>2
<1>7. DiskOK'
  BY <1>5, <1>6 DEF RegisterInv, DiskOK
<1>8. OldOK'
  <2>1. ASSUME JsonOnly(disk, old, jsonAt)' PROVE Files \subseteq lost'
    <3>1. jsonAt = "data" /\ DOMAIN disk' = {}
      BY <1>1, <2>1 DEF JsonOnly
    <3>2. CASE phase = "up"
      <4>1. \A f \in Files \ {g} : f \notin DOMAIN disk
        BY <1>5, <3>1
      <4>. QED
        BY <1>5, <3>2, <4>1 DEF RegisterInv, UpOK
    <3>3. CASE phase = "create"
      BY <1>5, <3>1, <3>3 DEF RegisterInv, StartOK
    <3>. QED
      BY <1>2, <3>2, <3>3
  <2>. QED
    BY <1>1, <2>1 DEF RegisterInv, OldOK
<1>9. JobOK'
  <2>1. /\ job'.at = job.at /\ job'.to = job.to
        /\ job' = [to |-> job'.to, at |-> job'.at, removed |-> job'.removed]
    BY <1>3
  <2>2. ASSUME NEW i \in 1 .. 10, i < job.at
        PROVE  WriteOrder[i] \in DOMAIN disk' /\ disk'[WriteOrder[i]] = <<job.to[WriteOrder[i]]>>
    <3>1. WriteOrder[i] \in DOMAIN disk /\ disk[WriteOrder[i]] = <<job.to[WriteOrder[i]]>>
      BY <1>2, <2>2 DEF RegisterInv, JobOK
    <3>2. WriteOrder[i] # g
      BY <1>2, <1>4, <2>2
    <3>. QED
      BY <1>5, <3>1, <3>2
  <2>. QED
    BY <1>1, <1>2, <2>1, <2>2 DEF JobOK
<1>10. UpOK'
  BY <1>1, <1>5 DEF RegisterInv, UpOK
<1>11. StartOK'
  <2>1. phase # "ensure" /\ job'.to = job.to /\ job' # Idle
    BY <1>2, <1>3 DEF Idle
  <2>2. phase # "up" => cache = None
    BY <2>1 DEF RegisterInv, StartOK
  <2>3. phase = "create" =>
          /\ DOMAIN old = {}
          /\ IF jsonAt = "data" THEN job.to = json /\ Files \subseteq lost
             ELSE job.to = Default /\ \A f \in DOMAIN disk' : disk'[f] = <<Default[f]>>
    BY <1>5 DEF RegisterInv, StartOK
  <2>. QED
    BY <1>1, <1>5, <2>1, <2>2, <2>3 DEF StartOK
<1>. QED
  BY <1>7, <1>8, <1>9, <1>10, <1>11 DEF RegisterInv

\* A failed write leaves the files as they are, and the attempt remembered.
LEMMA FailKeeps == ASSUME RegisterInv, FailWrite PROVE RegisterInv'
<1>1. /\ phase = "up" /\ job' = Idle
      /\ UNCHANGED <<disk, old, json, jsonAt, cache, phase, promised, tried, lost>>
  BY DEF FailWrite, legacyVars
<1>2. DiskOK' /\ OldOK'
  BY <1>1 DEF RegisterInv, DiskOK, OldOK, Explained
<1>3. JobOK'
  BY <1>1 DEF JobOK, Idle
<1>4. UpOK' /\ StartOK'
  BY <1>1 DEF RegisterInv, UpOK, StartOK
<1>. QED
  BY <1>2, <1>3, <1>4 DEF RegisterInv

\* When an update commits, every file is the update's.
LEMMA CommitKeeps ==
    ASSUME RegisterInv, Commit
    PROVE  /\ RegisterInv' /\ job.to \in tried
           /\ \A f \in Files : f \in DOMAIN disk /\ disk[f] = <<job.to[f]>>
<1>1. /\ phase = "up" /\ job # Idle /\ job.at > 10 /\ job' = Idle
      /\ cache' = job.to /\ promised' = job.to /\ tried' = {} /\ lost' = {}
      /\ UNCHANGED <<disk, old, json, jsonAt, phase>>
  BY Names DEF Commit, legacyVars
<1>2. job.to \in tried /\ job.at \in 1 .. 11
  BY <1>1 DEF RegisterInv, JobOK
<1>3. \A f \in Files : f \in DOMAIN disk /\ disk[f] = <<job.to[f]>>
  <2>1. \A i \in 1 .. 10 :
          WriteOrder[i] \in DOMAIN disk /\ disk[WriteOrder[i]] = <<job.to[WriteOrder[i]]>>
    BY <1>1, <1>2 DEF RegisterInv, JobOK
  <2>. QED
    BY <2>1, Names
<1>4. DiskOK'
  <2>1. ASSUME NEW f \in Files PROVE Kept(disk, old)[f] = job.to[f]
    BY <1>3, KeptOf DEF Content
  <2>. QED
    BY <1>1, <2>1 DEF RegisterInv, DiskOK, Explained
<1>5. OldOK'
  BY <1>1, <1>3, Names DEF RegisterInv, OldOK, JsonOnly
<1>6. JobOK'
  BY <1>1 DEF JobOK, Idle
<1>7. UpOK' /\ StartOK'
  BY <1>1, <1>3 DEF RegisterInv, UpOK, StartOK
<1>. QED
  BY <1>2, <1>3, <1>4, <1>5, <1>6, <1>7 DEF RegisterInv

\* A crash forgets the cache and the write, not the files.
LEMMA CrashKeeps == ASSUME RegisterInv, Crash PROVE RegisterInv'
<1>1. /\ phase' = "down" /\ cache' = None /\ job' = Idle
      /\ UNCHANGED <<disk, old, json, jsonAt, promised, tried, lost>>
  BY DEF Crash, legacyVars
<1>2. DiskOK' /\ OldOK'
  BY <1>1 DEF RegisterInv, DiskOK, OldOK, Explained
<1>3. JobOK'
  BY <1>1 DEF JobOK, Idle
<1>4. UpOK' /\ StartOK'
  BY <1>1 DEF UpOK, StartOK
<1>. QED
  BY <1>2, <1>3, <1>4 DEF RegisterInv

(* Whatever happens keeps the invariant of the register. *)
LEMMA RegisterStep == ASSUME RegisterInv, [Next]_vars PROVE RegisterInv'
<1>1. CASE UNCHANGED vars
  BY <1>1 DEF vars, legacyVars, historyVars, RegisterInv, DiskOK, OldOK, JobOK, UpOK, StartOK, Explained
<1>2. ASSUME NEW n \in DOMAIN WriteOrder, EnsureFile(n) PROVE RegisterInv'
  BY <1>2, Names, EnsureKeeps
<1>3. ASSUME NEW f \in Files, MoveLegacyFile(f) PROVE RegisterInv'
  BY <1>3, MoveKeeps
<1>. QED
  BY <1>1, <1>2, <1>3, StartKeeps, LayoutKeeps, CreatedKeeps, OpenKeeps, BeginKeeps, ReplaceKeeps,
     RemoveKeeps, FailKeeps, CommitKeeps, CrashKeeps DEF Next, Boot, Update

\* So the files and the cache always are what the register explains.
LEMMA RegisterInvariant == Spec => []RegisterInv
BY RegisterInit, RegisterStep, PTL DEF Spec

Value == IF phase = "up" THEN cache ELSE promised
Serving == phase = "up"

\* What readers see, or saw last, is the promise.
LEMMA ValueIs == ASSUME UpOK PROVE Value = promised
BY DEF UpOK, Value

(* Each step is a step of the register or leaves it alone. *)
LEMMA StepRefines ==
    ASSUME RegisterInv, RegisterInv', [Next]_vars
    PROVE  [Register!Next]_(Register!vars)
<1>. DEFINE Same == UNCHANGED <<Value, tried, lost, Serving>>
<1>1. Value = promised /\ Value' = promised'
  BY ValueIs DEF RegisterInv, Value, UpOK
<1>2. Same => UNCHANGED Register!vars
  BY DEF Register!vars, Value, Serving
<1>3. ASSUME UNCHANGED <<promised, tried, lost>>, phase = "up" <=> phase' = "up"
      PROVE  Same
  <2>1. Serving' = Serving
    BY <1>3 DEF Serving
  <2>. QED
    BY <1>1, <1>3, <2>1
<1>. HIDE DEF Same
<1>4. CASE UNCHANGED vars
  BY <1>2, <1>3, <1>4 DEF vars, historyVars
<1>5. CASE Boot
  <2>1. CASE Open
    <3>1. /\ phase = "ensure" /\ phase' = "up" /\ tried' = {} /\ lost' = {}
          /\ \A f \in Files : cache'[f] \in Explained(f)
      BY <2>1, OpenKeeps DEF Open, RegisterInv, DiskOK
    <3>2. Register!Restart
      BY <1>1, <3>1 DEF Register!Restart, Register!Recovered, Explained, Value, Serving
    <3>. QED
      BY <3>2 DEF Register!Next
  <2>2. CASE Start \/ Layout \/ Created \/ (\E f \in Files : MoveLegacyFile(f))
                  \/ \E n \in DOMAIN WriteOrder : EnsureFile(n)
    <3>1. UNCHANGED <<promised, tried, lost>> /\ phase # "up" /\ phase' # "up"
      BY <2>2 DEF Start, Layout, Created, MoveLegacyFile, EnsureFile, historyVars
    <3>. QED
      BY <1>2, <1>3, <3>1
  <2>. QED
    BY <1>5, <2>1, <2>2 DEF Boot
<1>6. CASE BeginUpdate
  <2>1. /\ phase = "up" /\ phase' = phase /\ UNCHANGED <<promised, lost>>
        /\ \E s : tried' = tried \cup {s}
    BY <1>6 DEF BeginUpdate
  <2>2. Register!Try
    BY <1>1, <2>1 DEF Register!Try, Value, Serving
  <2>. QED
    BY <2>2 DEF Register!Next
<1>7. CASE Replace
  <2>1. UNCHANGED <<promised, tried, phase>> /\ lost' \in {lost, lost \ {File}} /\ InWrite
    BY <1>7 DEF Replace
  <2>2. CASE lost' = lost
    BY <1>2, <1>3, <2>1, <2>2
  <2>3. CASE lost' = lost \ {File}
    <3>1. PICK f \in Files : f = File
      BY <2>1, FileAt DEF RegisterInv
    <3>2. Register!PutBack(f)
      BY <1>1, <2>1, <2>3, <3>1 DEF Register!PutBack, Value, Serving
    <3>. QED
      BY <3>2 DEF Register!Next
  <2>. QED
    BY <2>1, <2>2, <2>3
<1>8. CASE Remove
  <2>1. UNCHANGED <<promised, tried, phase>> /\ lost' = lost \cup {File} /\ InWrite
    BY <1>8 DEF Remove
  <2>2. PICK f \in Files : f = File
    BY <2>1, FileAt DEF RegisterInv
  <2>3. phase = "up" => tried # {}
    BY <2>1, FileAt DEF RegisterInv
  <2>4. Register!TakeAway(f)
    BY <1>1, <2>1, <2>2, <2>3 DEF Register!TakeAway, Value, Serving
  <2>. QED
    BY <2>4 DEF Register!Next
<1>9. CASE FailWrite
  BY <1>2, <1>3, <1>9 DEF FailWrite
<1>10. CASE Commit
  <2>1. /\ phase = "up" /\ phase' = phase /\ promised' = job.to /\ job.to \in tried
        /\ tried' = {} /\ lost' = {}
    BY <1>10, CommitKeeps DEF Commit
  <2>2. Register!Commit
    BY <1>1, <2>1 DEF Register!Commit, Value, Serving
  <2>. QED
    BY <2>2 DEF Register!Next
<1>11. CASE Crash
  <2>1. UNCHANGED <<promised, tried, lost>> /\ phase' = "down"
    BY <1>11 DEF Crash
  <2>2. Register!Crash
    BY <1>1, <2>1 DEF Register!Crash, Value, Serving
  <2>. QED
    BY <2>2 DEF Register!Next
<1>. QED
  BY <1>4, <1>5, <1>6, <1>7, <1>8, <1>9, <1>10, <1>11 DEF Next, Update

\* The ten files and the cache implement the register, for every directory of an older
\* release, every update and any number of crashes and failed writes and renames.
THEOREM StoreRefinesRegister == Spec => ImplementsRegister
<1>1. Init => Register!Init
  <2>. SUFFICES ASSUME Init PROVE Register!Init
    OBVIOUS
  <2>1. PICK l \in Legacies : promised = Promise(l)
    BY DEF Init
  <2>2. DOMAIN promised = Files
    BY <2>1, LegaciesAssumption DEF LegaciesAssumption, IsStore, Promise, Kept
  <2>3. phase = "down" /\ tried = {} /\ lost \in {{}, Files}
    BY DEF Init
  <2>. QED
    BY <2>2, <2>3 DEF Register!Init
<1>2. RegisterInv /\ RegisterInv' /\ [Next]_vars => [Register!Next]_(Register!vars)
  BY StepRefines
<1>. QED
  BY <1>1, <1>2, RegisterInvariant, PTL DEF Spec, ImplementsRegister, Register!Spec
---------------------------------------------------------------------------
(* What an update makes of a store is a store, it gives no proxy id out    *)
(* twice, and its keys resolve before its proxies are replaced and after.  *)
Proceeds(s, u) ==
    /\ IsStore(u) /\ s.proxies.next <= u.proxies.next
    /\ BindingsResolved(s) => BindingsResolved(u) /\ KeysResolveIn(u, s)

(* A store is rows that are typed, and opaque files. *)
LEMMA StoreIsRows ==
    ASSUME NEW s
    PROVE  IsStore(s) <=> DOMAIN s = Files /\ RowsTyped(s) /\ \A f \in Opaque : s[f] \in {0, 1}
<1>1. DOMAIN DefaultRows = {"api_keys", "proxies", "core_profiles", "system_config"}
  BY DEF DefaultRows
<1>2. /\ RowsOf["api_keys"] = Nat /\ RowsOf["proxies"] = ProxyRow
      /\ RowsOf["core_profiles"] = ProfileRow
  BY DEF RowsOf
<1>3. /\ "api_keys" \in Files /\ "proxies" \in Files /\ "core_profiles" \in Files
      /\ "system_config" \in Files
  BY Names
<1>4. /\ IsPart("api_keys", s["api_keys"]) <=> IsList(s.api_keys, Nat)
      /\ IsPart("proxies", s["proxies"]) <=> IsList(s.proxies, ProxyRow)
      /\ IsPart("core_profiles", s["core_profiles"]) <=> IsList(s.core_profiles, ProfileRow)
      /\ IsPart("system_config", s["system_config"]) <=> s.system_config \in Nat
  BY <1>1, <1>2 DEF IsPart, Lists, Opaque
<1>5. \A f \in Opaque : f \in Files /\ (IsPart(f, s[f]) <=> s[f] \in {0, 1})
  BY <1>1 DEF IsPart, Lists, Opaque
<1>6. \A f \in Files : \/ f \in Opaque
                       \/ f \in {"api_keys", "proxies", "core_profiles", "system_config"}
  BY <1>1 DEF Opaque
<1>. QED
  BY <1>3, <1>4, <1>5, <1>6 DEF IsStore, RowsTyped

\* What keeps the other files and follows in the rows proceeds as a store.
LEMMA FollowingProceeds ==
    ASSUME NEW s, NEW u, IsStore(s), Follows(s, u) PROVE Proceeds(s, u)
<1>1. IsStore(u)
  <2>1. DOMAIN s = Files /\ \A f \in Opaque : s[f] \in {0, 1}
    BY StoreIsRows
  <2>2. DOMAIN u = Files /\ \A f \in Opaque : u[f] = s[f]
    BY <2>1 DEF Follows, Unlisted, Opaque
  <2>. QED
    BY <2>1, <2>2, StoreIsRows DEF Follows
<1>2. BindingsResolved(s) => BindingsResolved(u) /\ KeysResolveIn(u, s)
  BY DEF Follows, BindingsResolved, KeysResolveIn, ValidReference
<1>. QED
  BY <1>1, <1>2 DEF Follows, Proceeds

(* A setting touches no row. *)
LEMMA SettingProceeds ==
    ASSUME NEW s, NEW f \in Settings, IsStore(s) PROVE Proceeds(s, [s EXCEPT ![f] = 1 - @])
<1>. DEFINE u == [s EXCEPT ![f] = 1 - s[f]]
<1>1. DOMAIN s = Files /\ RowsTyped(s) /\ \A g \in Opaque : s[g] \in {0, 1}
  BY StoreIsRows
<1>2. f \in Opaque
  BY StoreAssumption DEF StoreAssumption
<1>3. f \in Files /\ f \notin {"api_keys", "proxies", "core_profiles", "system_config"}
  BY <1>2 DEF Opaque, DefaultRows
<1>4. /\ DOMAIN u = Files /\ \A g \in Opaque : u[g] \in {0, 1}
      /\ u.api_keys = s.api_keys /\ u.proxies = s.proxies
      /\ u.core_profiles = s.core_profiles /\ u.system_config = s.system_config
  <2>1. s[f] \in {0, 1} /\ 1 - s[f] \in {0, 1}
    BY <1>1, <1>2
  <2>. QED
    BY <1>1, <1>2, <1>3, <2>1
<1>. HIDE DEF u
<1>5. IsStore(u)
  <2>1. RowsTyped(u)
    BY <1>1, <1>3, <1>4, Names DEF RowsTyped
  <2>. QED
    BY <1>4, <2>1, StoreIsRows
<1>6. s.proxies.next <= u.proxies.next
  BY <1>1, <1>4 DEF RowsTyped, IsList
<1>7. BindingsResolved(s) => BindingsResolved(u) /\ KeysResolveIn(u, s)
  BY <1>4 DEF BindingsResolved, KeysResolveIn, ValidReference, Keys, Proxies
<1>. QED
  BY <1>5, <1>6, <1>7 DEF Proceeds, u

\* The updates of keys proceed.
LEMMA KeyUpdateProceeds ==
    ASSUME NEW s, IsStore(s), NEW u \in KeyUpdates(s) PROVE Proceeds(s, u)
<1>1. RowsTyped(s)
  BY StoreIsRows
<1>2. CASE u \in {AddKeyRow(s, p) : p \in IF s.api_keys.next > MaxKeys THEN {} ELSE Proxies(s) \cup {0}}
  BY <1>1, <1>2, KeyAdded, FollowingProceeds
<1>3. CASE u \in Rebindings(s)
  BY <1>1, <1>3, KeysBound, FollowingProceeds DEF Rebindings
<1>4. CASE u \in {DeleteKeyRow(s, k) : k \in Keys(s)}
  BY <1>1, <1>4, KeyDeleted, FollowingProceeds
<1>. QED
  BY <1>2, <1>3, <1>4 DEF KeyUpdates

\* The updates of proxies proceed.
LEMMA ProxyUpdateProceeds ==
    ASSUME NEW s, IsStore(s), NEW u \in ProxyUpdates(s) PROVE Proceeds(s, u)
<1>1. RowsTyped(s)
  BY StoreIsRows
<1>2. CASE u \in IF s.proxies.next > MaxProxies THEN {} ELSE {AddProxyRow(s)}
  BY <1>1, <1>2, ProxyAdded, FollowingProceeds
<1>3. CASE u \in {DeleteProxyRows(s, {p}) : p \in {q \in Proxies(s) : Editable(s, q)}}
  BY <1>1, <1>3, ProxiesDeleted, FollowingProceeds
<1>4. CASE u \in {SetSystemProxy(s, p) : p \in Proxies(s) \cup {0}}
  BY <1>1, <1>4, SystemProxySet, FollowingProceeds
<1>. QED
  BY <1>2, <1>3, <1>4 DEF ProxyUpdates

\* The updates of core profiles, their sync included, proceed.
LEMMA ProfileUpdateProceeds ==
    ASSUME NEW s, IsStore(s), NEW u \in ProfileUpdates(s) PROVE Proceeds(s, u)
<1>1. RowsTyped(s)
  BY StoreIsRows
<1>2. CASE u \in IF s.core_profiles.next > MaxProfiles THEN {} ELSE {AddProfileRow(s, 0, TRUE)}
  <2>1. Follows(s, AddProfileRow(s, 0, TRUE))
    BY <1>1, ProfileAdded
  <2>. QED
    BY <1>2, <2>1, FollowingProceeds
<1>3. CASE u \in {DeleteProfileRows(s, {c}) : c \in Profiles(s)}
  <2>1. PICK c \in Profiles(s) : u = DeleteProfileRows(s, {c})
    BY <1>3
  <2>2. Follows(s, DeleteProfileRows(s, {c}))
    BY <1>1, ProfilesDeleted
  <2>. QED
    BY <2>1, <2>2, FollowingProceeds
<1>4. CASE u \in IF s.proxies.next > MaxProxies THEN {} ELSE {SyncProfiles(s)}
  <2>1. Follows(s, SyncProfiles(s))
    BY <1>1, SyncProfilesTyped
  <2>. QED
    BY <1>4, <2>1, FollowingProceeds
<1>. QED
  BY <1>2, <1>3, <1>4 DEF ProfileUpdates

\* Every update proceeds.
LEMMA UpdateProceeds ==
    ASSUME NEW s, IsStore(s), NEW u \in Updates(s) PROVE Proceeds(s, u)
<1>1. CASE u \in SettingUpdates(s)
  BY <1>1, SettingProceeds DEF SettingUpdates
<1>. QED
  BY <1>1, KeyUpdateProceeds, ProxyUpdateProceeds, ProfileUpdateProceeds DEF Updates
---------------------------------------------------------------------------
(* Everything that is read and written is a store. *)

\* The default is a store.
LEMMA DefaultIsStore == IsStore(Default)
<1>1. DOMAIN DefaultRows = {"api_keys", "proxies", "core_profiles", "system_config"}
  BY DEF DefaultRows
<1>2. DOMAIN Default = Files /\ \A f \in Opaque : f \in Files /\ Default[f] = 0
  BY DEF Default, Opaque
<1>3. /\ Default.api_keys = DefaultList /\ Default.proxies = DefaultList
      /\ Default.core_profiles = DefaultList /\ Default.system_config = 0
  BY <1>1, Names DEF Default, DefaultRows, Opaque
<1>4. \A Row : IsList(DefaultList, Row)
  BY DEF IsList, DefaultList, NoRows
<1>5. RowsTyped(Default)
  BY <1>2, <1>3, <1>4, Names DEF RowsTyped
<1>. QED
  BY <1>2, <1>5, StoreIsRows

\* What is read of a directory's file is of its part's type.
LEMMA DirectoryContent ==
    ASSUME NEW dir, IsDirectory(dir), NEW f \in Files
    PROVE  IsPart(f, Content(dir, f))
<1>1. IsPart(f, Default[f])
  BY DefaultIsStore DEF IsStore
<1>. QED
  BY <1>1 DEF IsDirectory, Content

\* What is taken over of two directories is a store.
LEMMA KeptIsStore ==
    ASSUME NEW dir, NEW flat, IsDirectory(dir), IsDirectory(flat)
    PROVE  IsStore(Kept(dir, flat))
<1>1. ASSUME NEW f \in Files PROVE IsPart(f, Kept(dir, flat)[f])
  BY KeptOf, DirectoryContent
<1>. QED
  BY <1>1 DEF IsStore, Kept

\* A directory stays one when a file of its type is put into it.
LEMMA DirectoryPut ==
    ASSUME NEW dir, IsDirectory(dir), NEW g \in Files, NEW x, x = << >> \/ (x = <<x[1]>> /\ IsPart(g, x[1]))
    PROVE  IsDirectory(Put(dir, g, x))
BY DEF IsDirectory, Put

\* A directory stays one when files are taken out of it.
LEMMA DirectoryWithout ==
    ASSUME NEW dir, IsDirectory(dir), NEW S
    PROVE  IsDirectory(Without(dir, S))
BY DEF IsDirectory, Without, Restrict

\* What the first start finds is a directory of stores.
LEMMA StoresInit == Init => StoresOK
<1>. SUFFICES ASSUME Init PROVE StoresOK
  OBVIOUS
<1>1. PICK l \in Legacies : /\ disk = l.disk /\ old = l.old /\ json = l.json /\ jsonAt = l.jsonAt
                            /\ promised = Promise(l)
  BY DEF Init
<1>2. IsDirectory(disk) /\ IsDirectory(old) /\ IsStore(json)
  BY <1>1, LegaciesAssumption DEF LegaciesAssumption
<1>3. IsStore(promised)
  BY <1>1, <1>2, KeptIsStore DEF Promise
<1>. QED
  BY <1>2, <1>3 DEF Init, StoresOK, Idle

\* Every step reads and writes stores.
LEMMA StoresStep ==
    ASSUME RegisterInv, RegisterInv', StoresOK, [Next]_vars PROVE StoresOK'
<1>. DEFINE Same == UNCHANGED <<disk, old, json, cache, job, promised, tried>>
<1>0. Same => StoresOK'
  BY DEF StoresOK
<1>1. CASE UNCHANGED vars
  BY <1>0, <1>1 DEF vars, legacyVars, historyVars
<1>2. CASE Start
  BY <1>0, <1>2 DEF Start, legacyVars, historyVars
<1>. HIDE DEF Same
<1>3. ASSUME NEW g \in Files, MoveLegacyFile(g) PROVE StoresOK'
  <2>1. /\ g \in DOMAIN old /\ disk' = Put(disk, g, old[g]) /\ old' = Without(old, {g})
        /\ UNCHANGED <<json, cache, job, promised, tried>>
    BY <1>3 DEF MoveLegacyFile, Movable, historyVars
  <2>2. old[g] = << >> \/ (old[g] = <<old[g][1]>> /\ IsPart(g, old[g][1]))
    BY <2>1 DEF StoresOK, IsDirectory
  <2>3. IsDirectory(Put(disk, g, old[g])) /\ IsDirectory(Without(old, {g}))
    BY <2>2, DirectoryPut, DirectoryWithout DEF StoresOK
  <2>. QED
    BY <2>1, <2>3 DEF StoresOK
<1>4. CASE Layout
  <2>1. /\ UNCHANGED <<disk, old, json, cache, promised, tried>>
        /\ job' \in {job, Writing(json), Writing(Default)}
    BY <1>4 DEF Layout, legacyVars, historyVars
  <2>2. job' # Idle => IsStore(job'.to)
    BY <2>1, DefaultIsStore DEF Writing, StoresOK
  <2>. QED
    BY <2>1, <2>2 DEF StoresOK
<1>5. CASE Created
  <2>1. /\ job # Idle /\ cache' = job.to /\ job' = Idle
        /\ UNCHANGED <<disk, old, json, promised, tried>>
    BY <1>5 DEF Created, historyVars, RegisterInv, StartOK
  <2>. QED
    BY <2>1 DEF StoresOK
<1>6. ASSUME NEW n \in DOMAIN WriteOrder, EnsureFile(n) PROVE StoresOK'
  <2>1. PICK g \in Files : g = WriteOrder[n]
    BY <1>6, Names
  <2>2. disk' = Put(disk, g, <<Default[g]>>) /\ UNCHANGED <<old, json, cache, job, promised, tried>>
    BY <1>6, <2>1 DEF EnsureFile, legacyVars, historyVars
  <2>3. <<Default[g]>> = <<(<<Default[g]>>)[1]>> /\ IsPart(g, (<<Default[g]>>)[1])
    BY DefaultIsStore DEF IsStore
  <2>4. IsDirectory(Put(disk, g, <<Default[g]>>))
    BY <2>3, DirectoryPut DEF StoresOK
  <2>. QED
    BY <2>2, <2>4 DEF StoresOK
<1>7. CASE Open
  <2>1. /\ cache' = IF cache # None THEN cache ELSE [f \in Files |-> Content(disk, f)]
        /\ promised' = cache' /\ tried' = {}
        /\ UNCHANGED <<disk, old, json, job>>
    BY <1>7 DEF Open, legacyVars
  <2>2. IsStore([f \in Files |-> Content(disk, f)])
    BY DirectoryContent DEF IsStore, StoresOK
  <2>3. IsStore(cache')
    BY <2>1, <2>2 DEF StoresOK
  <2>. QED
    BY <2>1, <2>3 DEF StoresOK
<1>8. CASE BeginUpdate
  <2>1. PICK s \in Updates(cache) : job' = Writing(s) /\ tried' = tried \cup {s}
    BY <1>8 DEF BeginUpdate
  <2>2. phase = "up" /\ UNCHANGED <<disk, old, json, cache, promised>>
    BY <1>8 DEF BeginUpdate, legacyVars
  <2>3. IsStore(cache)
    BY <2>2 DEF RegisterInv, UpOK, StoresOK
  <2>4. IsStore(s)
    BY <2>3, UpdateProceeds DEF Proceeds
  <2>. QED
    BY <2>1, <2>2, <2>4 DEF StoresOK, Writing
<1>9. CASE Replace
  <2>1. /\ InWrite /\ disk' = Put(disk, File, <<job.to[File]>>)
        /\ job' = [job EXCEPT !.at = @ + 1, !.removed = FALSE]
        /\ UNCHANGED <<old, json, cache, promised, tried>>
    BY <1>9 DEF Replace, legacyVars
  <2>2. job'.to = job.to /\ IsStore(job.to)
    BY <2>1, FileAt DEF RegisterInv, JobOK, StoresOK
  <2>3. PICK g \in Files : g = File
    BY <2>1, FileAt DEF RegisterInv
  <2>4. <<job.to[g]>> = <<(<<job.to[g]>>)[1]>> /\ IsPart(g, (<<job.to[g]>>)[1])
    BY <2>2 DEF IsStore
  <2>5. IsDirectory(Put(disk, g, <<job.to[g]>>))
    BY <2>4, DirectoryPut DEF StoresOK
  <2>. QED
    BY <2>1, <2>2, <2>3, <2>5 DEF StoresOK
<1>10. CASE Remove
  <2>1. /\ InWrite /\ disk' = Without(disk, {File}) /\ job' = [job EXCEPT !.removed = TRUE]
        /\ UNCHANGED <<old, json, cache, promised, tried>>
    BY <1>10 DEF Remove, legacyVars
  <2>2. job'.to = job.to /\ IsStore(job.to)
    BY <2>1, FileAt DEF RegisterInv, JobOK, StoresOK
  <2>3. IsDirectory(disk')
    BY <2>1, DirectoryWithout DEF StoresOK
  <2>. QED
    BY <2>1, <2>2, <2>3 DEF StoresOK
<1>11. CASE FailWrite
  <2>1. job' = Idle /\ UNCHANGED <<disk, old, json, cache, promised, tried>>
    BY <1>11 DEF FailWrite, legacyVars
  <2>. QED
    BY <2>1 DEF StoresOK
<1>12. CASE Commit
  <2>1. /\ job # Idle /\ cache' = job.to /\ promised' = job.to /\ job' = Idle /\ tried' = {}
        /\ UNCHANGED <<disk, old, json>>
    BY <1>12 DEF Commit, legacyVars
  <2>. QED
    BY <2>1 DEF StoresOK
<1>13. CASE Crash
  <2>1. cache' = None /\ job' = Idle /\ UNCHANGED <<disk, old, json, promised, tried>>
    BY <1>13 DEF Crash, legacyVars
  <2>. QED
    BY <2>1 DEF StoresOK
<1>. QED
  BY <1>1, <1>2, <1>3, <1>4, <1>5, <1>6, <1>7, <1>8, <1>9, <1>10, <1>11, <1>12, <1>13
     DEF Next, Boot, Update
---------------------------------------------------------------------------
(* While nothing went wrong, bindings resolve. *)

(* It is only the keys' and the proxies' files that bindings are about. *)
LEMMA ResolvedSame ==
    ASSUME NEW s, NEW t, s["api_keys"] = t["api_keys"], s["proxies"] = t["proxies"]
    PROVE  BindingsResolved(s) <=> BindingsResolved(t)
BY DEF BindingsResolved, ValidReference, Keys, Proxies

\* New keys beside old proxies resolve if the new keys resolve in the old store.
LEMMA ResolvedMixed ==
    ASSUME NEW s, NEW t, NEW u, KeysResolveIn(u, t), s["api_keys"] = u["api_keys"],
           s["proxies"] = t["proxies"]
    PROVE  BindingsResolved(s)
BY DEF BindingsResolved, KeysResolveIn, ValidReference, Keys, Proxies

\* The default has no keys to resolve.
LEMMA DefaultResolved == BindingsResolved(Default)
<1>1. Default["api_keys"] = DefaultList
  BY Names DEF Default, DefaultRows, Opaque
<1>. QED
  BY <1>1 DEF BindingsResolved, Keys, DefaultList, NoRows

\* A full directory is opened as it lies there.
LEMMA KeptFull ==
    ASSUME NEW dir, NEW flat, Files \subseteq DOMAIN dir
    PROVE  /\ \A f \in Files : Kept(dir, flat)[f] = Content(dir, f)
           /\ \A at : ~JsonOnly(dir, flat, at)
BY Names, KeptOf DEF JsonOnly

\* What the first start finds resolves.
LEMMA ResolvingInit == Init => Resolving
<1>. SUFFICES ASSUME Init PROVE Resolving
  OBVIOUS
<1>1. PICK l \in Legacies : /\ disk = l.disk /\ old = l.old /\ json = l.json /\ jsonAt = l.jsonAt
                            /\ promised = Promise(l)
  BY DEF Init
<1>2. BindingsResolved(Promise(l))
  BY LegaciesAssumption DEF LegaciesAssumption
<1>3. BindingsResolved(IF JsonOnly(disk, old, jsonAt) THEN json ELSE Kept(disk, old))
  BY <1>1, <1>2 DEF Promise
<1>. QED
  BY <1>3 DEF Init, Resolving

(* The steps of a start. *)
LEMMA ResolvingBoot ==
    ASSUME RegisterInv, RegisterInv', StoresOK, Resolving, Boot PROVE Resolving'
<1>1. CASE Start
  <2>1. /\ phase = "down" /\ phase' = "moving" /\ UNCHANGED <<disk, old, json, jsonAt, job, faults>>
    BY <1>1 DEF Start, legacyVars, historyVars
  <2>. QED
    BY <2>1 DEF Resolving
<1>2. ASSUME NEW g \in Files, MoveLegacyFile(g) PROVE Resolving'
  <2>1. /\ phase = "moving" /\ g \in DOMAIN old /\ g \notin DOMAIN disk
        /\ disk' = Put(disk, g, old[g]) /\ old' = Without(old, {g})
        /\ UNCHANGED <<json, jsonAt, phase, job, faults>>
    BY <1>2 DEF MoveLegacyFile, Movable, historyVars
  <2>2. /\ DOMAIN disk' = DOMAIN disk \cup {g} /\ disk'[g] = old[g]
        /\ \A f \in DOMAIN disk : disk'[f] = disk[f]
        /\ DOMAIN old' = DOMAIN old \ {g} /\ \A f \in DOMAIN old' : old'[f] = old[f]
    BY <2>1 DEF Put, Without, Restrict
  <2>3. ~JsonOnly(disk, old, jsonAt) /\ ~JsonOnly(disk', old', jsonAt')
    BY <2>1, <2>2 DEF JsonOnly
  <2>4. ASSUME NEW f \in Files PROVE Kept(disk', old')[f] = Kept(disk, old)[f]
    <3>1. CASE f \in DOMAIN disk'
      BY <3>1, <2>1, <2>2, KeptOf, ContentOf
    <3>2. CASE f \notin DOMAIN disk'
      <4>1. f \notin DOMAIN disk /\ Content(old', f) = Content(old, f)
        BY <3>2, <2>2, ContentOf
      <4>. QED
        BY <3>2, <4>1, KeptOf
    <3>. QED
      BY <3>1, <3>2
  <2>5. BindingsResolved(Kept(disk, old)) <=> BindingsResolved(Kept(disk', old'))
    BY <2>4, Names, ResolvedSame
  <2>. QED
    BY <2>1, <2>3, <2>5 DEF Resolving
<1>3. CASE Layout
  <2>1. /\ phase = "moving" /\ \A f \in Files : ~Movable(f)
        /\ UNCHANGED <<disk, old, json, jsonAt, faults>>
    BY <1>3 DEF Layout, legacyVars, historyVars
  <2>2. CASE HasData
    BY <1>3, <2>1, <2>2 DEF Layout, Resolving
  <2>3. CASE ~HasData
    <3>1. /\ phase' = "create" /\ DOMAIN disk = {} /\ DOMAIN old = {}
          /\ job'.to = IF jsonAt = "data" THEN json ELSE Default
      <4>1. DOMAIN old \subseteq DOMAIN disk
        BY <2>1, OldNames DEF Movable, RegisterInv
      <4>2. phase' = "create" /\ job' = Writing(IF jsonAt = "data" THEN json ELSE Default)
        BY <1>3, <2>3 DEF Layout
      <4>3. job'.to = IF jsonAt = "data" THEN json ELSE Default
        BY <4>2 DEF Writing
      <4>. QED
        BY <2>3, <4>1, <4>2, <4>3 DEF HasData
    <3>2. faults = {} => BindingsResolved(job'.to)
      BY <2>1, <3>1, DefaultResolved DEF Resolving, JsonOnly
    <3>. QED
      BY <2>1, <3>1, <3>2 DEF Resolving
  <2>. QED
    BY <2>2, <2>3
<1>4. CASE Created
  <2>1. /\ phase = "create" /\ phase' = "ensure" /\ cache' = job.to
        /\ UNCHANGED <<disk, old, faults>>
    BY <1>4 DEF Created, historyVars
  <2>2. \A f \in Files : f \in DOMAIN disk' /\ disk'[f] = <<job.to[f]>>
    <3>1. cache' # None => \A f \in Files : f \in DOMAIN disk' /\ disk'[f] = <<cache'[f]>>
      BY <2>1 DEF RegisterInv, StartOK
    <3>2. job # Idle /\ job.at \in 1 .. 11 /\ job.at > 10
      BY <1>4, Names DEF Created, RegisterInv, StartOK, JobOK
    <3>3. \A i \in 1 .. 10 :
            WriteOrder[i] \in DOMAIN disk /\ disk[WriteOrder[i]] = <<job.to[WriteOrder[i]]>>
      BY <3>2 DEF RegisterInv, JobOK
    <3>. QED
      BY <2>1, <3>3, Names
  <2>3. \A f \in Files : Kept(disk', old')[f] = job.to[f]
    BY <2>2, KeptOf DEF Content
  <2>4. ~JsonOnly(disk', old', jsonAt')
    BY <2>2, KeptFull
  <2>5. BindingsResolved(Kept(disk', old')) <=> BindingsResolved(job.to)
    BY <2>3, Names, ResolvedSame
  <2>. QED
    BY <2>1, <2>4, <2>5 DEF Resolving
<1>5. ASSUME NEW n \in DOMAIN WriteOrder, EnsureFile(n) PROVE Resolving'
  <2>1. PICK g \in Files : g = WriteOrder[n]
    BY <1>5, Names
  <2>2. /\ phase = "ensure" /\ g \notin DOMAIN disk /\ disk' = Put(disk, g, <<Default[g]>>)
        /\ UNCHANGED <<old, json, jsonAt, phase, job, faults>>
    BY <1>5, <2>1 DEF EnsureFile, legacyVars, historyVars
  <2>3. /\ DOMAIN disk' = DOMAIN disk \cup {g} /\ disk'[g] = <<Default[g]>>
        /\ \A f \in DOMAIN disk : disk'[f] = disk[f]
    BY <2>2 DEF Put
  <2>4. g \notin DOMAIN old /\ ~JsonOnly(disk, old, jsonAt) /\ ~JsonOnly(disk', old', jsonAt')
    BY <2>2, <2>3 DEF RegisterInv, StartOK, JsonOnly
  <2>5. ASSUME NEW f \in Files PROVE Kept(disk', old')[f] = Kept(disk, old)[f]
    <3>1. CASE f = g
      <4>1. Kept(disk', old')[f] = Default[f]
        BY <3>1, <2>3, KeptOf DEF Content
      <4>2. Kept(disk, old)[f] = Default[f]
        BY <3>1, <2>2, <2>4, KeptOf, ContentOf
      <4>. QED
        BY <4>1, <4>2
    <3>2. CASE f # g
      BY <3>2, <2>2, <2>3, KeptOf, ContentOf
    <3>. QED
      BY <3>1, <3>2
  <2>6. BindingsResolved(Kept(disk, old)) <=> BindingsResolved(Kept(disk', old'))
    BY <2>5, Names, ResolvedSame
  <2>. QED
    BY <2>2, <2>4, <2>6 DEF Resolving
<1>6. CASE Open
  <2>1. /\ phase = "ensure" /\ DOMAIN disk = Files /\ phase' = "up"
        /\ UNCHANGED <<disk, old, json, jsonAt, job, faults>>
        /\ \A f \in Files : cache'[f] = Kept(disk, old)[f]
    BY <1>6, OpenKeeps DEF Open, legacyVars
  <2>2. job = Idle
    BY <2>1 DEF RegisterInv, JobOK
  <2>3. \A f \in Files : Content(disk, f) = cache'[f] /\ ~JsonOnly(disk, old, jsonAt)
    BY <2>1, KeptFull
  <2>4. BindingsResolved(Kept(disk, old)) <=> BindingsResolved(cache')
    BY <2>1, Names, ResolvedSame
  <2>5. faults \subseteq {"write"} => faults = {} /\ BindingsResolved(cache')
    BY <2>1, <2>3, <2>4, Names DEF Resolving
  <2>. QED
    BY <2>1, <2>2, <2>3, <2>5, Names DEF Resolving
<1>. QED
  BY <1>1, <1>2, <1>3, <1>4, <1>5, <1>6 DEF Boot

(* Nothing but a commit changes what the process has read, and each file   *)
(* is the cache's until the write has been there.                          *)
LEMMA ResolvingReplace ==
    ASSUME RegisterInv, StoresOK, Resolving, Replace PROVE Resolving'
<1>1. /\ InWrite /\ disk' = Put(disk, File, <<job.to[File]>>)
      /\ job' = [job EXCEPT !.at = @ + 1, !.removed = FALSE]
      /\ lost' \in {lost, lost \ {File}}
      /\ UNCHANGED <<old, json, jsonAt, cache, phase, faults>>
  BY DEF Replace, legacyVars
<1>2. /\ job.at \in 1 .. 10 /\ job # Idle /\ phase \in {"create", "up"}
      /\ job' = [to |-> job.to, at |-> job.at + 1, removed |-> FALSE]
  BY <1>1, FileAt DEF RegisterInv, JobOK
<1>3. job'.to = job.to /\ job'.at = job.at + 1 /\ job' # Idle
  BY <1>2 DEF Idle
<1>4. PICK g \in Files : g = File /\ g = WriteOrder[job.at]
  BY <1>1, FileAt DEF RegisterInv, File
<1>5. \A f \in Files \ {g} : Content(disk', f) = Content(disk, f) /\ (f \in lost => f \in lost')
  BY <1>1, <1>4 DEF Put, Content
<1>6. ASSUME phase = "up", faults = {}, NEW i \in 1 .. 10
      PROVE  LET f == WriteOrder[i] IN Progress(i)' \/ f \in lost' \/ Content(disk', f) = cache[f]
  <2>1. CASE i <= job.at
    BY <1>2, <1>3, <2>1 DEF Progress
  <2>2. CASE ~(i <= job.at)
    <3>1. WriteOrder[i] \in Files \ {g} /\ ~Progress(i)
      BY <1>2, <1>4, <2>2, Names DEF Progress
    <3>2. WriteOrder[i] \in lost \/ Content(disk, WriteOrder[i]) = cache[WriteOrder[i]]
      BY <1>6, <3>1 DEF Resolving
    <3>. QED
      BY <1>5, <3>1, <3>2
  <2>. QED
    BY <2>1, <2>2
<1>. QED
  BY <1>1, <1>2, <1>3, <1>6 DEF Resolving

\* A file taken away is counted as lost.
LEMMA ResolvingRemove ==
    ASSUME RegisterInv, StoresOK, Resolving, Remove PROVE Resolving'
<1>1. /\ InWrite /\ disk' = Without(disk, {File}) /\ lost' = lost \cup {File}
      /\ job' = [job EXCEPT !.removed = TRUE]
      /\ UNCHANGED <<old, json, jsonAt, cache, phase, faults>>
  BY DEF Remove, legacyVars
<1>2. /\ job.at \in 1 .. 10 /\ job # Idle /\ phase \in {"create", "up"}
      /\ job' = [to |-> job.to, at |-> job.at, removed |-> TRUE]
  BY <1>1, FileAt DEF RegisterInv, JobOK
<1>3. job'.to = job.to /\ job'.at = job.at /\ job' # Idle
  BY <1>2 DEF Idle
<1>4. PICK g \in Files : g = File
  BY <1>1, FileAt DEF RegisterInv
<1>5. \A f \in Files \ {g} : Content(disk', f) = Content(disk, f)
  BY <1>1, <1>4 DEF Without, Restrict, Content
<1>6. ASSUME phase = "up", faults = {}, NEW i \in 1 .. 10
      PROVE  LET f == WriteOrder[i] IN Progress(i)' \/ f \in lost' \/ Content(disk', f) = cache[f]
  <2>1. WriteOrder[i] \in Files
    BY Names
  <2>2. Progress(i) \/ WriteOrder[i] \in lost \/ Content(disk, WriteOrder[i]) = cache[WriteOrder[i]]
    BY <1>6 DEF Resolving
  <2>3. Progress(i) => Progress(i)'
    BY <1>3 DEF Progress
  <2>. QED
    BY <1>1, <1>4, <1>5, <2>1, <2>2, <2>3
<1>. QED
  BY <1>1, <1>2, <1>3, <1>6 DEF Resolving

\* The updates keep what resolves resolving.
LEMMA ResolvingUpdate ==
    ASSUME RegisterInv, StoresOK, Resolving, Update PROVE Resolving'
<1>1. CASE BeginUpdate
  <2>1. PICK s \in Updates(cache) : job' = Writing(s)
    BY <1>1 DEF BeginUpdate
  <2>2. phase = "up" /\ job = Idle /\ UNCHANGED <<disk, cache, phase, lost, faults>>
    BY <1>1 DEF BeginUpdate
  <2>3. IsStore(cache)
    BY <2>2 DEF RegisterInv, UpOK, StoresOK
  <2>4. BindingsResolved(cache) => BindingsResolved(s) /\ KeysResolveIn(s, cache)
    BY <2>3, UpdateProceeds DEF Proceeds
  <2>5. job'.to = s /\ \A i \in 1 .. 10 : ~Progress(i)
    BY <2>1, <2>2 DEF Writing, Progress
  <2>. QED
    BY <2>2, <2>4, <2>5 DEF Resolving
<1>2. CASE FailWrite
  <2>1. /\ phase = "up" /\ job' = Idle /\ faults' = faults \cup {"write"}
        /\ UNCHANGED <<phase, cache>>
    BY <1>2 DEF FailWrite
  <2>. QED
    BY <2>1 DEF Resolving
<1>3. CASE Commit
  <2>1. /\ phase = "up" /\ job # Idle /\ cache' = job.to /\ job' = Idle
        /\ faults' = faults \ {"write"} /\ UNCHANGED <<disk, phase>>
    BY <1>3 DEF Commit
  <2>2. ASSUME NEW f \in Files PROVE Content(disk, f) = job.to[f]
    <3>1. f \in DOMAIN disk /\ disk[f] = <<job.to[f]>>
      BY <1>3, CommitKeeps
    <3>. QED
      BY <3>1 DEF Content
  <2>3. faults' \subseteq {"write"} => faults \subseteq {"write"}
    BY <2>1
  <2>. QED
    BY <2>1, <2>2, <2>3, Names DEF Resolving
<1>. QED
  BY <1>1, <1>2, <1>3, ResolvingReplace, ResolvingRemove DEF Update

(* What a crash leaves: of the keys' file and the proxies', both, none or  *)
(* the first alone are of the update it cut off.                           *)
LEMMA ResolvingCrash ==
    ASSUME RegisterInv, StoresOK, Ranges, Resolving, Crash PROVE Resolving'
<1>1. /\ phase # "down" /\ phase' = "down" /\ UNCHANGED <<disk, old, json, jsonAt>>
      /\ faults' = faults \cup (IF lost # {} THEN {"lost"} ELSE {})
                          \cup (IF "write" \in faults THEN {"torn"} ELSE {})
  BY DEF Crash, legacyVars
<1>2. faults' \subseteq {"write"} => faults' = {} /\ faults = {} /\ lost = {}
  BY <1>1
<1>3. ASSUME faults = {}, lost = {}
      PROVE  BindingsResolved(IF JsonOnly(disk, old, jsonAt) THEN json ELSE Kept(disk, old))
  <2>1. CASE phase \in {"moving", "ensure"}
    BY <1>3, <2>1 DEF Resolving
  <2>2. CASE phase = "create"
    <3>1. Files # {}
      BY Names
    <3>2. /\ jsonAt # "data" /\ DOMAIN old = {}
          /\ \A f \in DOMAIN disk : disk[f] = <<Default[f]>>
      BY <1>3, <2>2, <3>1 DEF RegisterInv, StartOK
    <3>3. \A f \in Files : Kept(disk, old)[f] = Default[f]
      BY <3>2 DEF Kept, Content
    <3>4. BindingsResolved(Kept(disk, old))
      BY <3>3, Names, ResolvedSame, DefaultResolved
    <3>. QED
      BY <3>2, <3>4 DEF JsonOnly
  <2>3. CASE phase = "up"
    <3>1. Files \subseteq DOMAIN disk
      BY <1>3, <2>3 DEF RegisterInv, UpOK
    <3>2. ~JsonOnly(disk, old, jsonAt) /\ \A f \in Files : Kept(disk, old)[f] = Content(disk, f)
      BY <3>1, KeptFull
    <3>3. \A i \in 1 .. 10 : ~Progress(i) => Content(disk, WriteOrder[i]) = cache[WriteOrder[i]]
      BY <1>3, <2>3 DEF Resolving
    <3>4. ASSUME NEW i \in 1 .. 10, Progress(i)
          PROVE  Content(disk, WriteOrder[i]) = job.to[WriteOrder[i]]
      <4>1. WriteOrder[i] \in DOMAIN disk /\ disk[WriteOrder[i]] = <<job.to[WriteOrder[i]]>>
        BY <3>4 DEF Progress, RegisterInv, JobOK
      <4>. QED
        BY <4>1 DEF Content
    <3>5. /\ BindingsResolved(cache)
          /\ job # Idle => BindingsResolved(job.to) /\ KeysResolveIn(job.to, cache)
      BY <1>3, <2>3 DEF Resolving
    <3>6. "api_keys" \in Files /\ "proxies" \in Files
          /\ WriteOrder[1] = "api_keys" /\ WriteOrder[2] = "proxies"
      BY Names
    <3>7. Progress(2) => Progress(1)
      BY DEF Progress, RegisterInv, JobOK
    <3>8. CASE ~Progress(1)
      <4>1. /\ Kept(disk, old)["api_keys"] = cache["api_keys"]
            /\ Kept(disk, old)["proxies"] = cache["proxies"]
        BY <3>2, <3>3, <3>6, <3>7, <3>8
      <4>2. BindingsResolved(Kept(disk, old))
        BY <3>5, <4>1, ResolvedSame
      <4>. QED
        BY <3>2, <4>2
    <3>9. CASE Progress(1) /\ ~Progress(2)
      <4>1. /\ Kept(disk, old)["api_keys"] = job.to["api_keys"]
            /\ Kept(disk, old)["proxies"] = cache["proxies"]
        BY <3>2, <3>3, <3>4, <3>6, <3>9
      <4>2. KeysResolveIn(job.to, cache)
        BY <3>5, <3>9 DEF Progress
      <4>3. BindingsResolved(Kept(disk, old))
        BY <4>1, <4>2, ResolvedMixed
      <4>. QED
        BY <3>2, <4>3
    <3>10. CASE Progress(2)
      <4>1. /\ Kept(disk, old)["api_keys"] = job.to["api_keys"]
            /\ Kept(disk, old)["proxies"] = job.to["proxies"]
        BY <3>2, <3>4, <3>6, <3>7, <3>10
      <4>2. BindingsResolved(job.to)
        BY <3>5, <3>10 DEF Progress
      <4>3. BindingsResolved(Kept(disk, old))
        BY <4>1, <4>2, ResolvedSame
      <4>. QED
        BY <3>2, <4>3
    <3>. QED
      BY <3>8, <3>9, <3>10
  <2>. QED
    BY <1>1, <2>1, <2>2, <2>3 DEF Ranges
<1>. QED
  BY <1>1, <1>2, <1>3 DEF Resolving

---------------------------------------------------------------------------
(* No id is given out twice, unless a file was lost. *)

\* No step leaves the ranges.
LEMMA RangesStep ==
    ASSUME RegisterInv, StoresOK, StoresOK', Ranges, [Next]_vars PROVE Ranges'
<1>1. CASE UNCHANGED vars
  BY <1>1 DEF vars, historyVars, Ranges
<1>2. CASE Boot
  <2>1. /\ phase' \in {phase, "moving", "create", "ensure", "up"} /\ lost' \subseteq lost
        /\ faults' = faults /\ (issued' = issued \/ issued' = issued \cup Proxies(cache'))
        /\ issued' # issued => cache' = promised'
    BY <1>2 DEF Boot, Start, MoveLegacyFile, Layout, Created, EnsureFile, Open, historyVars
  <2>2. issued' # issued => Proxies(cache') \subseteq Nat
    BY <2>1, StoreIsRows DEF StoresOK, RowsTyped, IsList, Proxies
  <2>. QED
    BY <2>1, <2>2 DEF Ranges
<1>3. CASE BeginUpdate \/ Replace \/ Remove \/ FailWrite
  <2>1. /\ phase' = phase /\ issued' = issued /\ faults' \subseteq faults \cup {"write"}
        /\ lost' \subseteq lost \cup {File} /\ (lost' \subseteq lost \/ InWrite)
    BY <1>3 DEF BeginUpdate, Replace, Remove, FailWrite
  <2>2. InWrite => File \in Files
    BY FileAt DEF RegisterInv
  <2>. QED
    BY <2>1, <2>2 DEF Ranges
<1>4. CASE Commit
  <2>1. /\ phase' = phase /\ issued' = issued \cup Proxies(job.to) /\ faults' \subseteq faults
        /\ lost' = {} /\ IsStore(job.to)
    BY <1>4 DEF Commit, StoresOK
  <2>2. Proxies(job.to) \subseteq Nat
    BY <2>1, StoreIsRows DEF RowsTyped, IsList, Proxies
  <2>. QED
    BY <2>1, <2>2 DEF Ranges
<1>5. CASE Crash
  BY <1>5 DEF Crash, Ranges
<1>. QED
  BY <1>1, <1>2, <1>3, <1>4, <1>5 DEF Next, Update

(* The ids in a store are below its counter. *)
LEMMA IdsBelow ==
    ASSUME NEW s, IsStore(s)
    PROVE  s.proxies.next \in Nat /\ \A p \in Proxies(s) : p \in Nat /\ p < s.proxies.next
BY StoreIsRows DEF RowsTyped, IsList, Proxies

\* At first no id was given out.
LEMMA IssuingInit == Init => Issuing
BY DEF Init, Issuing

\* No start opens a counter below an id that was given out.
LEMMA IssuingBoot ==
    ASSUME RegisterInv, RegisterInv', StoresOK, StoresOK', Ranges, Issuing, Boot PROVE Issuing'
<1>1. CASE Start
  BY <1>1 DEF Start, Issuing, legacyVars, historyVars
<1>2. ASSUME NEW g \in Files, MoveLegacyFile(g) PROVE Issuing'
  <2>1. disk' = Put(disk, g, old[g]) /\ UNCHANGED <<phase, promised, tried, lost, issued, faults>>
    BY <1>2 DEF MoveLegacyFile, historyVars
  <2>2. DOMAIN disk' = DOMAIN disk \cup {g}
    BY <2>1 DEF Put
  <2>. QED
    BY <2>1, <2>2 DEF Issuing
<1>3. CASE Layout
  <2>1. /\ phase = "moving" /\ (HasData \/ phase' = "create") /\ (HasData => phase' = "ensure")
        /\ UNCHANGED <<disk, promised, tried, lost, issued, faults>>
    BY <1>3 DEF Layout, historyVars
  <2>2. DOMAIN disk = Files => HasData
    BY Names DEF HasData
  <2>. QED
    BY <2>1, <2>2 DEF Issuing
<1>4. CASE Created
  BY <1>4 DEF Created, Issuing, historyVars
<1>5. ASSUME NEW n \in DOMAIN WriteOrder, EnsureFile(n) PROVE Issuing'
  <2>1. /\ disk' = Put(disk, WriteOrder[n], <<Default[WriteOrder[n]]>>) /\ WriteOrder[n] \in Files
        /\ UNCHANGED <<phase, promised, tried, lost, issued, faults>>
    BY <1>5, Names DEF EnsureFile, legacyVars, historyVars
  <2>2. DOMAIN disk' = DOMAIN disk \cup {WriteOrder[n]}
    BY <2>1 DEF Put
  <2>. QED
    BY <2>1, <2>2 DEF Issuing
<1>6. CASE Open
  <2>1. /\ phase = "ensure" /\ phase' = "up" /\ promised' = cache' /\ tried' = {} /\ lost' = {}
        /\ issued' = issued \cup Proxies(cache') /\ faults' = faults
    BY <1>6 DEF Open
  <2>2. "proxies" \in Files /\ cache'["proxies"] \in Explained("proxies")
    BY <1>6, OpenKeeps, Names DEF RegisterInv, DiskOK
  <2>3. ASSUME "lost" \notin faults, NEW p \in issued PROVE p < cache'["proxies"].next
    <3>1. lost = {} /\ p < promised["proxies"].next /\ \A t \in tried : p < t["proxies"].next
      BY <2>1, <2>3 DEF Issuing
    <3>2. \/ cache'["proxies"] = promised["proxies"]
          \/ \E t \in tried : cache'["proxies"] = t["proxies"]
      BY <2>2, <3>1 DEF Explained
    <3>. QED
      BY <3>1, <3>2
  <2>4. \A p \in Proxies(cache') : p \in Nat /\ p < cache'["proxies"].next
    BY <2>1, IdsBelow DEF StoresOK
  <2>. QED
    BY <2>1, <2>3, <2>4 DEF Issuing, Ranges
<1>. QED
  BY <1>1, <1>2, <1>3, <1>4, <1>5, <1>6 DEF Boot

\* No update lowers a counter.
LEMMA IssuingUpdate ==
    ASSUME RegisterInv, StoresOK, Issuing, Update PROVE Issuing'
<1>1. CASE BeginUpdate
  <2>1. PICK s \in Updates(cache) : tried' = tried \cup {s}
    BY <1>1 DEF BeginUpdate
  <2>2. phase = "up" /\ UNCHANGED <<phase, promised, issued, faults>> /\ cache = promised
    BY <1>1 DEF BeginUpdate, RegisterInv, UpOK
  <2>3. IsStore(promised) /\ IsStore(s) /\ promised.proxies.next <= s.proxies.next
    BY <2>2, UpdateProceeds DEF StoresOK, Proceeds
  <2>4. promised.proxies.next \in Nat /\ s.proxies.next \in Nat
    BY <2>3, IdsBelow
  <2>. QED
    BY <2>1, <2>2, <2>3, <2>4 DEF Issuing
<1>2. CASE Replace \/ Remove
  <2>1. /\ phase \in {"create", "up"} /\ phase' = phase
        /\ UNCHANGED <<promised, tried, issued, faults>>
    BY <1>2, FileAt DEF Replace, Remove, RegisterInv
  <2>. QED
    BY <2>1 DEF Issuing
<1>3. CASE FailWrite
  <2>1. /\ phase = "up" /\ UNCHANGED <<phase, promised, tried, issued>>
        /\ faults' = faults \cup {"write"}
    BY <1>3 DEF FailWrite
  <2>. QED
    BY <2>1 DEF Issuing
<1>4. CASE Commit
  <2>1. /\ phase = "up" /\ phase' = phase /\ promised' = job.to /\ tried' = {} /\ job # Idle
        /\ issued' = issued \cup Proxies(job.to) /\ faults' = faults \ {"write"}
    BY <1>4 DEF Commit
  <2>2. job.to \in tried
    BY <1>4, CommitKeeps
  <2>3. \A p \in Proxies(job.to) : p \in Nat /\ p < job.to.proxies.next
    BY <2>1, IdsBelow DEF StoresOK
  <2>. QED
    BY <2>1, <2>2, <2>3 DEF Issuing
<1>. QED
  BY <1>1, <1>2, <1>3, <1>4 DEF Update

\* A crash leaves a full directory, or counts the lost file.
LEMMA IssuingCrash == ASSUME RegisterInv, Issuing, Crash PROVE Issuing'
<1>1. /\ phase' = "down" /\ UNCHANGED <<disk, promised, tried, lost, issued>>
      /\ "lost" \notin faults' => "lost" \notin faults /\ lost = {}
  BY DEF Crash
<1>2. phase = "up" /\ lost = {} => DOMAIN disk = Files
  BY DEF RegisterInv, UpOK, DiskOK
<1>. QED
  BY <1>1, <1>2 DEF Issuing

---------------------------------------------------------------------------
(* The theorems. *)

\* The invariant holds at first.
LEMMA StoreInvInit == Init => StoreInv
<1>. SUFFICES ASSUME Init PROVE StoreInv
  OBVIOUS
<1>1. Ranges
  BY DEF Init, Ranges
<1>. QED
  BY <1>1, RegisterInit, StoresInit, ResolvingInit, IssuingInit DEF StoreInv

\* Every step keeps the invariant.
LEMMA StoreInvStep == ASSUME StoreInv, [Next]_vars PROVE StoreInv'
<1>1. RegisterInv'
  BY RegisterStep DEF StoreInv
<1>2. StoresOK'
  BY <1>1, StoresStep DEF StoreInv
<1>3. Ranges'
  BY <1>2, RangesStep DEF StoreInv
<1>4. Resolving'
  <2>1. CASE UNCHANGED vars
    BY <2>1 DEF vars, legacyVars, historyVars, StoreInv, Resolving, Progress
  <2>. QED
    BY <1>1, <2>1, ResolvingBoot, ResolvingUpdate, ResolvingCrash DEF StoreInv, Next
<1>5. Issuing'
  <2>1. CASE UNCHANGED vars
    BY <2>1 DEF vars, historyVars, StoreInv, Issuing
  <2>. QED
    BY <1>1, <1>2, <2>1, IssuingBoot, IssuingUpdate, IssuingCrash DEF StoreInv, Next
<1>. QED
  BY <1>1, <1>2, <1>3, <1>4, <1>5 DEF StoreInv

\* The invariant of the store: what is on the disk is explained, typed and resolves.
THEOREM StoreInvariant == Spec => []StoreInv
BY StoreInvInit, StoreInvStep, PTL DEF Spec

\* However an update was cut off, no key that is served is bound to a proxy that is gone.
THEOREM BindingsAlwaysResolve == Spec => []BindingsResolve
<1>1. ASSUME StoreInv PROVE TypeOK
  <2>1. jsonAt \in {"none", "data", "store"}
    BY <1>1, LegaciesAssumption DEF StoreInv, RegisterInv, OldOK, LegaciesAssumption
  <2>2. job = Idle \/ (DOMAIN job.to = Files /\ job.at \in 1 .. Len(WriteOrder) + 1)
    BY <1>1, Names DEF StoreInv, RegisterInv, JobOK, StoresOK, IsStore
  <2>3. cache = None \/ DOMAIN cache = Files
    BY <1>1 DEF StoreInv, StoresOK, IsStore
  <2>4. phase = "up" => DOMAIN cache = Files
    BY <1>1 DEF StoreInv, RegisterInv, UpOK, StoresOK, IsStore
  <2>5. DOMAIN disk \subseteq Files /\ DOMAIN old \subseteq Files
    BY <1>1, OldNames DEF StoreInv, RegisterInv, DiskOK
  <2>6. \A s \in tried : DOMAIN s = Files
    BY <1>1 DEF StoreInv, StoresOK, IsStore
  <2>. QED
    BY <1>1, <2>1, <2>2, <2>3, <2>4, <2>5, <2>6 DEF StoreInv, Ranges, TypeOK
<1>2. StoreInv => BindingsResolve
  BY <1>1 DEF StoreInv, Resolving, BindingsResolve
<1>. QED
  BY <1>2, StoreInvariant, PTL

\* A proxy id that was served never comes to mean another proxy, unless a file was lost.
THEOREM IdsAreNew == Spec => []IdsNotReused
<1>1. StoreInv => IdsNotReused
  BY DEF StoreInv, RegisterInv, UpOK, Issuing, IdsNotReused
<1>. QED
  BY <1>1, StoreInvariant, PTL
=============================================================================
