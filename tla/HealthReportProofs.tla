------------------------- MODULE HealthReportProofs -------------------------
(***************************************************************************)
(* What HealthReport keeps for every number of requests, models, workers   *)
(* and reports: a run accounts for each of its models, the history holds   *)
(* each report once, and calm saves leave the store as memory is.          *)
(***************************************************************************)
EXTENDS HealthReport, FiniteSetTheorems, SequenceTheorems, WellFoundedInduction, TLAPS

State == [latest: Reports, history: Seq(Reports), active: Reports, sweep: Reports,
          catalog: SUBSET Models]
Request == [kind: {"none", "all", "single", "models", "get"}, id: Reports, state: State]
Run == [todo: SUBSET Models, busy: SUBSET Models, done: SUBSET Models, skipped: SUBSET Models,
        open: BOOLEAN, late: BOOLEAN, ran: BOOLEAN]

Types ==
    /\ mem \in State /\ disk \in State
    /\ at \in [Handlers -> {"idle", "load", "fill", "work", "probe", "check", "save"}]
    /\ req \in [Handlers -> Request] /\ pool \in [Handlers -> Run]
    /\ checks \in Reports /\ hydrated \in BOOLEAN /\ calm \in BOOLEAN

(* A run exists while its request checks, has no more workers than it may, *)
(* skips nothing before it stops handing models out, and accounts for all. *)
RunOK(h) ==
    /\ Cardinality(pool[h].busy) <= Workers
    /\ pool[h].ran => at[h] = "check"
    /\ pool[h].open => pool[h].skipped = {}
    /\ pool[h].ran /\ req[h].kind = "all" =>
         Asked(h) = req[h].state.catalog /\ (pool[h].skipped # {} => pool[h].late)
RunsOK == \A h \in Handlers : RunOK(h)

(* A history, wherever a copy of it is, is that of checks made so far (c),  *)
(* each of them once, and without those that are still at work.            *)
Sound(history, c, where, requests) ==
    /\ Len(history) <= HistoryLimit
    /\ \A i, j \in 1 .. Len(history) : i < j => history[i] # history[j]
    /\ \A i \in 1 .. Len(history) : history[i] <= c
    /\ \A h \in Handlers : where[h] = "check" =>
         \A i \in 1 .. Len(history) : history[i] # requests[h].id
SoundNow(state) == Sound(state.history, checks, at, req)
CheckOK(h) ==
    at[h] = "check" =>
      /\ req[h].id <= checks /\ req[h].state.latest = req[h].id
      /\ \A g \in Handlers \ {h} : at[g] = "check" => req[g].id # req[h].id
HistoriesOK ==
    /\ SoundNow(mem) /\ SoundNow(disk) /\ \A h \in Handlers : SoundNow(req[h].state)
    /\ \A h \in Handlers : CheckOK(h)

(* As long as the saves are calm: memory is filled before a request works, *)
(* one that saves has memory's copy and nobody else saves or loads, and    *)
(* otherwise what was loaded, and memory once it is filled, are the disk's. *)
SavesOK ==
    calm =>
      /\ \A h \in Handlers : at[h] \in {"work", "probe", "check", "save"} => hydrated
      /\ ~hydrated => mem = Empty
      /\ \A h \in Handlers : at[h] = "save" =>
           /\ req[h].state = mem
           /\ \A g \in Handlers \ {h} : at[g] \notin {"save", "fill"}
      /\ \A h \in Handlers : at[h] = "fill" => req[h].state = disk
      /\ hydrated /\ (\A h \in Handlers : at[h] # "save") => disk = mem

HealthInv == Types /\ RunsOK /\ HistoriesOK /\ SavesOK

---------------------------------------------------------------------------
(* A set of models has a first one, which the dispatcher hands out.         *)
LEMMA FirstIsMember ==
    ASSUME NEW S \in SUBSET Models, S # {}
    PROVE  Next1(S) \in S
<1>1. \E m \in S : \A n \in S : ~(<<n, m>> \in OpToRel(<, Nat))
  BY NatLessThanWellFounded, WFMin, HealthAssumption DEF HealthAssumption
<1>2. PICK m \in S : \A n \in S : ~(<<n, m>> \in OpToRel(<, Nat))
  BY <1>1
<1>3. ASSUME NEW n \in S PROVE m <= n
  <2>1. m \in Nat /\ n \in Nat
    BY HealthAssumption DEF HealthAssumption
  <2>2. ~(<<n, m>> \in {ss \in Nat \X Nat : ss[1] < ss[2]})
    BY <1>2 DEF OpToRel
  <2>3. <<n, m>> \in {ss \in Nat \X Nat : ss[1] < ss[2]} <=> n < m
    BY <2>1
  <2>. QED
    BY <2>1, <2>2, <2>3
<1>. QED
  BY <1>3 DEF Next1

(* Nothing is lost by taking Newest of a history and its next report but   *)
(* the oldest: the elements stay as they were and differ as they did.      *)
LEMMA NewestKeeps ==
    ASSUME NEW s \in Seq(Reports), NEW x \in Reports
    PROVE  LET n == Newest(Append(s, x), HistoryLimit) IN
           /\ n \in Seq(Reports) /\ Len(n) <= HistoryLimit
           /\ \E shift \in Nat : \A i \in 1 .. Len(n) :
                n[i] = Append(s, x)[i + shift] /\ i + shift \in 1 .. Len(s) + 1
<1>. DEFINE a == Append(s, x)
            n == Newest(a, HistoryLimit)
            from == IF Len(a) > HistoryLimit THEN Len(a) - HistoryLimit + 1 ELSE 1
<1>1. a \in Seq(Reports) /\ Len(a) = Len(s) + 1 /\ Len(s) \in Nat
  BY AppendProperties
<1>2. HistoryLimit \in Nat \ {0}
  BY HealthAssumption DEF HealthAssumption
<1>3. from \in 1 .. Len(a)
  BY <1>1, <1>2
<1>4. \A i \in from .. Len(a) : a[i] \in Reports
  BY <1>1, <1>3, ElementOfSeq
<1>5. n = SubSeq(a, from, Len(a))
  BY DEF Newest
<1>. HIDE DEF a, n, from
<1>6. /\ n \in Seq(Reports) /\ Len(n) = Len(a) - from + 1
      /\ \A i \in 1 .. Len(a) - from + 1 : n[i] = a[from + i - 1]
  BY <1>1, <1>3, <1>4, <1>5, SubSeqProperties
<1>7. Len(n) <= HistoryLimit
  BY <1>1, <1>2, <1>6 DEF from
<1>8. from - 1 \in Nat
  BY <1>1, <1>3
<1>9. \A i \in 1 .. Len(n) : n[i] = a[i + (from - 1)] /\ i + (from - 1) \in 1 .. Len(s) + 1
  <2>1. ASSUME NEW i \in 1 .. Len(n) PROVE from + i - 1 = i + (from - 1) /\ i \in 1 .. Len(a) - from + 1
    BY <1>1, <1>3, <1>6
  <2>. QED
    BY <1>1, <1>3, <1>6, <2>1
<1>. QED
  BY <1>6, <1>7, <1>8, <1>9 DEF a, n

(* Bounds are numbers, and what the upstream lists are models.             *)
LEMMA Bounds ==
    /\ MaxReports \in Nat /\ Workers \in Nat \ {0} /\ HistoryLimit \in Nat \ {0}
    /\ \A c \in Listings \cup {{}} : c \in SUBSET Models
BY HealthAssumption DEF HealthAssumption

(* The records that things start as are of their types.                    *)
LEMMA Defaults == Empty \in State /\ NoRequest \in Request /\ NoPool \in Run
<1>1. 0 \in Reports /\ <<>> \in Seq(Reports)
  BY Bounds DEF Reports
<1>. QED
  BY <1>1 DEF State, Request, Run, Empty, NoRequest, NoPool

---------------------------------------------------------------------------
(* The types *)

(* Nothing is remembered at first.                                         *)
LEMMA EmptyIsSound == ASSUME NEW c, NEW where, NEW requests PROVE Sound(<<>>, c, where, requests)
BY HealthAssumption DEF Sound, HealthAssumption

(* Nothing was checked at the start.                                       *)
LEMMA InitHolds == Init => HealthInv
<1>. SUFFICES ASSUME Init PROVE HealthInv
  OBVIOUS
<1>1. Types
  <2>1. mem \in State /\ disk \in State
    BY Defaults DEF Init
  <2>2. /\ at \in [Handlers -> {"idle", "load", "fill", "work", "probe", "check", "save"}]
        /\ req \in [Handlers -> Request] /\ pool \in [Handlers -> Run]
    BY Defaults DEF Init
  <2>3. checks \in Reports
    BY Bounds DEF Init, Reports
  <2>4. hydrated \in BOOLEAN /\ calm \in BOOLEAN
    BY Zenon DEF Init
  <2>. QED
    BY <2>1, <2>2, <2>3, <2>4 DEF Types
<1>2. Cardinality({}) = 0
  BY FS_EmptySet
<1>3. RunsOK
  <2>. SUFFICES ASSUME NEW h \in Handlers
                PROVE  Cardinality(pool[h].busy) <= Workers /\ ~pool[h].ran /\ ~pool[h].open
    BY DEF RunsOK, RunOK
  <2>1. pool[h] = NoPool
    BY DEF Init
  <2>. QED
    BY <1>2, <2>1, Bounds DEF NoPool
<1>4. Sound(<<>>, checks, at, req)
  BY EmptyIsSound
<1>5. /\ Empty.history = <<>> /\ NoRequest.state = Empty
      /\ mem = Empty /\ disk = Empty /\ \A h \in Handlers : req[h] = NoRequest /\ at[h] = "idle"
  BY DEF Init, Empty, NoRequest
<1>6. HistoriesOK
  BY <1>4, <1>5 DEF HistoriesOK, SoundNow, CheckOK
<1>7. SavesOK
  BY DEF Init, SavesOK
<1>. QED
  BY <1>1, <1>3, <1>6, <1>7 DEF HealthInv

(* What fills memory, field by field, is a state.                          *)
LEMMA FilledType == ASSUME NEW m \in State, NEW s \in State PROVE Filled(m, s) \in State
BY DEF Filled, State

(* The report that a check leaves in memory.                               *)
Kept(h) ==
    LET r == req[h].state
        ran(kinds, other) == IF pool[h].ran /\ req[h].kind \in kinds THEN req[h].id ELSE other
        kept(new, old, none) == IF new # none THEN new ELSE old
    IN  [latest |-> r.latest,
         history |-> Newest(Append(mem.history, r.latest), HistoryLimit),
         active |-> kept(ran({"all", "single"}, r.active), mem.active, 0),
         sweep |-> kept(ran({"all"}, r.sweep), mem.sweep, 0),
         catalog |-> kept(r.catalog, mem.catalog, {})]

(* It is a state, whose history NewestKeeps describes.                     *)
LEMMA KeptType ==
    ASSUME Types, NEW h \in Handlers
    PROVE  Kept(h) \in State
<1>1. mem \in State /\ req[h] \in Request /\ req[h].state \in State /\ pool[h] \in Run
  BY DEF Types, Request
<1>2. Newest(Append(mem.history, req[h].state.latest), HistoryLimit) \in Seq(Reports)
  BY <1>1, NewestKeeps DEF State
<1>. HIDE DEF Newest
<1>. QED
  BY <1>1, <1>2 DEF Kept, State, Request

(* Put is what becomes of memory, the request and its run.                 *)
LEMMA PutKeeps ==
    ASSUME NEW h \in Handlers, Put(h)
    PROVE  /\ ~pool[h].open /\ pool[h].busy = {} /\ at[h] = "check"
           /\ at' = [at EXCEPT ![h] = "save"] /\ pool' = [pool EXCEPT ![h] = NoPool]
           /\ mem' = Kept(h) /\ req' = [req EXCEPT ![h].state = Kept(h)]
           /\ calm' = (calm /\ ~Others(h, {"save", "fill"}))
           /\ UNCHANGED <<disk, checks, lists, faults, hydrated>>
BY DEF Put, Kept, Goes

(* The report that a check starts with.                                    *)
NewReport(catalog) ==
    [Empty EXCEPT !.latest = checks + 1, !.catalog = catalog,
                  !.active = mem.active, !.sweep = mem.sweep]

(* A check of the models in asked begins, as the given run.                *)
Starts(h, catalog, asked, run) ==
    /\ req[h].kind \in {"all", "single"} /\ checks < MaxReports /\ checks' = checks + 1
    /\ req[h].kind = "all" => asked = catalog
    /\ run = pool[h] \/ run = [NoPool EXCEPT !.todo = asked, !.open = TRUE, !.ran = TRUE]
    /\ at[h] = "probe" /\ at' = [at EXCEPT ![h] = "check"]
    /\ pool' = [pool EXCEPT ![h] = run]
    /\ req' = [req EXCEPT ![h] = [req[h] EXCEPT !.id = checks + 1, !.state = NewReport(catalog)]]
    /\ UNCHANGED <<mem, disk, lists, faults, hydrated, calm>>

(* Probe starts one, of models.                                            *)
LEMMA ProbeStarts ==
    ASSUME NEW h \in Handlers, Types, Probe(h)
    PROVE  \E catalog \in SUBSET Models, asked \in SUBSET Models, run \in Run :
             Starts(h, catalog, asked, run)
<1>1. PICK ok \in BOOLEAN, found \in Listings \cup {{}} :
        \E asked \in IF req[h].kind = "all" THEN {Catalog(h, found)}
                     ELSE {Catalog(h, found) \cap {x} : x \in Models} :
           /\ ok \/ found = {}
           /\ Goes(h, "probe", "check")
           /\ pool' = [pool EXCEPT ![h] = IF ok /\ Catalog(h, found) # {}
                         THEN [NoPool EXCEPT !.todo = asked, !.open = TRUE, !.ran = TRUE] ELSE @]
           /\ req' = [req EXCEPT ![h].id = checks + 1,
                        ![h].state = [Empty EXCEPT !.latest = checks + 1,
                                      !.catalog = Catalog(h, found),
                                      !.active = mem.active, !.sweep = mem.sweep]]
  BY DEF Probe
<1>. DEFINE catalog == Catalog(h, found)
<1>2. catalog \in SUBSET Models
  BY Bounds DEF Types, Request, State, Catalog
<1>3. PICK asked \in SUBSET Models :
           /\ req[h].kind = "all" => asked = catalog
           /\ Goes(h, "probe", "check")
           /\ pool' = [pool EXCEPT ![h] = IF ok /\ catalog # {}
                         THEN [NoPool EXCEPT !.todo = asked, !.open = TRUE, !.ran = TRUE] ELSE @]
           /\ req' = [req EXCEPT ![h].id = checks + 1,
                        ![h].state = [Empty EXCEPT !.latest = checks + 1, !.catalog = catalog,
                                      !.active = mem.active, !.sweep = mem.sweep]]
  <2>1. PICK asked \in IF req[h].kind = "all" THEN {catalog} ELSE {catalog \cap {x} : x \in Models} :
           /\ Goes(h, "probe", "check")
           /\ pool' = [pool EXCEPT ![h] = IF ok /\ catalog # {}
                         THEN [NoPool EXCEPT !.todo = asked, !.open = TRUE, !.ran = TRUE] ELSE @]
           /\ req' = [req EXCEPT ![h].id = checks + 1,
                        ![h].state = [Empty EXCEPT !.latest = checks + 1, !.catalog = catalog,
                                      !.active = mem.active, !.sweep = mem.sweep]]
    BY <1>1
  <2>. HIDE DEF catalog
  <2>2. asked \in SUBSET Models /\ (req[h].kind = "all" => asked = catalog)
    BY <1>2
  <2>. QED
    BY <2>1, <2>2
<1>. HIDE DEF catalog
<1>. DEFINE fresh == [NoPool EXCEPT !.todo = asked, !.open = TRUE, !.ran = TRUE]
            run == IF ok /\ catalog # {} THEN fresh ELSE pool[h]
<1>4. fresh \in Run
  BY <1>3 DEF NoPool, Run
<1>5. run \in Run /\ (run = pool[h] \/ run = fresh) /\ pool' = [pool EXCEPT ![h] = run]
  BY <1>3, <1>4 DEF Types
<1>. HIDE DEF run
<1>6. req' = [req EXCEPT ![h] = [req[h] EXCEPT !.id = checks + 1, !.state = NewReport(catalog)]]
  BY <1>3 DEF NewReport
<1>. QED
  BY <1>2, <1>3, <1>5, <1>6 DEF Probe, Goes, Starts

(* Every step of a request keeps the types.                                *)
LEMMA TypesKept ==
    ASSUME Types, NEW h \in Handlers, Begin(h) \/ Handle(h) \/ Pool(h) \/ Deadline(h)
    PROVE  Types'
<1>. USE DEF Types
<1>0. req[h] \in Request /\ req[h].state \in State /\ pool[h] \in Run
  BY DEF Request
<1>1. CASE Begin(h)
  <2>1. PICK kind \in {"all", "single", "models", "get"} :
          req' = [req EXCEPT ![h] = [NoRequest EXCEPT !.kind = kind]]
    BY <1>1 DEF Begin
  <2>2. [NoRequest EXCEPT !.kind = kind] \in Request
    BY Defaults DEF Request
  <2>. QED
    BY <1>1, <2>1, <2>2 DEF Begin, Goes
<1>2. CASE Load(h)
  <2>1. [req[h] EXCEPT !.state = disk] \in Request
    BY <1>0 DEF Request
  <2>2. req' \in [Handlers -> Request] /\ calm' \in BOOLEAN
    BY <1>2, <2>1 DEF Load
  <2>. QED
    BY <1>2, <2>2 DEF Load, Goes
<1>3. CASE Fill(h)
  <2>1. [req[h] EXCEPT !.state = Empty] \in Request
    BY <1>0, Defaults DEF Request
  <2>2. mem' \in State
    BY <1>0, <1>3, FilledType DEF Fill
  <2>3. hydrated' \in BOOLEAN
    BY <1>3, Zenon DEF Fill
  <2>. QED
    BY <1>3, <2>1, <2>2, <2>3 DEF Fill, Goes
<1>4. CASE Answer(h)
  BY <1>4, Defaults DEF Answer, Ends, Goes
<1>5. CASE Work(h)
  <2>1. [req[h] EXCEPT !.state.catalog = mem.catalog] \in Request
    BY <1>0 DEF Request, State
  <2>. QED
    BY <1>5, <2>1 DEF Work, Goes
<1>6. CASE Probe(h)
  <2>1. PICK catalog \in SUBSET Models, asked \in SUBSET Models, run \in Run :
          Starts(h, catalog, asked, run)
    BY <1>6, ProbeStarts
  <2>2. checks + 1 \in Reports
    BY <2>1, Bounds DEF Reports, Starts
  <2>3. NewReport(catalog) \in State
    BY <2>2, Defaults DEF State, NewReport
  <2>4. [req[h] EXCEPT !.id = checks + 1, !.state = NewReport(catalog)] \in Request
    BY <1>0, <2>2, <2>3 DEF Request
  <2>. HIDE DEF NewReport
  <2>. QED
    BY <2>1, <2>2, <2>4 DEF Starts
<1>7. CASE SetModelCatalog(h)
  <2>1. PICK found \in Listings \cup {{}} :
          /\ mem' = [mem EXCEPT !.catalog = found]
          /\ req' = [req EXCEPT ![h].state = [mem EXCEPT !.catalog = found]]
    BY <1>7 DEF SetModelCatalog
  <2>2. [mem EXCEPT !.catalog = found] \in State
    BY Bounds DEF State
  <2>3. [req[h] EXCEPT !.state = [mem EXCEPT !.catalog = found]] \in Request
    BY <1>0, <2>2 DEF Request
  <2>4. calm' \in BOOLEAN
    BY <1>7 DEF SetModelCatalog
  <2>. QED
    BY <1>7, <2>1, <2>2, <2>3, <2>4 DEF SetModelCatalog, Goes
<1>8. CASE Put(h)
  <2>1. Kept(h) \in State
    BY KeptType
  <2>2. [req[h] EXCEPT !.state = Kept(h)] \in Request
    BY <1>0, <2>1 DEF Request
  <2>3. calm' \in BOOLEAN
    BY <1>8, PutKeeps
  <2>. QED
    BY <1>8, <2>1, <2>2, <2>3, PutKeeps, Defaults
<1>9. CASE Save(h)
  <2>1. calm' \in BOOLEAN
    BY <1>9 DEF Save
  <2>. QED
    BY <1>0, <1>9, <2>1, Defaults DEF Save, Ends, Goes
<1>10. ASSUME Pool(h) \/ Deadline(h)
       PROVE  \E run \in Run : pool' = [pool EXCEPT ![h] = run]
  <2>1. CASE Deadline(h)
    BY <1>0, <2>1 DEF Deadline, Run
  <2>2. CASE Dispatch(h)
    <3>1. Next1(pool[h].todo) \in Models
      BY <1>0, <2>2, FirstIsMember DEF Dispatch, Run
    <3>. HIDE DEF Next1
    <3>. QED
      BY <1>0, <2>2, <3>1 DEF Dispatch, Run
  <2>3. CASE Close(h)
    BY <1>0, <2>3 DEF Close, Run
  <2>4. ASSUME NEW m \in Models, Checked(h, m)
        PROVE  \E run \in Run : pool' = [pool EXCEPT ![h] = run]
    BY <1>0, <2>4 DEF Checked, Run
  <2>. QED
    BY <1>10, <2>1, <2>2, <2>3, <2>4 DEF Pool
<1>11. CASE Pool(h) \/ Deadline(h)
  BY <1>10, <1>11 DEF Pool, Deadline, Dispatch, Close, Checked, InPool
<1>. QED
  BY <1>1, <1>2, <1>3, <1>4, <1>5, <1>6, <1>7, <1>8, <1>9, <1>11 DEF Handle

---------------------------------------------------------------------------
(* The runs *)

(* A step of one request changes the run of no other.                      *)
LEMMA OtherRuns ==
    ASSUME Types, RunsOK, NEW h \in Handlers, Begin(h) \/ Handle(h) \/ Pool(h) \/ Deadline(h),
           NEW g \in Handlers \ {h}
    PROVE  RunOK(g)'
<1>1. pool'[g] = pool[g] /\ at'[g] = at[g] /\ req'[g] = req[g]
  <2>1. CASE Probe(h)
    <3>1. PICK catalog \in SUBSET Models, asked \in SUBSET Models, run \in Run :
            Starts(h, catalog, asked, run)
      BY <2>1, ProbeStarts
    <3>. QED
      BY <3>1 DEF Starts, Types
  <2>2. CASE Put(h)
    BY <2>2, PutKeeps DEF Types
  <2>3. CASE Pool(h) \/ Deadline(h)
    BY <2>3 DEF Pool, Deadline, Dispatch, Close, Checked, InPool, Types
  <2>4. CASE Begin(h) \/ Load(h) \/ Fill(h) \/ Answer(h) \/ Work(h) \/ SetModelCatalog(h) \/ Save(h)
    BY <2>4 DEF Types, Begin, Load, Fill, Answer, Work, SetModelCatalog, Save, Goes, Ends
  <2>. QED
    BY <2>1, <2>2, <2>3, <2>4 DEF Handle
<1>. QED
  BY <1>1 DEF RunsOK, RunOK, Asked

(* Nor does the request change its own run when it is not at it.           *)
LEMMA RunAsItWas ==
    ASSUME Types, RunsOK, NEW h \in Handlers, at[h] # "check", UNCHANGED pool
    PROVE  RunOK(h)'
BY DEF RunsOK, RunOK

(* A worker takes a model, or leaves one; the dispatcher stops.            *)
LEMMA RunGoesOn ==
    ASSUME Types, RunsOK, NEW h \in Handlers, Pool(h) \/ Deadline(h)
    PROVE  RunOK(h)'
<1>. USE DEF RunsOK, RunOK
<1>1. /\ pool[h] \in Run /\ at[h] = "check" /\ UNCHANGED <<at, req>>
      /\ pool[h].busy \subseteq Models /\ IsFiniteSet(Models) /\ Workers \in Nat
  BY HealthAssumption DEF Types, Run, Pool, Deadline, Dispatch, Close, Checked, InPool, HealthAssumption
<1>2. IsFiniteSet(pool[h].busy) /\ Cardinality(pool[h].busy) \in Nat
  BY <1>1, FS_Subset, FS_CardinalityType
<1>3. CASE Deadline(h)
  <2>1. pool'[h] = [pool[h] EXCEPT !.late = TRUE]
    BY <1>3 DEF Deadline, Types
  <2>2. /\ pool'[h].todo = pool[h].todo /\ pool'[h].busy = pool[h].busy
        /\ pool'[h].done = pool[h].done /\ pool'[h].skipped = pool[h].skipped
        /\ pool'[h].open = pool[h].open /\ pool'[h].late /\ pool'[h].ran = pool[h].ran
    BY <1>1, <2>1 DEF Run
  <2>3. Asked(h)' = Asked(h)
    BY <2>2 DEF Asked
  <2>. QED
    BY <1>1, <2>2, <2>3
<1>4. CASE Dispatch(h)
  <2>. DEFINE m == Next1(pool[h].todo)
  <2>1. m \in pool[h].todo
    BY <1>1, <1>4, FirstIsMember DEF Dispatch, Run
  <2>2. pool'[h] = [pool[h] EXCEPT !.todo = @ \ {m}, !.busy = @ \cup {m}]
    BY <1>4 DEF Dispatch, Types
  <2>. HIDE DEF m
  <2>3. Cardinality(pool[h].busy \cup {m}) <= Cardinality(pool[h].busy) + 1
    <3>. DEFINE busy == pool[h].busy
    <3>1. Cardinality(busy \cup {m}) = IF m \in busy THEN Cardinality(busy) ELSE Cardinality(busy) + 1
      BY <1>2, FS_AddElement
    <3>. HIDE DEF busy
    <3>2. Cardinality(busy) \in Nat
      BY <1>2 DEF busy
    <3>3. Cardinality(busy \cup {m}) <= Cardinality(busy) + 1
      BY <3>1, <3>2
    <3>. QED
      BY <3>3 DEF busy
  <2>4. Cardinality(pool[h].busy) < Workers /\ Cardinality(pool[h].busy \cup {m}) \in Nat
    BY <1>2, <1>4, FS_AddElement, FS_CardinalityType DEF Dispatch
  <2>5. Cardinality(pool[h].busy \cup {m}) <= Workers
    BY <1>1, <1>2, <2>3, <2>4
  <2>6. /\ pool'[h].todo = pool[h].todo \ {m} /\ pool'[h].busy = pool[h].busy \cup {m}
        /\ pool'[h].done = pool[h].done /\ pool'[h].skipped = pool[h].skipped
        /\ pool'[h].open = pool[h].open /\ pool'[h].late = pool[h].late /\ pool'[h].ran = pool[h].ran
    BY <1>1, <2>2 DEF Run
  <2>7. Asked(h)' = Asked(h)
    BY <2>1, <2>6 DEF Asked
  <2>. QED
    BY <1>1, <2>5, <2>6, <2>7
<1>5. CASE Close(h)
  <2>1. pool'[h] = [pool[h] EXCEPT !.open = FALSE, !.todo = {}, !.skipped = pool[h].todo]
    BY <1>5 DEF Close, Types
  <2>2. /\ pool'[h].todo = {} /\ pool'[h].busy = pool[h].busy
        /\ pool'[h].done = pool[h].done /\ pool'[h].skipped = pool[h].todo
        /\ ~pool'[h].open /\ pool'[h].late = pool[h].late /\ pool'[h].ran = pool[h].ran
    BY <1>1, <2>1 DEF Run
  <2>3. pool[h].skipped = {} /\ (pool[h].todo = {} \/ pool[h].late)
    BY <1>5 DEF Close, RunsOK, RunOK
  <2>4. Asked(h)' = Asked(h)
    BY <2>2, <2>3 DEF Asked
  <2>. QED
    BY <1>1, <2>2, <2>3, <2>4
<1>6. ASSUME NEW m \in Models, Checked(h, m) PROVE RunOK(h)'
  <2>1. pool'[h] = [pool[h] EXCEPT !.busy = @ \ {m}, !.done = @ \cup {m}]
    BY <1>6 DEF Checked, Types
  <2>2. Cardinality(pool[h].busy \ {m}) <= Workers
    BY <1>1, <1>2, FS_Subset, FS_CardinalityType
  <2>3. /\ pool'[h].todo = pool[h].todo /\ pool'[h].busy = pool[h].busy \ {m}
        /\ pool'[h].done = pool[h].done \cup {m} /\ pool'[h].skipped = pool[h].skipped
        /\ pool'[h].open = pool[h].open /\ pool'[h].late = pool[h].late /\ pool'[h].ran = pool[h].ran
    BY <1>1, <2>1 DEF Run
  <2>4. Asked(h)' = Asked(h)
    BY <1>6, <2>3 DEF Asked, Checked
  <2>. QED
    BY <1>1, <2>2, <2>3, <2>4
<1>. QED
  BY <1>3, <1>4, <1>5, <1>6 DEF Pool

(* A run starts with the models that it accounts for, and ends whole.      *)
LEMMA RunsKept ==
    ASSUME Types, RunsOK, NEW h \in Handlers, Begin(h) \/ Handle(h) \/ Pool(h) \/ Deadline(h)
    PROVE  RunsOK'
<1>. SUFFICES RunOK(h)'
  BY OtherRuns DEF RunsOK
<1>0. Cardinality({}) = 0 /\ 0 <= Workers
  BY FS_EmptySet, Bounds
<1>1. CASE Probe(h)
  <2>1. PICK catalog \in SUBSET Models, asked \in SUBSET Models, run \in Run :
          Starts(h, catalog, asked, run)
    BY <1>1, ProbeStarts
  <2>2. at'[h] = "check" /\ pool'[h] = run /\ req'[h].state = NewReport(catalog) /\ req'[h].kind = req[h].kind
    BY <2>1 DEF Starts, Types, Request
  <2>3. NewReport(catalog).catalog = catalog
    BY DEF NewReport, Empty
  <2>4. CASE run = pool[h]
    BY <2>1, <2>2, <2>4 DEF RunsOK, RunOK, Starts
  <2>5. CASE run = [NoPool EXCEPT !.todo = asked, !.open = TRUE, !.ran = TRUE]
    <3>1. /\ run.busy = {} /\ run.skipped = {} /\ run.done = {} /\ run.todo = asked
      BY <2>5 DEF NoPool
    <3>. QED
      BY <1>0, <2>1, <2>2, <2>3, <3>1 DEF RunOK, Asked, Starts
  <2>. QED
    BY <2>1, <2>4, <2>5 DEF Starts
<1>2. CASE Put(h)
  <2>1. pool'[h] = NoPool
    BY <1>2, PutKeeps DEF Types
  <2>. QED
    BY <1>0, <2>1 DEF RunOK, NoPool
<1>3. CASE Begin(h) \/ Load(h) \/ Fill(h) \/ Answer(h) \/ Work(h) \/ SetModelCatalog(h) \/ Save(h)
  BY <1>3, RunAsItWas DEF Begin, Load, Fill, Answer, Work, SetModelCatalog, Save, Goes, Ends
<1>. QED
  BY <1>1, <1>2, <1>3, RunGoesOn DEF Handle

---------------------------------------------------------------------------
(* The histories *)

(* What is sound stays so when only new numbers are given out.             *)
LEMMA SoundLater ==
    ASSUME NEW history \in Seq(Reports), NEW c \in Nat, NEW d \in Nat, c <= d,
           NEW where, NEW later, NEW requests, NEW requested,
           \A g \in Handlers : later[g] = "check" =>
             requested[g].id \in Nat
             /\ \/ where[g] = "check" /\ requested[g].id = requests[g].id
                \/ requested[g].id > c,
           Sound(history, c, where, requests)
    PROVE  Sound(history, d, later, requested)
<1>1. \A i \in 1 .. Len(history) : history[i] \in Nat
  BY ElementOfSeq, HealthAssumption DEF Reports, HealthAssumption
<1>. QED
  BY <1>1 DEF Sound

(* A step of a request gives a number out to a new check, if to any.       *)
LEMMA NumbersGrow ==
    ASSUME Types, HistoriesOK, NEW h \in Handlers, Begin(h) \/ Handle(h) \/ Pool(h) \/ Deadline(h)
    PROVE  /\ checks \in Nat /\ checks' \in Nat /\ checks <= checks'
           /\ \A g \in Handlers : at'[g] = "check" =>
                /\ req'[g].id \in Nat
                /\ \/ at[g] = "check" /\ req'[g].id = req[g].id
                   \/ req'[g].id > checks
           /\ \A g \in Handlers : CheckOK(g)'
<1>. USE DEF Types, HistoriesOK, CheckOK
<1>0. checks \in Nat /\ \A g \in Handlers : req[g].id \in Nat /\ req[g] \in Request
  BY Bounds DEF Request, Reports
<1>1. CASE Probe(h)
  <2>1. PICK catalog \in SUBSET Models, asked \in SUBSET Models, run \in Run :
          Starts(h, catalog, asked, run)
    BY <1>1, ProbeStarts
  <2>2. /\ at' = [at EXCEPT ![h] = "check"] /\ checks' = checks + 1
        /\ req' = [req EXCEPT ![h] = [req[h] EXCEPT !.id = checks + 1, !.state = NewReport(catalog)]]
    BY <2>1 DEF Starts
  <2>3. /\ at'[h] = "check" /\ req'[h].id = checks + 1 /\ req'[h].state = NewReport(catalog)
        /\ \A g \in Handlers \ {h} : at'[g] = at[g] /\ req'[g] = req[g]
    BY <1>0, <2>2 DEF Request
  <2>4. NewReport(catalog).latest = checks + 1
    BY DEF NewReport, Empty
  <2>. HIDE DEF NewReport
  <2>5. \A g \in Handlers : CheckOK(g)'
    BY <1>0, <2>2, <2>3, <2>4
  <2>. QED
    BY <1>0, <2>2, <2>3, <2>5
<1>2. CASE Put(h)
  <2>1. /\ checks' = checks /\ at'[h] = "save"
        /\ \A g \in Handlers \ {h} : at'[g] = at[g] /\ req'[g] = req[g]
    BY <1>2, PutKeeps
  <2>. QED
    BY <1>0, <2>1
<1>3. CASE Begin(h) \/ Load(h) \/ Fill(h) \/ Answer(h) \/ Work(h) \/ SetModelCatalog(h) \/ Save(h)
  <2>1. /\ checks' = checks /\ at[h] # "check" /\ at'[h] # "check"
        /\ \A g \in Handlers \ {h} : at'[g] = at[g] /\ req'[g] = req[g]
    BY <1>3 DEF Begin, Load, Fill, Answer, Work, SetModelCatalog, Save, Goes, Ends
  <2>. QED
    BY <1>0, <2>1
<1>4. CASE Pool(h) \/ Deadline(h)
  <2>1. UNCHANGED <<checks, at, req>>
    BY <1>4 DEF Pool, Deadline, Dispatch, Close, Checked, InPool
  <2>. QED
    BY <1>0, <2>1
<1>. QED
  BY <1>1, <1>2, <1>3, <1>4 DEF Handle

(* A finished check enters the history of which it was no part.            *)
LEMMA KeptIsSound ==
    ASSUME Types, HistoriesOK, NEW h \in Handlers, Put(h)
    PROVE  Sound(Kept(h).history, checks', at', req')
<1>. DEFINE s == mem.history
            x == req[h].state.latest
            a == Append(s, x)
            n == Newest(a, HistoryLimit)
<1>1. /\ s \in Seq(Reports) /\ x \in Reports /\ req[h].id \in Nat /\ Kept(h).history = n
      /\ \A g \in Handlers : req[g].id \in Nat
  BY Bounds DEF Types, State, Request, Kept, Reports
<1>2. /\ at[h] = "check" /\ at' = [at EXCEPT ![h] = "save"] /\ checks' = checks
      /\ \A g \in Handlers : req'[g].id = req[g].id
  BY PutKeeps DEF Types, Request
<1>3. x = req[h].id /\ x <= checks /\ \A g \in Handlers \ {h} : at[g] = "check" => req[g].id # x
  BY <1>2 DEF HistoriesOK, CheckOK
<1>4. Sound(s, checks, at, req)
  BY DEF HistoriesOK, SoundNow
<1>5. /\ Len(n) <= HistoryLimit /\ n \in Seq(Reports)
      /\ \E shift \in Nat : \A i \in 1 .. Len(n) : n[i] = a[i + shift] /\ i + shift \in 1 .. Len(s) + 1
  BY <1>1, NewestKeeps
<1>6. /\ Len(s) \in Nat /\ a[Len(s) + 1] = x
      /\ \A i \in 1 .. Len(s) : a[i] = s[i] /\ s[i] \in Reports
  BY <1>1, AppendProperties, ElementOfSeq
<1>. HIDE DEF s, x, a, n
<1>7. PICK shift \in Nat : \A i \in 1 .. Len(n) : n[i] = a[i + shift] /\ i + shift \in 1 .. Len(s) + 1
  BY <1>5
<1>8. \A i, j \in 1 .. Len(s) + 1 : i < j => a[i] # a[j]
  <2>. SUFFICES ASSUME NEW i \in 1 .. Len(s) + 1, NEW j \in 1 .. Len(s) + 1, i < j
                PROVE  a[i] # a[j]
    OBVIOUS
  <2>1. i \in 1 .. Len(s) /\ a[i] = s[i]
    BY <1>6
  <2>2. CASE j = Len(s) + 1
    BY <1>2, <1>3, <1>4, <1>6, <2>1, <2>2 DEF Sound
  <2>3. CASE j # Len(s) + 1
    <3>1. j \in 1 .. Len(s) /\ a[j] = s[j]
      BY <1>6, <2>3
    <3>. QED
      BY <1>4, <2>1, <3>1 DEF Sound
  <2>. QED
    BY <2>2, <2>3
<1>9. \A i \in 1 .. Len(s) + 1 : a[i] <= checks
  BY <1>3, <1>4, <1>6 DEF Sound
<1>10. \A g \in Handlers : at'[g] = "check" => \A i \in 1 .. Len(s) + 1 : a[i] # req'[g].id
  <2>. SUFFICES ASSUME NEW g \in Handlers, at'[g] = "check", NEW i \in 1 .. Len(s) + 1
                PROVE  a[i] # req'[g].id
    OBVIOUS
  <2>1. g # h /\ at[g] = "check" /\ req'[g].id = req[g].id
    BY <1>2 DEF Types
  <2>2. CASE i = Len(s) + 1
    BY <1>3, <1>6, <2>1, <2>2
  <2>3. CASE i # Len(s) + 1
    <3>1. i \in 1 .. Len(s)
      BY <1>6, <2>3
    <3>. QED
      BY <1>4, <1>6, <2>1, <3>1 DEF Sound
  <2>. QED
    BY <2>2, <2>3
<1>11. Len(n) \in Nat
  BY <1>5, LenProperties
<1>12. \A i, j \in 1 .. Len(n) : i < j => n[i] # n[j]
  <2>. SUFFICES ASSUME NEW i \in 1 .. Len(n), NEW j \in 1 .. Len(n), i < j
                PROVE  n[i] # n[j]
    OBVIOUS
  <2>1. i + shift \in 1 .. Len(s) + 1 /\ j + shift \in 1 .. Len(s) + 1 /\ i + shift < j + shift
    BY <1>7
  <2>. QED
    BY <1>7, <1>8, <2>1
<1>13. \A i \in 1 .. Len(n) : n[i] <= checks'
  BY <1>2, <1>7, <1>9
<1>14. \A g \in Handlers : at'[g] = "check" => \A i \in 1 .. Len(n) : n[i] # req'[g].id
  BY <1>7, <1>10
<1>15. Sound(n, checks', at', req')
  BY <1>5, <1>12, <1>13, <1>14 DEF Sound
<1>. QED
  BY <1>1, <1>15

(* Every copy of a history that a step leaves is sound.                    *)
LEMMA HistoriesKept ==
    ASSUME Types, HistoriesOK, NEW h \in Handlers, Begin(h) \/ Handle(h) \/ Pool(h) \/ Deadline(h)
    PROVE  HistoriesOK'
<1>. DEFINE Fine(state) == Sound(state.history, checks', at', req')
<1>1. ASSUME NEW state \in State, SoundNow(state) PROVE Fine(state)
  <2>1. state.history \in Seq(Reports)
    BY DEF State
  <2>. QED
    BY <1>1, <2>1, NumbersGrow, SoundLater DEF SoundNow
<1>2. /\ mem \in State /\ disk \in State /\ \A g \in Handlers : req[g].state \in State
      /\ req \in [Handlers -> Request] /\ req[h] \in Request
  BY DEF Types, Request
<1>3. /\ Fine(mem) /\ Fine(disk) /\ \A g \in Handlers : Fine(req[g].state)
  BY <1>1, <1>2 DEF HistoriesOK
<1>4. Fine(Empty)
  BY EmptyIsSound DEF Empty
<1>. HIDE DEF Fine
<1>5. ASSUME Fine(mem'), Fine(disk'), Fine(req'[h].state),
             \A g \in Handlers \ {h} : req'[g] = req[g]
      PROVE  HistoriesOK'
  <2>1. Fine(mem') <=> SoundNow(mem)'
    BY DEF Fine, SoundNow
  <2>2. Fine(disk') <=> SoundNow(disk)'
    BY DEF Fine, SoundNow
  <2>3. \A g \in Handlers : Fine(req'[g].state) <=> SoundNow(req[g].state)'
    BY DEF Fine, SoundNow
  <2>. QED
    BY <1>3, <1>5, <2>1, <2>2, <2>3, NumbersGrow DEF HistoriesOK
<1>6. ASSUME NEW s, NEW t, Fine(s), t.history = s.history PROVE Fine(t)
  BY <1>6 DEF Fine
<1>7. NoRequest.state = Empty
  BY DEF NoRequest
<1>8. CASE Begin(h)
  <2>1. req'[h].state = Empty /\ \A g \in Handlers \ {h} : req'[g] = req[g]
    BY <1>2, <1>7, <1>8, Defaults DEF Begin, Request
  <2>. QED
    BY <1>3, <1>4, <1>5, <1>8, <2>1 DEF Begin
<1>9. CASE Load(h)
  <2>1. /\ req'[h].state = disk \/ req'[h].state = req[h].state
        /\ \A g \in Handlers \ {h} : req'[g] = req[g]
    BY <1>2, <1>9 DEF Load, Request
  <2>. QED
    BY <1>3, <1>5, <1>9, <2>1 DEF Load
<1>10. CASE Fill(h)
  <2>1. req'[h].state = Empty /\ \A g \in Handlers \ {h} : req'[g] = req[g]
    BY <1>2, <1>10 DEF Fill, Request
  <2>2. mem'.history = mem.history \/ mem'.history = req[h].state.history
    BY <1>10 DEF Fill, Filled
  <2>3. Fine(mem')
    BY <1>3, <1>6, <2>2
  <2>. QED
    BY <1>3, <1>4, <1>5, <1>10, <2>1, <2>3 DEF Fill
<1>11. CASE Answer(h)
  <2>1. req'[h].state = Empty /\ \A g \in Handlers \ {h} : req'[g] = req[g]
    BY <1>2, <1>7, <1>11 DEF Answer, Ends
  <2>. QED
    BY <1>3, <1>4, <1>5, <1>11, <2>1 DEF Answer
<1>12. CASE Work(h)
  <2>1. /\ req'[h].state.history = req[h].state.history
        /\ \A g \in Handlers \ {h} : req'[g] = req[g]
    BY <1>2, <1>12 DEF Work, Request, State
  <2>2. Fine(req'[h].state)
    BY <1>3, <1>6, <2>1
  <2>. QED
    BY <1>3, <1>5, <1>12, <2>1, <2>2 DEF Work
<1>13. CASE Probe(h)
  <2>1. PICK catalog \in SUBSET Models, asked \in SUBSET Models, run \in Run :
          Starts(h, catalog, asked, run)
    BY <1>13, ProbeStarts
  <2>2. /\ req'[h].state = NewReport(catalog) /\ UNCHANGED <<mem, disk>>
        /\ \A g \in Handlers \ {h} : req'[g] = req[g]
    BY <1>2, <2>1 DEF Starts, Request
  <2>3. NewReport(catalog).history = Empty.history
    BY DEF NewReport, Empty
  <2>. HIDE DEF NewReport
  <2>4. Fine(req'[h].state)
    BY <1>4, <1>6, <2>2, <2>3
  <2>. QED
    BY <1>3, <1>5, <2>2, <2>4
<1>14. CASE SetModelCatalog(h)
  <2>1. /\ mem'.history = mem.history /\ req'[h].state.history = mem.history
        /\ \A g \in Handlers \ {h} : req'[g] = req[g]
    BY <1>2, <1>14 DEF SetModelCatalog, Request, State
  <2>2. Fine(mem') /\ Fine(req'[h].state)
    BY <1>3, <1>6, <2>1
  <2>. QED
    BY <1>3, <1>5, <1>14, <2>1, <2>2 DEF SetModelCatalog
<1>15. CASE Put(h)
  <2>1. /\ mem' = Kept(h) /\ req'[h].state = Kept(h) /\ disk' = disk
        /\ \A g \in Handlers \ {h} : req'[g] = req[g]
    BY <1>2, <1>15, PutKeeps DEF Request
  <2>2. Fine(Kept(h))
    BY <1>15, KeptIsSound DEF Fine
  <2>. QED
    BY <1>3, <1>5, <2>1, <2>2
<1>16. CASE Save(h)
  <2>1. /\ req'[h].state = Empty /\ \A g \in Handlers \ {h} : req'[g] = req[g]
        /\ disk' = disk \/ disk' = req[h].state
    BY <1>2, <1>7, <1>16 DEF Save, Ends
  <2>. QED
    BY <1>3, <1>4, <1>5, <1>16, <2>1 DEF Save
<1>17. CASE Pool(h) \/ Deadline(h)
  <2>1. UNCHANGED <<mem, disk, req>>
    BY <1>17 DEF Pool, Deadline, Dispatch, Close, Checked, InPool
  <2>. QED
    BY <1>3, <1>5, <2>1
<1>. QED
  BY <1>8, <1>9, <1>10, <1>11, <1>12, <1>13, <1>14, <1>15, <1>16, <1>17 DEF Handle

---------------------------------------------------------------------------
(* The saves *)

(* What memory already has does not change when it is filled with it.      *)
LEMMA FilledSame == \A s \in State : Filled(s, s) = s /\ Filled(Empty, s) = s
<1>. SUFFICES ASSUME NEW s \in State PROVE Filled(s, s) = s /\ Filled(Empty, s) = s
  OBVIOUS
<1>1. s = [latest |-> s.latest, history |-> s.history, active |-> s.active, sweep |-> s.sweep,
           catalog |-> s.catalog]
  BY DEF State
<1>. QED
  BY <1>1 DEF Filled, Empty

(* A request that steps elsewhere than to a save or a filling, and leaves  *)
(* memory, disk and the other requests alone, disturbs nothing.            *)
Aside(h) ==
    /\ at[h] # "save" /\ at'[h] \notin {"save", "fill"}
    /\ at'[h] \in {"work", "probe", "check"} => at[h] \in {"work", "probe", "check"}
    /\ \A g \in Handlers \ {h} : at'[g] = at[g] /\ req'[g] = req[g]
    /\ mem' = mem /\ disk' = disk /\ hydrated' = hydrated /\ calm' = calm

(* As much for the saves.                                                  *)
LEMMA AsideKeeps == ASSUME SavesOK, NEW h \in Handlers, Aside(h) PROVE SavesOK'
BY DEF SavesOK, Aside

(* A request that takes a copy of the memory it changed to save it, while  *)
(* no other saves or fills.                                                *)
LEMMA CopyStep ==
    ASSUME Types, SavesOK, NEW h \in Handlers,
           at[h] \in {"probe", "check"}, at' = [at EXCEPT ![h] = "save"],
           \A g \in Handlers \ {h} : req'[g] = req[g],
           req'[h].state = mem', calm' = (calm /\ ~Others(h, {"save", "fill"})),
           UNCHANGED <<disk, hydrated>>
    PROVE  SavesOK'
<1>1. at'[h] = "save" /\ \A g \in Handlers \ {h} : at'[g] = at[g]
  BY DEF Types
<1>2. calm' => calm /\ \A g \in Handlers \ {h} : at[g] \notin {"save", "fill"}
  BY DEF Others
<1>. QED
  BY <1>1, <1>2 DEF SavesOK

(* Every step of a request keeps what calm saves promise.                  *)
LEMMA SavesKept ==
    ASSUME Types, SavesOK, NEW h \in Handlers, Begin(h) \/ Handle(h) \/ Pool(h) \/ Deadline(h)
    PROVE  SavesOK'
<1>0. /\ req \in [Handlers -> Request] /\ req[h] \in Request /\ mem \in State /\ disk \in State
      /\ at \in [Handlers -> {"idle", "load", "fill", "work", "probe", "check", "save"}]
      /\ req[h].state \in State
  BY DEF Types, Request
<1>1. CASE Begin(h)
  BY <1>0, <1>1, AsideKeeps DEF Begin, Goes, Aside
<1>2. CASE Load(h)
  <2>1. CASE /\ Goes(h, "load", "fill") /\ req' = [req EXCEPT ![h].state = disk]
             /\ calm' = (calm /\ ~Others(h, {"save"}))
    <3>1. /\ at'[h] = "fill" /\ req'[h].state = disk /\ UNCHANGED <<mem, disk, hydrated>>
          /\ \A g \in Handlers \ {h} : at'[g] = at[g] /\ req'[g] = req[g]
      BY <1>0, <1>2, <2>1 DEF Load, Goes, Request
    <3>2. calm' => calm /\ \A g \in Handlers \ {h} : at[g] # "save"
      BY <2>1 DEF Others
    <3>3. at[h] # "save"
      BY <2>1 DEF Goes
    <3>. QED
      BY <3>1, <3>2, <3>3 DEF SavesOK
  <2>2. CASE calm' = FALSE
    BY <2>2 DEF SavesOK
  <2>. QED
    BY <1>2, <2>1, <2>2 DEF Load
<1>3. CASE Fill(h)
  <2>1. /\ at[h] = "fill" /\ at'[h] = "work" /\ hydrated' /\ disk' = disk /\ calm' = calm
        /\ mem' = Filled(mem, req[h].state)
        /\ \A g \in Handlers \ {h} : at'[g] = at[g] /\ req'[g] = req[g]
    BY <1>0, <1>3 DEF Fill, Goes
  <2>2. calm => req[h].state = disk /\ \A g \in Handlers : at[g] # "save"
    BY <2>1 DEF SavesOK
  <2>3. calm => mem' = disk
    BY <1>0, <2>1, <2>2, FilledSame DEF SavesOK
  <2>. QED
    BY <2>1, <2>2, <2>3 DEF SavesOK
<1>4. CASE Answer(h)
  BY <1>0, <1>4, AsideKeeps DEF Answer, Ends, Goes, Aside
<1>5. CASE Work(h)
  BY <1>0, <1>5, AsideKeeps DEF Work, Goes, Aside
<1>6. CASE Probe(h)
  <2>1. PICK catalog \in SUBSET Models, asked \in SUBSET Models, run \in Run :
          Starts(h, catalog, asked, run)
    BY <1>6, ProbeStarts
  <2>. QED
    BY <1>0, <2>1, AsideKeeps DEF Starts, Aside
<1>7. CASE SetModelCatalog(h)
  <2>1. PICK found \in Listings \cup {{}} :
          /\ mem' = [mem EXCEPT !.catalog = found]
          /\ req' = [req EXCEPT ![h].state = [mem EXCEPT !.catalog = found]]
    BY <1>7 DEF SetModelCatalog
  <2>2. req'[h].state = mem' /\ \A g \in Handlers \ {h} : req'[g] = req[g]
    BY <1>0, <2>1 DEF Request
  <2>. QED
    BY <1>7, <2>2, CopyStep DEF SetModelCatalog, Goes
<1>8. CASE Put(h)
  <2>1. req'[h].state = mem' /\ \A g \in Handlers \ {h} : req'[g] = req[g]
    BY <1>0, <1>8, PutKeeps DEF Request
  <2>. QED
    BY <1>8, <2>1, PutKeeps, CopyStep
<1>9. CASE Save(h)
  <2>1. CASE disk' = req[h].state /\ calm' = calm
    <3>1. /\ at[h] = "save" /\ at'[h] = "idle" /\ UNCHANGED <<mem, hydrated>>
          /\ \A g \in Handlers \ {h} : at'[g] = at[g] /\ req'[g] = req[g]
      BY <1>0, <1>9 DEF Save, Ends, Goes
    <3>2. calm => disk' = mem /\ hydrated /\ \A g \in Handlers \ {h} : at[g] \notin {"save", "fill"}
      BY <2>1, <3>1 DEF SavesOK
    <3>. QED
      BY <2>1, <3>1, <3>2 DEF SavesOK
  <2>2. CASE calm' = FALSE
    BY <2>2 DEF SavesOK
  <2>. QED
    BY <1>9, <2>1, <2>2 DEF Save
<1>10. CASE Pool(h) \/ Deadline(h)
  <2>1. UNCHANGED <<mem, disk, at, req, hydrated, calm>>
    BY <1>10 DEF Pool, Deadline, Dispatch, Close, Checked, InPool
  <2>. QED
    BY <2>1 DEF SavesOK
<1>. QED
  BY <1>1, <1>2, <1>3, <1>4, <1>5, <1>6, <1>7, <1>8, <1>9, <1>10 DEF Handle

---------------------------------------------------------------------------
(* The invariant *)

(* A crash leaves an empty memory and no requests beside the disk.         *)
LEMMA CrashHolds == ASSUME HealthInv, Crash PROVE HealthInv'
<1>1. /\ mem' = Empty /\ hydrated' = FALSE /\ UNCHANGED <<disk, checks, calm>>
      /\ at' = [h \in Handlers |-> "idle"] /\ req' = [h \in Handlers |-> NoRequest]
      /\ pool' = [h \in Handlers |-> NoPool]
  BY DEF Crash
<1>2. Types /\ HistoriesOK
  BY DEF HealthInv
<1>3. Types'
  <2>1. hydrated' \in BOOLEAN
    BY <1>1, Zenon
  <2>2. mem' \in State /\ disk' \in State /\ checks' \in Reports /\ calm' \in BOOLEAN
    BY <1>1, <1>2, Defaults DEF Types
  <2>3. /\ at' \in [Handlers -> {"idle", "load", "fill", "work", "probe", "check", "save"}]
        /\ req' \in [Handlers -> Request] /\ pool' \in [Handlers -> Run]
    BY <1>1, Defaults
  <2>. QED
    BY <2>1, <2>2, <2>3 DEF Types
<1>4. RunsOK'
  <2>. SUFFICES ASSUME NEW h \in Handlers PROVE RunOK(h)'
    BY DEF RunsOK
  <2>1. pool'[h] = NoPool
    BY <1>1
  <2>. QED
    BY <2>1, Bounds, FS_EmptySet DEF RunOK, NoPool
<1>5. HistoriesOK'
  <2>1. Empty.history = <<>> /\ NoRequest.state = Empty
    BY DEF Empty, NoRequest
  <2>2. SoundNow(mem)' /\ \A h \in Handlers : SoundNow(req[h].state)'
    BY <1>1, <2>1, EmptyIsSound DEF SoundNow
  <2>3. SoundNow(disk)' /\ \A h \in Handlers : CheckOK(h)'
    BY <1>1, <1>2 DEF HistoriesOK, SoundNow, Sound, CheckOK
  <2>. QED
    BY <2>2, <2>3 DEF HistoriesOK
<1>6. SavesOK'
  BY <1>1 DEF SavesOK
<1>. QED
  BY <1>3, <1>4, <1>5, <1>6 DEF HealthInv

(* The invariant is inductive.                                             *)
LEMMA StepKeeps == HealthInv /\ [Next]_vars => HealthInv'
<1>. SUFFICES ASSUME HealthInv, [Next]_vars PROVE HealthInv'
  OBVIOUS
<1>1. CASE Crash
  BY <1>1, CrashHolds
<1>2. ASSUME NEW h \in Handlers, Begin(h) \/ Handle(h) \/ Pool(h) \/ Deadline(h) PROVE HealthInv'
  BY <1>2, TypesKept, RunsKept, HistoriesKept, SavesKept DEF HealthInv
<1>3. CASE UNCHANGED vars
  BY <1>3 DEF vars, HealthInv, Types, RunsOK, RunOK, Asked, HistoriesOK, SoundNow, Sound,
              CheckOK, SavesOK
<1>. QED
  BY <1>1, <1>2, <1>3 DEF Next

(* What the properties say follows from it.                                *)
LEMMA InvImplies == HealthInv => EveryModelReported /\ RestartServesTheSame
<1>. SUFFICES ASSUME HealthInv PROVE EveryModelReported /\ RestartServesTheSame
  OBVIOUS
<1>1. ASSUME NEW m \in State, SoundNow(m) PROVE MemOK(m)
  BY <1>1 DEF MemOK, SoundNow, Sound, State
<1>2. MemOK(mem) /\ MemOK(disk)
  BY <1>1 DEF HealthInv, Types, HistoriesOK
<1>3. \A h \in Handlers : /\ req[h].kind \in {"none", "all", "single", "models", "get"}
                          /\ req[h].id \in Reports /\ Cardinality(pool[h].busy) <= Workers
  BY DEF HealthInv, Types, Request, RunsOK, RunOK
<1>4. TypeOK
  BY <1>2, <1>3 DEF TypeOK, HealthInv, Types
<1>. QED
  BY <1>4 DEF HealthInv, RunsOK, RunOK, EveryModelReported, SavesOK, RestartServesTheSame

\* A run of the health page accounts for every model it was asked to check, and skips one
\* only after the deadline; the history keeps each report once.
THEOREM ModelsReported == Spec => []EveryModelReported
<1>1. HealthInv => EveryModelReported
  BY InvImplies
<1>. QED
  BY <1>1, InitHolds, StepKeeps, PTL DEF Spec

\* After calm saves the store holds what memory holds, so that a restart serves the same.
THEOREM SavesServeRestart == Spec => []RestartServesTheSame
<1>1. HealthInv => RestartServesTheSame
  BY InvImplies
<1>. QED
  BY <1>1, InitHolds, StepKeeps, PTL DEF Spec
=============================================================================
