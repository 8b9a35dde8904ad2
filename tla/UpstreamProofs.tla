--------------------------- MODULE UpstreamProofs ---------------------------
(***************************************************************************)
(* The way of a request to the upstream and of its stream back: what       *)
(* ProxyPool keeps for every set of proxies, keys, requests and loaders,   *)
(* failover among the proxies that xray serves; and what StreamRelay keeps *)
(* for every number of attempts and chunks, one message for the client.    *)
(***************************************************************************)
EXTENDS ProxyPool, StreamRelay, SequenceTheorems, FiniteSetTheorems, TLAPS

---------------------------------------------------------------------------
(* The proxies.                                                            *)

Store == [enabled: SUBSET Proxies, bound: [Keys -> Proxies \cup {0}]]

(* A load carries a store of its own; a request that blames a proxy blames *)
(* one that xray serves, and replaces it by one.                           *)
LoadsOK == load \in [Loaders -> [pc: {"idle", "load", "read"}, store: Store]]
BlamesManaged ==
    \A r \in Requests :
      /\ req[r].pc \in {"promote", "chosen", "resolved"} => req[r].proxy \in Managed
      /\ req[r].pc \in {"chosen", "resolved"} => req[r].other \in Managed
ManagedInv == ManualStays /\ LoadsOK /\ BlamesManaged

(* The two kinds of proxy are disjoint sets of ids, and 0 is no id.         *)
LEMMA Types == Proxies \subseteq Nat \ {0} /\ Managed \subseteq Proxies /\ Manual \subseteq Proxies
               /\ Managed \cap Manual = {} /\ 0 \notin Proxies
BY PoolAssumption DEF PoolAssumption, Proxies

(* A lookup of a proxy leads to none, to itself or to one that xray serves. *)
LEMMA LookupLeads ==
    ASSUME ManagedInv, NEW p \in Proxies \cup {0}
    PROVE  /\ Lookup(p) \in Proxies \cup {0}
           /\ Lookup(p) \in {0, p} \cup Managed
           /\ p \in Manual => Lookup(p) \in {0, p}
BY Types DEF ManagedInv, ManualStays, TypeOK, Lookup

(* So does the choice of a route, which may end at the system's proxy.      *)
LEMMA EffectiveLeads ==
    ASSUME ManagedInv, NEW i \in KeyInfo
    PROVE  /\ Effective(i) \in Proxies \cup {0}
           /\ i.proxy \in Manual /\ i.url => Effective(i) = i.proxy
<1>1. i.proxy \in Proxies \cup {0}
  BY DEF KeyInfo
<1>2. System \in Proxies \cup {0}
  BY PoolAssumption DEF PoolAssumption
<1>. QED
  BY <1>1, <1>2, LookupLeads, Types DEF Effective

(* Nothing has failed over at start-up.                                    *)
LEMMA InitHolds == Init => ManagedInv
<1>. SUFFICES ASSUME Init PROVE ManagedInv
  OBVIOUS
<1>1. (CHOOSE k \in Keys : TRUE) \in Keys
  BY PoolAssumption DEF PoolAssumption
<1>2. TypeOK
  BY <1>1, Types, PoolAssumption
  DEF Init, TypeOK, PoolAssumption, Indexed, Snapshot, KeyInfo, NoLoad, Rest, Unbound
<1>. QED
  BY <1>2, Types
  DEF Init, ManagedInv, ManualStays, LoadsOK, BlamesManaged, NoLoad, Store, Snapshot, Rest

(* The admin changes the store only: the routes of requests and the        *)
(* failovers stay until a load comes.                                      *)
LEMMA ChangeKeeps ==
    ManagedInv /\ (SetStatus \/ DeleteProxy \/ BindKey \/ TestProxy) => ManagedInv'
<1>. SUFFICES ASSUME ManagedInv, SetStatus \/ DeleteProxy \/ BindKey \/ TestProxy
              PROVE  ManagedInv'
  OBVIOUS
<1>. USE DEF ManagedInv, ManualStays, TypeOK, LoadsOK, BlamesManaged, runtimeVars, pathVars
<1>1. CASE SetStatus
  BY <1>1 DEF SetStatus, Change
<1>2. CASE DeleteProxy
  BY <1>2 DEF DeleteProxy, Change
<1>3. CASE BindKey
  BY <1>3 DEF BindKey, Change
<1>4. CASE TestProxy
  BY <1>4 DEF TestProxy, Change
<1>. QED
  BY <1>1, <1>2, <1>3, <1>4

(* A load replaces both indexes, by a store that was one when it was read; *)
(* the failovers survive it.                                               *)
LEMMA LoadKeeps ==
    ASSUME ManagedInv, NEW l \in Loaders, Load(l)
    PROVE  ManagedInv'
<1>. USE DEF ManagedInv, ManualStays, TypeOK, LoadsOK, BlamesManaged, storeVars, runtimeVars, pathVars, Store
<1>1. CASE Tick(l)
  BY <1>1 DEF Tick
<1>2. CASE ReadForLoad(l)
  BY <1>2 DEF ReadForLoad, Snapshot
<1>3. CASE Rebuild(l)
  <2>1. load[l].store \in Store
    OBVIOUS
  <2>2. Indexed(load[l].store) \in [Keys -> KeyInfo]
    BY <2>1 DEF Indexed, KeyInfo
  <2>. QED
    BY <1>3, <2>1, <2>2 DEF Rebuild, NoLoad, Snapshot
<1>. QED
  BY <1>1, <1>2, <1>3 DEF Load

(* A request is routed and fails over: only the proxy of a key whose       *)
(* effective proxy xray serves is blamed, and only such a one replaces it. *)
LEMMA ServeKeeps ==
    ASSUME ManagedInv, NEW r \in Requests, Serve(r)
    PROVE  ManagedInv'
<1>. USE DEF ManagedInv, ManualStays, TypeOK, LoadsOK, BlamesManaged, storeVars, runtimeVars, pathVars,
             Step, Ends, Elsewhere, Rest, Unbound
<1>. DEFINE Request == [pc: {"idle", "keyed", "routed", "failed", "promote", "chosen", "resolved"},
                        key: Keys, info: KeyInfo, proxy: Proxies \cup {0}, other: Managed \cup {0}]
<1>0. req[r] \in Request /\ Unbound \in KeyInfo
  BY Types DEF KeyInfo
<1>1. ASSUME NEW k \in Keys, Begin(r, k) PROVE ManagedInv'
  <2>1. byKey[k] \in KeyInfo
    OBVIOUS
  <2>. QED
    BY <1>0, <1>1, <2>1 DEF Begin
<1>2. CASE Route(r)
  <2>1. /\ Effective(req[r].info) \in Proxies \cup {0}
        /\ req[r].info.proxy \in Manual /\ req[r].info.url => Effective(req[r].info) = req[r].info.proxy
    BY <1>0, EffectiveLeads
  <2>. HIDE DEF Effective
  <2>. QED
    BY <1>0, <1>2, <2>1 DEF Route
<1>3. CASE Answer(r)
  BY <1>0, <1>3 DEF Answer
<1>4. CASE Fail(r)
  BY <1>0, <1>4 DEF Fail
<1>5. CASE Recover(r)
  <2>. DEFINE now == byKey[req[r].key]
  <2>1. now \in KeyInfo
    BY <1>0
  <2>2. EffectiveIsManaged(now) => Effective(now) \in Managed
    BY DEF EffectiveIsManaged
  <2>3. PICK next : /\ next = IF EffectiveIsManaged(now)
                             THEN [req[r] EXCEPT !.pc = "promote", !.proxy = Effective(now)]
                             ELSE [pc |-> "idle", key |-> req[r].key, info |-> Unbound, proxy |-> 0, other |-> 0]
                    /\ req' = [req EXCEPT ![r] = next]
    BY <1>5 DEF Recover
  <2>4. /\ next \in Request
        /\ next.pc \in {"promote", "chosen", "resolved"} => next.proxy \in Managed
        /\ next.pc \notin {"chosen", "resolved"}
    <3>. HIDE DEF now, EffectiveIsManaged, Effective, ManagedInv, Unbound
    <3>. QED
      BY <1>0, <2>2, <2>3, Types
  <2>5. /\ enabled' = enabled /\ bound' = bound /\ test' = test /\ index' = index /\ byKey' = byKey
        /\ failover' = failover /\ cooling' = cooling /\ load' = load /\ broken' = broken
    BY <1>5 DEF Recover
  <2>. HIDE DEF now
  <2>6. ManualStays' /\ LoadsOK'
    BY <2>3, <2>4, <2>5
  <2>7. BlamesManaged'
    BY <2>3, <2>4
  <2>. QED
    BY <2>6, <2>7
<1>6. CASE NoCandidate(r)
  BY <1>0, <1>6 DEF NoCandidate
<1>7. CASE Choose(r)
  <2>1. PICK p \in Managed : req' = [req EXCEPT ![r] = [req[r] EXCEPT !.pc = "chosen", !.other = p]]
    <3>1. PICK p \in Candidates(req[r].proxy) :
            Step(r, "promote", [req[r] EXCEPT !.pc = "chosen", !.other = p])
      BY <1>7, Zenon DEF Choose
    <3>2. p \in Managed
      BY <3>1 DEF Candidates
    <3>. QED
      BY <3>1, <3>2
  <2>. QED
    BY <1>0, <1>7, <2>1 DEF Choose
<1>8. CASE Resolve(r)
  <2>. DEFINE found == Lookup(req[r].other)
  <2>1. req[r].other \in Managed /\ req[r].proxy \in Managed
    BY <1>8 DEF Resolve
  <2>2. found \in Managed \cup {0}
    BY <2>1, LookupLeads, Types
  <2>. HIDE DEF found
  <2>. QED
    BY <1>0, <1>8, <2>1, <2>2 DEF Resolve, found
<1>9. CASE SetFailover(r)
  <2>1. req[r].other \in Managed /\ req[r].proxy \in Managed
    BY <1>9 DEF SetFailover
  <2>2. /\ failover' \in [Proxies -> Proxies \cup {0}]
        /\ \A p \in Proxies : failover'[p] # 0 => p \in Managed /\ failover'[p] \in Managed
    BY <1>9, <2>1, Types DEF SetFailover
  <2>3. cooling' \subseteq Managed
    BY <1>9, <2>1 DEF SetFailover
  <2>. QED
    BY <1>0, <1>9, <2>2, <2>3 DEF SetFailover
<1>. QED
  BY <1>1, <1>2, <1>3, <1>4, <1>5, <1>6, <1>7, <1>8, <1>9 DEF Serve

(* The end of a proxy's cooling, a path that breaks, and the steps above.   *)
LEMMA StepKeeps == ManagedInv /\ [Next]_vars => ManagedInv'
<1>. SUFFICES ASSUME ManagedInv, [Next]_vars PROVE ManagedInv'
  OBVIOUS
<1>1. ASSUME NEW p \in Managed, CoolingEnds(p) PROVE ManagedInv'
  BY <1>1 DEF CoolingEnds, ManagedInv, ManualStays, TypeOK, LoadsOK, BlamesManaged, storeVars, pathVars
<1>2. ASSUME NEW p \in Managed, Break(p) PROVE ManagedInv'
  BY <1>2 DEF Break, ManagedInv, ManualStays, TypeOK, LoadsOK, BlamesManaged, storeVars, runtimeVars
<1>3. CASE UNCHANGED vars
  BY <1>3 DEF vars, storeVars, runtimeVars, pathVars, ManagedInv, ManualStays, TypeOK, LoadsOK, BlamesManaged
<1>. QED
  BY <1>1, <1>2, <1>3, ChangeKeeps, LoadKeeps, ServeKeeps DEF Next

\* Failover never concerns a proxy that was added by hand or imported, whatever loads,
\* changes and failures of paths come between the steps of any number of requests.
THEOREM FailoverStaysManaged == Spec => []ManualStays
<1>1. ManagedInv => ManualStays
  BY DEF ManagedInv
<1>. QED
  BY <1>1, InitHolds, StepKeeps, PTL DEF Spec

---------------------------------------------------------------------------
(* The relay of translated streams: a message as far as it was written.    *)

BlockKinds == {"block", "delta", "stop"}
Event == [kind: {"start", "block", "delta", "stop", "end"}, index: Nat]
Translator == [started: BOOLEAN, content: BOOLEAN, finished: BOOLEAN, text: Nat, next: Nat \ {0},
               tools: Seq([name: {"tool", "other"}, index: Nat])]
Pos(o) == 1 .. Len(o)

(* Blocks 1 .. n - 1 were opened, those of S are open.                     *)
Message(o, n, S) ==
    /\ o \in Seq(Event) /\ n \in Nat \ {0} /\ S \subseteq 1 .. n - 1
    /\ \A k \in Pos(o) : o[k].index < n
    /\ o # <<>> => o[1] = Ev("start", 0)
    /\ \A k \in Pos(o) : o[k].kind = "start" => k = 1
    /\ \A k \in Pos(o) : o[k].kind \in BlockKinds => o[k].index \in 1 .. n - 1
    /\ \A i \in 1 .. n - 1 : \E k \in Pos(o) : o[k] = Ev("block", i)
    /\ \A i \in (1 .. n - 1) \ S : \E k \in Pos(o) : o[k] = Ev("stop", i)
    /\ \A k \in Pos(o) : o[k].kind = "stop" => o[k].index \notin S
    /\ \A j, k \in Pos(o) :
         j < k /\ o[j].index = o[k].index /\ o[j].kind \in BlockKinds /\ o[k].kind \in BlockKinds
         => o[j].kind # "stop" /\ o[k].kind # "block"
Going(o, n, S) == Message(o, n, S) /\ \A k \in Pos(o) : o[k].kind # "end"

ToolIndexes(t) == {t.tools[i].index : i \in 1 .. Len(t.tools)}
Open(t) == ({t.text} \ {0}) \cup ToolIndexes(t)
BlocksOK(t) ==
    /\ t.text \in 0 .. t.next - 1 /\ t.text \notin ToolIndexes(t)
    /\ ToolIndexes(t) \subseteq 1 .. t.next - 1
    /\ \A i, j \in 1 .. Len(t.tools) : t.tools[i].index = t.tools[j].index => i = j

(* What a translator knows of what it wrote.                               *)
WrittenBy(t, o) ==
    /\ t \in Translator /\ o \in Seq(Event)
    /\ o # <<>> <=> t.started
    /\ t.content => o # <<>> \/ t.tools # <<>>
    /\ \A i, j \in 1 .. Len(t.tools) : t.tools[i].name = t.tools[j].name => i = j
    /\ \A k \in Pos(o) : o[k].index < t.next + (IF t.tools = <<>> THEN 0 ELSE 1)
    /\ \A k \in Pos(o) : o[k].kind = "end" => k = Len(o) /\ t.finished
    /\ t.finished => IF o = <<>> THEN ~t.content ELSE Len(o) > 1 /\ o[Len(o)].kind = "end"
    /\ protocol = "claude" =>
         BlocksOK(t) /\ Message(o, t.next, IF t.finished THEN {} ELSE Open(t))
    /\ protocol = "gemini" =>
         t.text = 0 /\ t.next = 1 /\ \A i \in 1 .. Len(t.tools) : t.tools[i].index = 1

RelayTypes ==
    /\ protocol \in Protocols /\ attempt \in 0 .. MaxAttempts
    /\ pc \in {"loop", "open", "launch", "wait", "handle", "close", "end"}
    /\ pc \notin {"loop", "end"} => attempt \in Attempts
    /\ leased \in BOOLEAN /\ gone \in BOOLEAN /\ charged \in BOOLEAN
    /\ reader \in [Attempts -> {"none", "reading", "exited"}]
    /\ line \in [Attempts -> Chunks \cup {"none", "done", "blank", "eof", "error"}]
    /\ pending \in Chunks \cup {"none", "done"}
    /\ result \in {"none", "ok", "empty", "error", "left", "exhausted"}
    /\ arrived \in 0 .. MaxChunks

HeadOK ==
    /\ head \in {"none", "stream", "plain", "json", "499"}
    /\ pc # "end" => head \in {"none", "stream", "plain"}
    /\ out # <<>> => head \in {"stream", "plain"}

(* Every block is due to a chunk; a chunk that was read and not translated *)
(* yet is on its way; after [DONE] nothing is.                             *)
One(c) == IF c \in Chunks THEN 1 ELSE 0
ChunksOK ==
    /\ tr.next <= arrived + 1 /\ (tr.tools # <<>> => arrived >= 1)
    /\ \A a \in Attempts : line[a] \in Chunks => arrived >= 1
    /\ pc \in {"launch", "wait", "handle"} =>
         /\ tr.next + One(pending) + One(line[attempt]) <= arrived + 1
         /\ line[attempt] = "blank" /\ pending = "done" => ended
         /\ tr.finished => ended /\ pending = "none" /\ line[attempt] \in {"none", "eof", "error"}

ResultOK ==
    /\ pc \in {"loop", "open"} => out = <<>>
    /\ pc \notin {"close", "end"} => result = "none"
    /\ result = "ok" => tr.finished /\ ~Silent(tr)
    /\ charged => result = "ok" /\ pc = "end"

RelayInv == RelayTypes /\ HeadOK /\ WrittenBy(tr, out) /\ ChunksOK /\ ResultOK

(* One more event.                                                         *)
LEMMA OneMore ==
    ASSUME NEW o \in Seq(Event), NEW e \in Event
    PROVE  LET p == o \o <<e>> IN
           /\ p \in Seq(Event) /\ p # <<>> /\ Len(o) \in Nat /\ Len(p) = Len(o) + 1
           /\ (o = <<>> <=> Len(o) = 0)
           /\ \A k \in Pos(o) : p[k] = o[k] /\ k \in Pos(p) /\ k \in Nat \ {0}
           /\ p[Len(o) + 1] = e /\ Len(o) + 1 \in Pos(p)
           /\ \A k \in Pos(p) : k \in Pos(o) \/ k = Len(o) + 1
           /\ \A k \in Pos(o) : o[k] \in Event
<1>. DEFINE p == o \o <<e>>
<1>1. <<e>> \in Seq(Event) /\ Len(<<e>>) = 1 /\ <<e>>[1] = e
  OBVIOUS
<1>2. /\ p \in Seq(Event) /\ Len(p) = Len(o) + 1
      /\ \A i \in 1 .. Len(o) + 1 : p[i] = IF i <= Len(o) THEN o[i] ELSE <<e>>[i - Len(o)]
  BY <1>1, ConcatProperties
<1>3. Len(o) \in Nat /\ (o = <<>> <=> Len(o) = 0)
  BY EmptySeq, LenProperties
<1>4. \A k \in Pos(o) : o[k] \in Event
  BY ElementOfSeq DEF Pos
<1>. HIDE DEF p
<1>5. \A k \in Pos(o) : p[k] = o[k] /\ k \in Pos(p) /\ k \in Nat \ {0}
  BY <1>2, <1>3 DEF Pos
<1>6. p[Len(o) + 1] = e /\ Len(o) + 1 \in Pos(p)
  BY <1>1, <1>2, <1>3 DEF Pos
<1>7. \A k \in Pos(p) : k \in Pos(o) \/ k = Len(o) + 1
  BY <1>2, <1>3 DEF Pos
<1>8. p # <<>>
  BY <1>2, <1>3
<1>. QED
  BY <1>2, <1>3, <1>4, <1>5, <1>6, <1>7, <1>8 DEF p

(* An event is one of the kind and index it was made of.                   *)
LEMMA EvTyped ==
    ASSUME NEW kind \in {"start", "block", "delta", "stop", "end"}, NEW i \in Nat
    PROVE  Ev(kind, i) \in Event /\ Ev(kind, i).kind = kind /\ Ev(kind, i).index = i
BY DEF Ev, Event

(* The events of a stream are events.                                      *)
LEMMA SeqTyped ==
    ASSUME NEW o \in Seq(Event)
    PROVE  \A k \in Pos(o) : o[k] \in Event /\ o[k].index \in Nat
<1>1. \A k \in Pos(o) : o[k] \in Event
  BY ElementOfSeq DEF Pos
<1>. QED
  BY <1>1 DEF Event

(* The start makes an empty stream a message without blocks.               *)
LEMMA MessageStarts ==
    ASSUME NEW n, NEW S, Going(<<>>, n, S) PROVE Going(<<Ev("start", 0)>>, n, S)
<1>. DEFINE e == Ev("start", 0)
            p == <<e>>
<1>1. e \in Event /\ e.kind = "start" /\ e.index = 0
  BY EvTyped
<1>2. \A k \in Pos(p) : k = 1 /\ p[k] = e
  BY DEF Pos
<1>3. p \in Seq(Event) /\ p[1] = Ev("start", 0)
  BY <1>1
<1>4. n = 1
  <2>1. n \in Nat \ {0} /\ \A i \in 1 .. n - 1 : FALSE
    BY DEF Going, Message, Pos
  <2>. QED
    BY <2>1
<1>. HIDE DEF p, e
<1>5. Message(p, n, S)
  BY <1>1, <1>2, <1>3, <1>4 DEF Message, Going, BlockKinds
<1>. QED
  BY <1>1, <1>2, <1>5 DEF Going, p, e

(* A new block takes the next index and is open.                           *)
LEMMA MessageOpens ==
    ASSUME NEW o, NEW n, NEW S, Going(o, n, S), o # <<>>
    PROVE  Going(o \o <<Ev("block", n)>>, n + 1, S \cup {n}) /\ o \o <<Ev("block", n)>> # <<>>
<1>. DEFINE e == Ev("block", n)
            p == o \o <<e>>
            last == Len(o) + 1
<1>1. n \in Nat \ {0} /\ o \in Seq(Event) /\ S \subseteq 1 .. n - 1
  BY DEF Going, Message
<1>2. e \in Event /\ e.kind = "block" /\ e.index = n
  BY <1>1, EvTyped
<1>. HIDE DEF e
<1>3. /\ p \in Seq(Event) /\ p # <<>> /\ Len(o) \in Nat \ {0}
      /\ \A k \in Pos(o) : p[k] = o[k] /\ k \in Pos(p) /\ k < last /\ o[k] \in Event /\ k \in Nat
      /\ p[last] = e /\ last \in Pos(p) /\ last \in Nat /\ 1 \in Pos(o)
      /\ \A k \in Pos(p) : k \in Pos(o) \/ k = last
  BY <1>1, <1>2, OneMore DEF Pos
<1>. HIDE DEF p, last
<1>4. \A k \in Pos(p) : p[k].index < n + 1 /\ p[k].kind # "end"
  <2>1. \A k \in Pos(o) : o[k].index \in Nat /\ o[k].index < n /\ o[k].kind # "end"
    BY <1>3 DEF Going, Message, Event
  <2>. QED
    BY <1>1, <1>2, <1>3, <2>1
<1>5. p[1] = Ev("start", 0) /\ \A k \in Pos(p) : p[k].kind = "start" => k = 1
  BY <1>2, <1>3 DEF Going, Message
<1>6. \A k \in Pos(p) : p[k].kind \in BlockKinds => p[k].index \in 1 .. n
  BY <1>1, <1>2, <1>3 DEF Going, Message
<1>7. \A i \in 1 .. n : \E k \in Pos(p) : p[k] = Ev("block", i)
  BY <1>1, <1>3 DEF Going, Message, e
<1>8. \A i \in (1 .. n) \ (S \cup {n}) : \E k \in Pos(p) : p[k] = Ev("stop", i)
  BY <1>1, <1>3 DEF Going, Message
<1>9. \A k \in Pos(p) : p[k].kind = "stop" => p[k].index \notin S \cup {n}
  BY <1>1, <1>2, <1>3 DEF Going, Message, BlockKinds
<1>10. ASSUME NEW j \in Pos(p), NEW k \in Pos(p), j < k, p[j].index = p[k].index,
              p[j].kind \in BlockKinds, p[k].kind \in BlockKinds
       PROVE  p[j].kind # "stop" /\ p[k].kind # "block"
  <2>1. j \in Pos(o)
    BY <1>3, <1>10
  <2>2. p[j].index \in 1 .. n - 1
    BY <1>3, <1>10, <2>1 DEF Going, Message
  <2>3. k \in Pos(o)
    BY <1>1, <1>2, <1>3, <1>10, <2>2
  <2>4. p[j] = o[j] /\ p[k] = o[k]
    BY <1>3, <2>1, <2>3
  <2>. QED
    BY <1>10, <2>1, <2>3, <2>4 DEF Going, Message
<1>11. S \cup {n} \subseteq 1 .. (n + 1) - 1 /\ n + 1 \in Nat \ {0} /\ (n + 1) - 1 = n
  BY <1>1
<1>12. Message(p, n + 1, S \cup {n})
  BY <1>3, <1>4, <1>5, <1>6, <1>7, <1>8, <1>9, <1>10, <1>11 DEF Message
<1>. QED
  BY <1>3, <1>4, <1>12 DEF Going, p, e

(* An event in an open block; a stop closes it.                            *)
LEMMA MessageGoesOn ==
    ASSUME NEW o, NEW n, NEW S, Going(o, n, S), NEW i \in S, NEW kind \in {"delta", "stop"}
    PROVE  /\ Going(o \o <<Ev(kind, i)>>, n, IF kind = "stop" THEN S \ {i} ELSE S)
           /\ o \o <<Ev(kind, i)>> # <<>> /\ o # <<>>
<1>. DEFINE e == Ev(kind, i)
            p == o \o <<e>>
            last == Len(o) + 1
            T == IF kind = "stop" THEN S \ {i} ELSE S
<1>1. n \in Nat \ {0} /\ o \in Seq(Event) /\ S \subseteq 1 .. n - 1 /\ i \in 1 .. n - 1 /\ i \in Nat
  BY DEF Going, Message
<1>2. e \in Event /\ e.kind = kind /\ e.index = i
  BY <1>1, EvTyped
<1>. HIDE DEF e
<1>3. /\ p \in Seq(Event) /\ p # <<>> /\ Len(o) \in Nat /\ (o = <<>> <=> Len(o) = 0)
      /\ \A k \in Pos(o) : p[k] = o[k] /\ k \in Pos(p) /\ k < last /\ o[k] \in Event /\ k \in Nat
      /\ p[last] = e /\ last \in Pos(p) /\ last \in Nat
      /\ \A k \in Pos(p) : k \in Pos(o) \/ k = last
  BY <1>1, <1>2, OneMore DEF Pos
<1>. HIDE DEF p, last
<1>31. PICK b \in Pos(o) : o[b] = Ev("block", i)
  BY <1>1 DEF Going, Message
<1>32. o # <<>> /\ 1 \in Pos(o)
  BY <1>3, <1>31 DEF Pos
<1>4. \A k \in Pos(p) : p[k].index < n /\ p[k].kind # "end"
  <2>1. \A k \in Pos(o) : o[k].index < n /\ o[k].kind # "end"
    BY DEF Going, Message
  <2>. QED
    BY <1>1, <1>2, <1>3, <2>1
<1>5. p[1] = Ev("start", 0) /\ \A k \in Pos(p) : p[k].kind = "start" => k = 1
  BY <1>2, <1>3, <1>32 DEF Going, Message
<1>6. \A k \in Pos(p) : p[k].kind \in BlockKinds => p[k].index \in 1 .. n - 1
  BY <1>1, <1>2, <1>3 DEF Going, Message
<1>7. \A m \in 1 .. n - 1 : \E k \in Pos(p) : p[k] = Ev("block", m)
  BY <1>1, <1>3 DEF Going, Message
<1>8. ASSUME NEW m \in (1 .. n - 1) \ T PROVE \E k \in Pos(p) : p[k] = Ev("stop", m)
  <2>1. CASE m = i /\ kind = "stop"
    BY <1>3, <2>1 DEF e
  <2>2. CASE ~(m = i /\ kind = "stop")
    <3>1. m \in (1 .. n - 1) \ S
      BY <2>2
    <3>2. PICK k \in Pos(o) : o[k] = Ev("stop", m)
      BY <3>1 DEF Going, Message
    <3>. QED
      BY <1>3, <3>2
  <2>. QED
    BY <2>1, <2>2
<1>9. \A k \in Pos(p) : p[k].kind = "stop" => p[k].index \notin T
  BY <1>1, <1>2, <1>3 DEF Going, Message
<1>10. ASSUME NEW j \in Pos(p), NEW k \in Pos(p), j < k, p[j].index = p[k].index,
              p[j].kind \in BlockKinds, p[k].kind \in BlockKinds
       PROVE  p[j].kind # "stop" /\ p[k].kind # "block"
  <2>1. j \in Pos(o)
    BY <1>3, <1>10
  <2>2. CASE k \in Pos(o)
    <3>1. p[j] = o[j] /\ p[k] = o[k]
      BY <1>3, <2>1, <2>2
    <3>. QED
      BY <1>10, <2>1, <2>2, <3>1 DEF Going, Message
  <2>3. CASE k = last
    BY <1>2, <1>3, <1>10, <2>1, <2>3 DEF Going, Message
  <2>. QED
    BY <1>3, <2>2, <2>3
<1>11. T \subseteq 1 .. n - 1
  BY <1>1
<1>. HIDE DEF T
<1>12. Message(p, n, T)
  BY <1>1, <1>3, <1>4, <1>5, <1>6, <1>7, <1>8, <1>9, <1>10, <1>11 DEF Message
<1>. QED
  BY <1>3, <1>32, <1>4, <1>12 DEF Going, p, e, T

(* The events of two streams one after the other.                          *)
LEMMA Concatenated ==
    ASSUME NEW o \in Seq(Event), NEW w \in Seq(Event)
    PROVE  /\ o \o w \in Seq(Event) /\ Len(o \o w) = Len(o) + Len(w)
           /\ \A i \in 1 .. Len(o) + Len(w) : (o \o w)[i] = IF i <= Len(o) THEN o[i] ELSE w[i - Len(o)]
BY ConcatProperties

Stops(w, m, f) == w = [i \in 1 .. m |-> Ev("stop", f[i])]

(* At the end all open blocks are closed in a row.                         *)
LEMMA MessageCloses ==
    ASSUME NEW o, NEW n, NEW S, Going(o, n, S), o # <<>>, NEW m \in Nat, NEW f \in [1 .. m -> S],
           \A i, j \in 1 .. m : f[i] = f[j] => i = j, \A x \in S : \E i \in 1 .. m : f[i] = x,
           NEW w, Stops(w, m, f)
    PROVE  w \in Seq(Event) /\ Going(o \o w, n, {}) /\ o \o w # <<>>
<1>. DEFINE p == o \o w
            last == Len(o)
<1>0. n \in Nat \ {0} /\ o \in Seq(Event) /\ S \subseteq 1 .. n - 1
  BY DEF Going, Message
<1>1. n \in Nat \ {0} /\ o \in Seq(Event) /\ \A x \in S : x \in 1 .. n - 1 /\ x \in Nat /\ x < n
  BY <1>0
<1>2. \A i \in 1 .. m : w[i] \in Event /\ w[i].kind = "stop" /\ w[i].index = f[i] /\ f[i] \in S
  <2>1. ASSUME NEW i \in 1 .. m
        PROVE  w[i] \in Event /\ w[i].kind = "stop" /\ w[i].index = f[i] /\ f[i] \in S
    <3>1. w[i] = Ev("stop", f[i]) /\ f[i] \in S
      BY DEF Stops
    <3>2. f[i] \in Nat
      BY <1>1, <3>1
    <3>. QED
      BY <3>1, <3>2, EvTyped
  <2>. QED
    BY <2>1
<1>3. w \in [1 .. m -> Event] /\ \A i \in 1 .. m : w[i] = Ev("stop", f[i])
  BY <1>2 DEF Stops
<1>4. w \in Seq(Event) /\ Len(w) = m
  BY <1>3
<1>5. /\ p \in Seq(Event) /\ Len(p) = last + m
      /\ \A i \in 1 .. last + m : p[i] = IF i <= last THEN o[i] ELSE w[i - last]
  <2>1. /\ p \in Seq(Event) /\ Len(p) = last + Len(w)
        /\ \A i \in 1 .. last + Len(w) : p[i] = IF i <= last THEN o[i] ELSE w[i - last]
    BY <1>1, <1>4, Concatenated
  <2>. QED
    BY <1>4, <2>1
<1>6. last \in Nat \ {0} /\ \A k \in Pos(o) : o[k] \in Event
  BY <1>1, EmptySeq, LenProperties, ElementOfSeq DEF Pos
<1>. HIDE DEF p
<1>7. \A k \in Pos(o) : p[k] = o[k] /\ k \in Pos(p) /\ k \in Nat /\ k <= last
  BY <1>4, <1>5, <1>6 DEF Pos
<1>8. ASSUME NEW i \in 1 .. m PROVE last + i \in Pos(p) /\ p[last + i] = w[i]
  <2>1. last + i \in 1 .. last + m /\ ~(last + i <= last) /\ (last + i) - last = i
    BY <1>6
  <2>. QED
    BY <1>5, <2>1 DEF Pos
<1>9. ASSUME NEW k \in Pos(p)
      PROVE  \/ k \in Pos(o) /\ p[k] = o[k]
             \/ k - last \in 1 .. m /\ p[k] = w[k - last]
  BY <1>5, <1>6 DEF Pos
<1>10. \A k \in Pos(p) : p[k].index < n /\ p[k].kind # "end"
  <2>1. \A k \in Pos(o) : o[k].index < n /\ o[k].kind # "end"
    BY DEF Going, Message
  <2>. QED
    BY <1>1, <1>2, <1>9, <2>1
<1>11. p[1] = Ev("start", 0) /\ \A k \in Pos(p) : p[k].kind = "start" => k = 1
  <2>1. 1 \in Pos(o)
    BY <1>6 DEF Pos
  <2>. QED
    BY <1>2, <1>7, <1>9, <2>1 DEF Going, Message
<1>12. ASSUME NEW k \in Pos(p), p[k].kind \in BlockKinds PROVE p[k].index \in 1 .. n - 1
  <2>1. CASE k \in Pos(o) /\ p[k] = o[k]
    BY <1>12, <2>1 DEF Going, Message
  <2>2. CASE k - last \in 1 .. m /\ p[k] = w[k - last]
    BY <1>1, <1>2, <2>2
  <2>. QED
    BY <1>9, <2>1, <2>2
<1>13. \A i \in 1 .. n - 1 : \E k \in Pos(p) : p[k] = Ev("block", i)
  BY <1>7 DEF Going, Message
<1>14. ASSUME NEW x \in 1 .. n - 1 PROVE \E k \in Pos(p) : p[k] = Ev("stop", x)
  <2>1. CASE x \in S
    <3>1. PICK i \in 1 .. m : f[i] = x
      BY <2>1
    <3>. QED
      BY <1>3, <1>8, <3>1
  <2>2. CASE x \notin S
    BY <1>7, <2>2 DEF Going, Message
  <2>. QED
    BY <2>1, <2>2
<1>15. ASSUME NEW j \in Pos(p), NEW k \in Pos(p), j < k, p[j].index = p[k].index,
              p[j].kind \in BlockKinds, p[k].kind \in BlockKinds
       PROVE  p[j].kind # "stop" /\ p[k].kind # "block"
  <2>1. j \in Nat /\ k \in Nat
    BY <1>5, <1>6 DEF Pos
  <2>2. CASE k \in Pos(o)
    <3>1. j \in Pos(o)
      BY <1>5, <1>6, <1>15, <2>1, <2>2 DEF Pos
    <3>2. p[j] = o[j] /\ p[k] = o[k]
      BY <1>7, <2>2, <3>1
    <3>. QED
      BY <1>15, <2>2, <3>1, <3>2 DEF Going, Message
  <2>3. CASE j \in Pos(o) /\ k - last \in 1 .. m /\ p[k] = w[k - last]
    <3>1. p[j] = o[j] /\ p[k].kind = "stop" /\ p[k].index \in S
      BY <1>2, <1>7, <2>3
    <3>. QED
      BY <1>15, <2>3, <3>1 DEF Going, Message
  <2>4. CASE j - last \in 1 .. m /\ p[j] = w[j - last] /\ k - last \in 1 .. m /\ p[k] = w[k - last]
    <3>1. f[j - last] = f[k - last]
      BY <1>2, <1>15, <2>4
    <3>2. j - last = k - last
      BY <2>4, <3>1
    <3>. QED
      BY <1>6, <1>15, <2>1, <3>2
  <2>5. j \in Pos(o) \/ k \notin Pos(o)
    BY <2>1, <1>15, <1>6 DEF Pos
  <2>. QED
    BY <1>9, <2>2, <2>3, <2>4
<1>16. Message(p, n, {})
  BY <1>1, <1>5, <1>10, <1>11, <1>12, <1>13, <1>14, <1>15 DEF Message
<1>17. p # <<>>
  BY <1>5, <1>6, <1>4
<1>. QED
  BY <1>4, <1>10, <1>16, <1>17 DEF Going, p

(* The start, unless it was written; the end of an open text.              *)
LEMMA BegunGoes ==
    ASSUME protocol = "claude", NEW t, NEW o, NEW S, Going(o, t.next, S), o # <<>> <=> t.started
    PROVE  Begun(t) \in Seq(Event) /\ Going(o \o Begun(t), t.next, S) /\ o \o Begun(t) # <<>>
<1>1. Ev("start", 0) \in Event /\ o \in Seq(Event)
  BY EvTyped DEF Going, Message
<1>2. CASE t.started
  <2>1. Begun(t) = <<>> /\ o \o Begun(t) = o
    BY <1>1, <1>2, ConcatEmptySeq DEF Begun
  <2>. QED
    BY <1>2, <2>1
<1>3. CASE ~t.started
  <2>1. o = <<>> /\ Begun(t) = <<Ev("start", 0)>>
    BY <1>3 DEF Begun
  <2>2. Begun(t) \in Seq(Event) /\ Begun(t) # <<>>
    BY <1>1, <2>1
  <2>3. o \o Begun(t) = <<Ev("start", 0)>>
    BY <2>1, <2>2, ConcatEmptySeq
  <2>. QED
    BY <1>3, <2>1, <2>2, <2>3, MessageStarts
<1>. QED
  BY <1>2, <1>3

(* A tool has an index that was given out.                                 *)
LEMMA BlockIndexes ==
    ASSUME NEW t, BlocksOK(t), t.next \in Nat \ {0}
    PROVE  /\ 0 \notin ToolIndexes(t) /\ ToolIndexes(t) \subseteq 1 .. t.next - 1
           /\ \A i \in 1 .. Len(t.tools) : t.tools[i].index \in 1 .. t.next - 1 /\ t.tools[i].index # t.next
<1>1. ToolIndexes(t) \subseteq 1 .. t.next - 1
  BY DEF BlocksOK
<1>2. \A i \in 1 .. Len(t.tools) : t.tools[i].index \in ToolIndexes(t)
  BY DEF ToolIndexes
<1>3. 0 \notin 1 .. t.next - 1 /\ t.next \notin 1 .. t.next - 1
  OBVIOUS
<1>. QED
  BY <1>1, <1>2, <1>3

(* A translator with the tools of another has its blocks.                  *)
LEMMA SameBlocks ==
    ASSUME NEW t, NEW u, BlocksOK(t), t.next \in Nat \ {0}, u.tools = t.tools, u.next = t.next,
           u.text \in {0, t.text}
    PROVE  BlocksOK(u) /\ ToolIndexes(u) = ToolIndexes(t)
<1>1. ToolIndexes(u) = ToolIndexes(t)
  BY DEF ToolIndexes
<1>2. 0 \notin ToolIndexes(t) /\ 0 \in 0 .. t.next - 1
  BY BlockIndexes
<1>. QED
  BY <1>1, <1>2 DEF BlocksOK

(* After an open text was ended, what is open is the tools.                *)
LEMMA ClosingGoes ==
    ASSUME NEW t, NEW o, o # <<>>, BlocksOK(t), Going(o, t.next, Open(t))
    PROVE  /\ Closing(t) \in Seq(Event) /\ Going(o \o Closing(t), t.next, ToolIndexes(t))
           /\ o \o Closing(t) # <<>>
<1>1. o \in Seq(Event)
  BY DEF Going, Message
<1>2. CASE t.text = 0
  <2>1. Closing(t) = <<>> /\ Open(t) = ToolIndexes(t)
    BY <1>2 DEF Closing, Open
  <2>. QED
    BY <1>1, <2>1, ConcatEmptySeq
<1>3. CASE t.text # 0
  <2>1. t.text \in Open(t) /\ Open(t) \ {t.text} = ToolIndexes(t)
    BY <1>3 DEF Open, BlocksOK
  <2>2. Closing(t) = <<Ev("stop", t.text)>>
    BY <1>3 DEF Closing
  <2>3. t.text \in Nat
    BY <2>1 DEF Going, Message
  <2>4. Closing(t) \in Seq(Event)
    BY <2>2, <2>3, EvTyped
  <2>5. Going(o \o <<Ev("stop", t.text)>>, t.next, Open(t) \ {t.text}) /\ o \o <<Ev("stop", t.text)>> # <<>>
    BY <2>1, MessageGoesOn
  <2>. QED
    BY <2>1, <2>2, <2>4, <2>5
<1>. QED
  BY <1>2, <1>3

(* How the pieces a translator writes are grouped does not matter.         *)
LEMMA Associates ==
    ASSUME NEW a \in Seq(Event), NEW b \in Seq(Event), NEW c \in Seq(Event)
    PROVE  a \o (b \o c) = (a \o b) \o c
BY ConcatAssociative, Z3

(* The same for a stream and three pieces after it.                        *)
LEMMA Joined ==
    ASSUME NEW a \in Seq(Event), NEW b \in Seq(Event), NEW c \in Seq(Event), NEW d \in Seq(Event)
    PROVE  /\ a \o (b \o c \o d) = ((a \o b) \o c) \o d
           /\ b \o c \in Seq(Event) /\ b \o c \o d \in Seq(Event)
<1>. DEFINE p == b \o c
<1>1. p \in Seq(Event) /\ p \o d \in Seq(Event)
  BY ConcatProperties
<1>2. a \o p = (a \o b) \o c
  BY Associates
<1>. HIDE DEF p
<1>3. a \o (p \o d) = (a \o p) \o d
  BY <1>1, Associates, ZenonT(30)
<1>. QED
  BY <1>1, <1>2, <1>3 DEF p

(* The same for a stream and four pieces after it.                         *)
LEMMA JoinedAll ==
    ASSUME NEW a \in Seq(Event), NEW b \in Seq(Event), NEW c \in Seq(Event), NEW d \in Seq(Event),
           NEW e \in Seq(Event)
    PROVE  /\ a \o (b \o c \o d \o e) = (((a \o b) \o c) \o d) \o e
           /\ b \o c \o d \o e \in Seq(Event)
<1>. DEFINE p == b \o c
            r == p \o d
<1>1. p \in Seq(Event) /\ a \o p = (a \o b) \o c
  BY Associates, Concatenated
<1>. HIDE DEF p
<1>2. a \o r = (a \o p) \o d
  BY <1>1, Associates, ZenonT(30)
<1>3. r \in Seq(Event)
  BY <1>1, Concatenated
<1>. HIDE DEF r
<1>4. a \o (r \o e) = (a \o r) \o e
  BY <1>3, Associates, ZenonT(30)
<1>5. r \o e \in Seq(Event)
  BY <1>3, Concatenated
<1>. QED
  BY <1>1, <1>2, <1>4, <1>5 DEF p, r

(* Two events are one event and another one.                               *)
LEMMA Pair ==
    ASSUME NEW x \in Event, NEW y \in Event
    PROVE  <<x>> \in Seq(Event) /\ <<y>> \in Seq(Event) /\ <<x>> \o <<y>> = <<x, y>>
<1>. DEFINE a == <<x>>
            b == <<y>>
            d == <<x, y>>
<1>1. a \in Seq(Event) /\ b \in Seq(Event) /\ Len(a) = 1 /\ Len(b) = 1 /\ a[1] = x /\ b[1] = y
  OBVIOUS
<1>2. d \in Seq(Event) /\ Len(d) = 2 /\ d[1] = x /\ d[2] = y
  OBVIOUS
<1>. HIDE DEF a, b, d
<1>3. a \o b \in Seq(Event) /\ Len(a \o b) = 2 /\ (a \o b)[1] = x /\ (a \o b)[2] = y
  <2>1. /\ a \o b \in Seq(Event) /\ Len(a \o b) = Len(a) + Len(b)
        /\ \A i \in 1 .. Len(a) + Len(b) : (a \o b)[i] = IF i <= Len(a) THEN a[i] ELSE b[i - Len(a)]
    BY <1>1, Concatenated
  <2>. QED
    BY <1>1, <2>1
<1>4. a \o b = d
  <2>1. \A i \in 1 .. Len(d) : (a \o b)[i] = d[i]
    BY <1>2, <1>3
  <2>. QED
    BY <1>2, <1>3, <2>1, SeqEqual
<1>. QED
  BY <1>1, <1>4 DEF a, b, d

(* What a message that goes on is made of.                                 *)
LEMMA GoingTyped ==
    ASSUME NEW o, NEW n, NEW S, Going(o, n, S)
    PROVE  Message(o, n, S) /\ o \in Seq(Event) /\ n \in Nat \ {0} /\ S \subseteq 1 .. n - 1
BY DEF Going, Message

(* What Claude's translator writes of a chunk, and what it becomes.        *)
LEMMA ClaudeWrites ==
    ASSUME protocol = "claude", NEW t, NEW c
    PROVE  /\ c = "text" /\ t.text = 0 =>
                ConsumeWrites(t, c) = Begun(t) \o <<Ev("block", t.next), Ev("delta", t.next)>>
           /\ c = "text" /\ t.text # 0 => ConsumeWrites(t, c) = Begun(t) \o <<Ev("delta", t.text)>>
           /\ c \in Tools =>
                ConsumeWrites(t, c) =
                  Begun(t) \o Closing(t)
                    \o (IF ToolSeen(t, c) THEN <<>> ELSE <<Ev("block", t.next)>>)
                    \o (IF c = "bare" THEN <<>> ELSE <<Ev("delta", ToolIndex(t, c))>>)
           /\ c # "text" /\ c \notin Tools => ConsumeWrites(t, c) = <<>>
<1>1. "text" \notin Tools
  BY DEF Tools
<1>2. CASE c = "text" /\ t.text = 0
  <2>1. ConsumeWrites(t, c) = Begun(t) \o (IF t.text = 0 THEN <<Ev("block", t.next), Ev("delta", t.next)>>
                                      ELSE <<Ev("delta", t.text)>>)
    BY <1>1, <1>2 DEF ConsumeWrites
  <2>. QED
    BY <1>1, <1>2, <2>1
<1>3. CASE c = "text" /\ t.text # 0
  <2>1. ConsumeWrites(t, c) = Begun(t) \o (IF t.text = 0 THEN <<Ev("block", t.next), Ev("delta", t.next)>>
                                      ELSE <<Ev("delta", t.text)>>)
    BY <1>1, <1>3 DEF ConsumeWrites
  <2>. QED
    BY <1>1, <1>3, <2>1
<1>4. CASE c \in Tools
  BY <1>1, <1>4 DEF ConsumeWrites
<1>5. CASE c # "text" /\ c \notin Tools
  BY <1>5 DEF ConsumeWrites
<1>. QED
  BY <1>2, <1>3, <1>4, <1>5

(* What a chunk makes of a translator, field by field.                     *)
LEMMA StateOf ==
    ASSUME NEW t \in Translator, NEW c
    PROVE  LET u == ConsumeState(t, c)
               new == c \in Tools /\ ~ToolSeen(t, c)
           IN  /\ (u.content <=> (t.content \/ c = "text"
                    \/ c \in Tools \ (IF protocol = "claude" THEN {} ELSE {"bare"})))
               /\ (u.started <=> (t.started \/ ConsumeWrites(t, c) # <<>>))
               /\ u.content \in BOOLEAN /\ u.started \in BOOLEAN
               /\ u.finished = t.finished
               /\ u.next = IF protocol = "claude" /\ ((c = "text" /\ t.text = 0) \/ new)
                           THEN t.next + 1 ELSE t.next
               /\ u.text = IF protocol = "claude" /\ c = "text"
                           THEN (IF t.text = 0 THEN t.next ELSE t.text)
                           ELSE IF c \in Tools THEN 0 ELSE t.text
               /\ u.tools = IF new THEN Append(t.tools, [name |-> Tool(c), index |-> t.next]) ELSE t.tools
               /\ DOMAIN u = DOMAIN t
BY DEF ConsumeState, Translator

(* A chunk that Claude's translator takes in: its message goes on.         *)
LEMMA ClaudeConsumes ==
    ASSUME protocol = "claude", NEW t, NEW o, WrittenBy(t, o), ~t.finished,
           NEW c \in {"text", "tool", "bare", "other", "role"}
    PROVE  LET u == ConsumeState(t, c)
               w == ConsumeWrites(t, c)
           IN  w \in Seq(Event) /\ BlocksOK(u) /\ Going(o \o w, u.next, Open(u))
<1>. DEFINE u == ConsumeState(t, c)
            w == ConsumeWrites(t, c)
            n == t.next
            x == Begun(t)
            y == Closing(t)
            q == o \o x
            r == q \o y
<1>0. t \in Translator /\ ("text" \notin Tools) /\ ("role" \notin Tools)
  BY DEF WrittenBy, Tools
<1>1. /\ BlocksOK(t) /\ Going(o, n, Open(t)) /\ o \in Seq(Event)
      /\ (o # <<>> <=> t.started) /\ n \in Nat \ {0} /\ t.text \in Nat /\ t.text < n
      /\ t.tools \in Seq([name: {"tool", "other"}, index: Nat])
  BY DEF WrittenBy, Going, Translator, BlocksOK
<1>2. x \in Seq(Event) /\ Going(q, n, Open(t)) /\ q # <<>>
  BY <1>1, BegunGoes, Zenon
<1>. HIDE DEF x
<1>3. q \in Seq(Event)
  BY <1>2, GoingTyped, Zenon
<1>. HIDE DEF q
<1>4. y \in Seq(Event) /\ Going(r, n, ToolIndexes(t)) /\ r # <<>>
  BY <1>1, <1>2, ClosingGoes, Zenon
<1>. HIDE DEF y
<1>5. r \in Seq(Event)
  BY <1>4, GoingTyped, Zenon
<1>. HIDE DEF r
<1>6. /\ c = "text" /\ t.text = 0 => w = x \o <<Ev("block", n), Ev("delta", n)>>
      /\ c = "text" /\ t.text # 0 => w = x \o <<Ev("delta", t.text)>>
      /\ c \in Tools => w = x \o y \o (IF ToolSeen(t, c) THEN <<>> ELSE <<Ev("block", n)>>)
                              \o (IF c = "bare" THEN <<>> ELSE <<Ev("delta", ToolIndex(t, c))>>)
      /\ c # "text" /\ c \notin Tools => w = <<>>
  BY ClaudeWrites DEF x, y
<1>7. /\ u.next = IF (c = "text" /\ t.text = 0) \/ (c \in Tools /\ ~ToolSeen(t, c))
                  THEN n + 1 ELSE n
      /\ u.text = IF c = "text" THEN (IF t.text = 0 THEN n ELSE t.text)
                  ELSE IF c \in Tools THEN 0 ELSE t.text
      /\ u.tools = IF c \in Tools /\ ~ToolSeen(t, c)
                   THEN Append(t.tools, [name |-> Tool(c), index |-> n]) ELSE t.tools
  BY <1>0, StateOf
<1>8. \A i \in Nat : Ev("block", i) \in Event /\ Ev("delta", i) \in Event
  BY EvTyped
<1>. HIDE DEF u, w, n
<1>9. CASE c = "role"
  <2>1. w = <<>> /\ u.text = t.text /\ u.tools = t.tools /\ u.next = n
    BY <1>0, <1>6, <1>7, <1>9
  <2>2. o \o w = o /\ w \in Seq(Event)
    BY <1>1, <2>1, ConcatEmptySeq
  <2>3. Open(u) = Open(t) /\ BlocksOK(u)
    BY <1>1, <2>1, SameBlocks DEF Open, n
  <2>. QED
    BY <1>1, <2>1, <2>2, <2>3 DEF u, w
<1>10. CASE c = "text" /\ t.text = 0
  <2>. DEFINE a == <<Ev("block", n)>>
              b == <<Ev("delta", n)>>
              ab == <<Ev("block", n), Ev("delta", n)>>
  <2>0. c = "text" /\ t.text = 0 /\ c \notin Tools
    BY <1>0, <1>10
  <2>1. u.text = n /\ u.tools = t.tools /\ u.next = n + 1
    BY <1>7, <2>0
  <2>2. a \in Seq(Event) /\ b \in Seq(Event) /\ a \o b = ab
    BY <1>1, <1>8, Pair
  <2>3. w = x \o ab
    BY <1>6, <1>10
  <2>4. Going(q \o a, n + 1, Open(t) \cup {n})
    BY <1>2, MessageOpens, Zenon
  <2>5. Going((q \o a) \o b, n + 1, Open(t) \cup {n})
    BY <2>4, MessageGoesOn
  <2>. HIDE DEF a, b, ab
  <2>6. w \in Seq(Event)
    BY <1>2, <2>2, <2>3, Concatenated
  <2>7. o \o (x \o (a \o b)) = ((o \o x) \o a) \o b
    <3>1. (x \o a) \o b = x \o (a \o b)
      BY <1>2, <2>2, Associates, Zenon
    <3>. QED
      <4>1. x \o a \in Seq(Event) /\ o \o (x \o a) = (o \o x) \o a
        BY <1>1, <1>2, <2>2, Associates, Concatenated
      <4>2. o \o ((x \o a) \o b) = (o \o (x \o a)) \o b
        BY <1>1, <2>2, <4>1, Associates, Zenon
      <4>. QED
        BY <3>1, <4>1, <4>2
  <2>8. o \o w = (q \o a) \o b
    BY <2>2, <2>3, <2>7 DEF q
  <2>9. ToolIndexes(u) = ToolIndexes(t) /\ Open(u) = Open(t) \cup {n}
    BY <1>1, <1>10, <2>1 DEF Open, ToolIndexes
  <2>10. BlocksOK(u)
    <3>1. n \notin ToolIndexes(t) /\ ToolIndexes(t) \subseteq 1 .. (n + 1) - 1 /\ n \in 0 .. (n + 1) - 1
      BY <1>1 DEF BlocksOK, n
    <3>. QED
      BY <1>1, <2>1, <2>9, <3>1 DEF BlocksOK
  <2>. QED
    BY <2>1, <2>5, <2>6, <2>8, <2>9, <2>10 DEF u, w
<1>11. CASE c = "text" /\ t.text # 0
  <2>. DEFINE a == <<Ev("delta", t.text)>>
  <2>1. u.text = t.text /\ u.tools = t.tools /\ u.next = n
    BY <1>0, <1>7, <1>11
  <2>2. w = x \o a /\ a \in Seq(Event)
    <3>1. w = x \o a
      BY <1>6, <1>11
    <3>2. Ev("delta", t.text) \in Event
      BY <1>1, <1>8
    <3>. QED
      BY <3>1, <3>2
  <2>3. t.text \in Open(t)
    BY <1>11 DEF Open
  <2>4. Going(q \o a, n, Open(t))
    BY <1>2, <2>3, MessageGoesOn
  <2>. HIDE DEF a
  <2>5. w \in Seq(Event) /\ o \o w = q \o a
    <3>1. o \o (x \o a) = (o \o x) \o a
      BY <1>1, <1>2, <2>2, Associates, Zenon
    <3>2. w \in Seq(Event)
      BY <1>2, <2>2, Concatenated
    <3>. QED
      BY <2>2, <3>1, <3>2 DEF q
  <2>6. Open(u) = Open(t) /\ BlocksOK(u)
    BY <1>1, <2>1, SameBlocks DEF Open, n
  <2>. QED
    BY <2>1, <2>4, <2>5, <2>6 DEF u, w
<1>12. CASE c \in Tools /\ ~ToolSeen(t, c)
  <2>. DEFINE a == <<Ev("block", n)>>
              b == IF c = "bare" THEN <<>> ELSE <<Ev("delta", n)>>
              new == [name |-> Tool(c), index |-> n]
  <2>1. u.text = 0 /\ u.tools = Append(t.tools, new) /\ u.next = n + 1
    BY <1>0, <1>7, <1>12
  <2>2. w = x \o y \o a \o b
    BY <1>6, <1>12 DEF ToolIndex, n
  <2>3. a \in Seq(Event) /\ b \in Seq(Event)
    BY <1>1, <1>8
  <2>4. Going(r \o a, n + 1, ToolIndexes(t) \cup {n}) /\ r \o a # <<>>
    BY <1>4, MessageOpens, Zenon
  <2>5. r \o a \in Seq(Event)
    BY <2>4, GoingTyped, Zenon
  <2>6. Going((r \o a) \o b, n + 1, ToolIndexes(t) \cup {n})
    <3>1. CASE c = "bare"
      <4>1. b = <<>>
        BY <3>1
      <4>2. (r \o a) \o b = r \o a
        BY <2>5, <4>1, ConcatEmptySeq
      <4>. QED
        BY <2>4, <4>2
    <3>2. CASE c # "bare"
      <4>1. b = <<Ev("delta", n)>>
        BY <3>2
      <4>. HIDE DEF a, b
      <4>2. n \in ToolIndexes(t) \cup {n}
        OBVIOUS
      <4>3. Going((r \o a) \o <<Ev("delta", n)>>, n + 1, ToolIndexes(t) \cup {n})
        BY <2>4, <4>2, MessageGoesOn
      <4>. QED
        BY <4>1, <4>3
    <3>. QED
      BY <3>1, <3>2
  <2>. HIDE DEF a, b
  <2>7. w \in Seq(Event) /\ o \o w = (r \o a) \o b
    <3>1. o \o (x \o y \o a \o b) = (((o \o x) \o y) \o a) \o b /\ x \o y \o a \o b \in Seq(Event)
      BY <1>1, <1>2, <1>4, <2>3, JoinedAll, Zenon
    <3>. QED
      BY <2>2, <3>1 DEF q, r
  <2>8. /\ Len(u.tools) = Len(t.tools) + 1 /\ Len(t.tools) \in Nat
        /\ \A i \in 1 .. Len(t.tools) : u.tools[i] = t.tools[i]
        /\ u.tools[Len(t.tools) + 1] = new
    <3>1. new \in [name: {"tool", "other"}, index: Nat]
      BY <1>1, <1>12 DEF Tool, Tools
    <3>. QED
      BY <1>1, <2>1, <3>1, AppendProperties, LenProperties
  <2>81. new.index = n
    OBVIOUS
  <2>. HIDE DEF new
  <2>9. ToolIndexes(u) = ToolIndexes(t) \cup {n}
    <3>1. 1 .. Len(t.tools) + 1 = 1 .. Len(t.tools) \cup {Len(t.tools) + 1}
      BY <2>8
    <3>. QED
      <4>1. \A i \in 1 .. Len(t.tools) : u.tools[i].index = t.tools[i].index
        BY <2>8
      <4>2. \A e : (\E i \in 1 .. Len(u.tools) : e = u.tools[i].index)
                   <=> (\E i \in 1 .. Len(t.tools) : e = t.tools[i].index) \/ e = n
        BY <2>8, <2>81, <3>1, <4>1
      <4>3. \A v, e : e \in ToolIndexes(v) <=> \E i \in 1 .. Len(v.tools) : e = v.tools[i].index
        BY DEF ToolIndexes
      <4>4. ASSUME NEW e PROVE e \in ToolIndexes(u) <=> (e \in ToolIndexes(t) \/ e = n)
        <5>1. /\ e \in ToolIndexes(u) <=> \E i \in 1 .. Len(u.tools) : e = u.tools[i].index
              /\ e \in ToolIndexes(t) <=> \E i \in 1 .. Len(t.tools) : e = t.tools[i].index
          BY <4>3
        <5>. QED
          BY <4>2, <5>1
      <4>. QED
        BY <4>4
  <2>10. BlocksOK(u)
    <3>1. \A i \in 1 .. Len(t.tools) : t.tools[i].index \in 1 .. n - 1 /\ t.tools[i].index # n
      BY <1>1, BlockIndexes DEF n
    <3>2. \A i, j \in 1 .. Len(t.tools) : t.tools[i].index = t.tools[j].index => i = j
      BY <1>1 DEF BlocksOK
    <3>3. ToolIndexes(t) \subseteq 1 .. n - 1
      BY <1>1 DEF BlocksOK, n
    <3>4. \A i \in 1 .. Len(u.tools) : i \in 1 .. Len(t.tools) \/ i = Len(t.tools) + 1
      BY <2>8
    <3>5. \A i, j \in 1 .. Len(u.tools) : u.tools[i].index = u.tools[j].index => i = j
      BY <2>8, <2>81, <3>1, <3>2, <3>4, Zenon
    <3>6. u.text \in 0 .. u.next - 1 /\ u.text \notin ToolIndexes(u) /\ ToolIndexes(u) \subseteq 1 .. u.next - 1
      BY <1>1, <2>1, <2>9, <3>3
    <3>. QED
      BY <3>5, <3>6 DEF BlocksOK
  <2>11. Open(u) = ToolIndexes(t) \cup {n}
    BY <2>1, <2>9 DEF Open
  <2>. QED
    BY <2>1, <2>6, <2>7, <2>10, <2>11 DEF u, w
<1>13. CASE c \in Tools /\ ToolSeen(t, c)
  <2>. DEFINE i == ToolIndex(t, c)
              b == IF c = "bare" THEN <<>> ELSE <<Ev("delta", i)>>
              z == <<>>
  <2>1. u.text = 0 /\ u.tools = t.tools /\ u.next = n
    BY <1>0, <1>7, <1>13
  <2>2. w = x \o y \o z \o b
    BY <1>6, <1>13
  <2>3. i \in ToolIndexes(t)
    BY <1>13 DEF ToolIndex, ToolSeen, ToolIndexes
  <2>. HIDE DEF i
  <2>4. i \in Nat
    BY <1>1, <2>3 DEF BlocksOK
  <2>5. b \in Seq(Event) /\ z \in Seq(Event)
    BY <1>8, <2>4
  <2>6. r \o z = r
    BY <1>5, ConcatEmptySeq
  <2>7. Going(r \o b, n, ToolIndexes(t))
    <3>1. CASE c = "bare"
      <4>1. b = <<>>
        BY <3>1
      <4>2. r \o b = r
        BY <1>5, <4>1, ConcatEmptySeq
      <4>. QED
        BY <1>4, <4>2
    <3>2. CASE c # "bare"
      <4>1. b = <<Ev("delta", i)>>
        BY <3>2
      <4>2. Going(r \o <<Ev("delta", i)>>, n, ToolIndexes(t))
        BY <1>4, <2>3, MessageGoesOn
      <4>. QED
        BY <4>1, <4>2
    <3>. QED
      BY <3>1, <3>2
  <2>. HIDE DEF b, z
  <2>8. w \in Seq(Event) /\ o \o w = r \o b
    <3>1. o \o (x \o y \o z \o b) = (((o \o x) \o y) \o z) \o b /\ x \o y \o z \o b \in Seq(Event)
      BY <1>1, <1>2, <1>4, <2>5, JoinedAll, Zenon
    <3>. QED
      BY <2>2, <2>6, <3>1 DEF q, r
  <2>9. ToolIndexes(u) = ToolIndexes(t) /\ Open(u) = ToolIndexes(t)
    BY <2>1 DEF ToolIndexes, Open
  <2>10. BlocksOK(u)
    BY <1>1, <2>1, SameBlocks DEF n
  <2>. QED
    BY <2>1, <2>7, <2>8, <2>9, <2>10 DEF u, w
<1>. QED
  BY <1>9, <1>10, <1>11, <1>12, <1>13 DEF Tools

(* A translator whose fields are replaced is one.                          *)
LEMMA TranslatorOf ==
    ASSUME NEW t \in Translator, NEW content \in BOOLEAN, NEW started \in BOOLEAN,
           NEW next \in Nat \ {0}, NEW text \in Nat,
           NEW tools \in Seq([name: {"tool", "other"}, index: Nat])
    PROVE  [t EXCEPT !.content = content, !.started = started, !.next = next, !.text = text,
                     !.tools = tools] \in Translator
BY DEF Translator

Named(tools) == \A i, j \in 1 .. Len(tools) : tools[i].name = tools[j].name => i = j

(* The tools known after a chunk: each by its name, once.                  *)
LEMMA ToolsGrow ==
    ASSUME NEW t \in Translator, Named(t.tools), NEW c
    PROVE  LET u == ConsumeState(t, c)
               new == c \in Tools /\ ~ToolSeen(t, c)
           IN  /\ u \in Translator /\ Named(u.tools)
               /\ u.next \in {t.next, t.next + 1}
               /\ new => /\ u.tools # <<>> /\ Len(u.tools) = Len(t.tools) + 1 /\ Len(t.tools) \in Nat
                         /\ \A i \in 1 .. Len(t.tools) : u.tools[i] = t.tools[i]
                         /\ u.tools[Len(t.tools) + 1].index = t.next
               /\ ~new => u.tools = t.tools
<1>. DEFINE u == ConsumeState(t, c)
            new == c \in Tools /\ ~ToolSeen(t, c)
            row == [name |-> Tool(c), index |-> t.next]
            s == IF new THEN Append(t.tools, row) ELSE t.tools
            x == IF protocol = "claude" /\ c = "text" THEN (IF t.text = 0 THEN t.next ELSE t.text)
                 ELSE IF c \in Tools THEN 0 ELSE t.text
            n == IF protocol = "claude" /\ ((c = "text" /\ t.text = 0) \/ new) THEN t.next + 1 ELSE t.next
<1>1. /\ t.next \in Nat \ {0} /\ t.text \in Nat
      /\ t.tools \in Seq([name: {"tool", "other"}, index: Nat]) /\ Len(t.tools) \in Nat
  BY LenProperties DEF Translator
<1>2. c \in Tools => row \in [name: {"tool", "other"}, index: Nat]
  BY <1>1 DEF Tools, Tool
<1>3. s \in Seq([name: {"tool", "other"}, index: Nat])
  BY <1>1, <1>2, AppendProperties
<1>4. x \in Nat /\ n \in Nat \ {0} /\ n \in {t.next, t.next + 1}
  BY <1>1
<1>5. u.next = n /\ u.tools = s
  BY StateOf
<1>6. u \in Translator
  <2>1. u = [t EXCEPT !.content = @ \/ c = "text" \/ c \in Tools \ (IF protocol = "claude" THEN {} ELSE {"bare"}),
                      !.started = @ \/ ConsumeWrites(t, c) # <<>>,
                      !.next = n, !.text = x, !.tools = s]
    BY DEF ConsumeState, Translator
  <2>. DEFINE a == t.content \/ c = "text" \/ c \in Tools \ (IF protocol = "claude" THEN {} ELSE {"bare"})
              b == t.started \/ ConsumeWrites(t, c) # <<>>
  <2>2. a \in BOOLEAN /\ b \in BOOLEAN
    OBVIOUS
  <2>3. u = [t EXCEPT !.content = a, !.started = b, !.next = n, !.text = x, !.tools = s]
    BY <2>1
  <2>. HIDE DEF a, b, n, x, s, u
  <2>. QED
    BY <1>3, <1>4, <2>2, <2>3, TranslatorOf, Zenon
<1>7. new => /\ s # <<>> /\ Len(s) = Len(t.tools) + 1
             /\ \A i \in 1 .. Len(t.tools) : s[i] = t.tools[i]
             /\ s[Len(t.tools) + 1] = row
  BY <1>1, <1>2, AppendProperties
<1>8. Named(s)
  <2>1. CASE new
    <3>1. \A i \in 1 .. Len(t.tools) : t.tools[i].name # Tool(c)
      BY <2>1 DEF ToolSeen
    <3>2. row.name = Tool(c)
      OBVIOUS
    <3>. HIDE DEF row, s
    <3>3. \A i \in 1 .. Len(s) : i \in 1 .. Len(t.tools) \/ i = Len(t.tools) + 1
      BY <1>1, <1>7, <2>1
    <3>. QED
      BY <1>7, <2>1, <3>1, <3>2, <3>3, Zenon DEF Named
  <2>2. CASE ~new
    BY <2>2
  <2>. QED
    BY <2>1, <2>2
<1>9. row.index = t.next
  OBVIOUS
<1>10. new => s[Len(t.tools) + 1].index = t.next
  BY <1>7, <1>9
<1>. HIDE DEF row, u
<1>. QED
  BY <1>1, <1>4, <1>5, <1>6, <1>7, <1>8, <1>10 DEF u

(* A chunk that Gemini's translator takes in.                              *)
LEMMA GeminiWrites ==
    ASSUME protocol = "gemini", NEW t, NEW c
    PROVE  ConsumeWrites(t, c) = IF c = "text" THEN <<Ev("delta", 0)>> ELSE <<>>
<1>1. protocol # "claude"
  OBVIOUS
<1>2. CASE c = "text"
  BY <1>2 DEF ConsumeWrites
<1>3. CASE c # "text"
  BY <1>1, <1>3 DEF ConsumeWrites
<1>. QED
  BY <1>2, <1>3

Extra(t) == IF t.tools = <<>> THEN 0 ELSE 1

(* A chunk adds at most a delta to Gemini's stream, whose tools all have   *)
(* index 1.                                                                *)
LEMMA GeminiConsumes ==
    ASSUME protocol = "gemini", NEW t, NEW o, WrittenBy(t, o), ~t.finished,
           NEW c \in {"text", "tool", "bare", "other", "role"}
    PROVE  LET u == ConsumeState(t, c)
               w == ConsumeWrites(t, c)
           IN  /\ w \in Seq(Event) /\ o \o w \in Seq(Event)
               /\ \A k \in Pos(o \o w) : (o \o w)[k].index < u.next + Extra(u) /\ (o \o w)[k].kind # "end"
               /\ u.text = 0 /\ u.next = 1 /\ \A i \in 1 .. Len(u.tools) : u.tools[i].index = 1
               /\ (o # <<>> => o \o w # <<>>)
<1>. DEFINE u == ConsumeState(t, c)
            w == ConsumeWrites(t, c)
            p == o \o w
            e == Ev("delta", 0)
<1>1. /\ t \in Translator /\ o \in Seq(Event) /\ Named(t.tools)
      /\ \A k \in Pos(o) : o[k].index < 1 + Extra(t) /\ o[k].kind # "end"
      /\ t.text = 0 /\ t.next = 1 /\ \A i \in 1 .. Len(t.tools) : t.tools[i].index = 1
  BY DEF WrittenBy, Named, Extra
<1>2. w = IF c = "text" THEN <<e>> ELSE <<>>
  BY GeminiWrites
<1>3. e \in Event /\ e.kind = "delta" /\ e.index = 0
  BY EvTyped
<1>. HIDE DEF w, e
<1>4. u.text = 0 /\ u.next = 1
  BY <1>1, StateOf
<1>5. /\ \A i \in 1 .. Len(u.tools) : u.tools[i].index = 1
      /\ Extra(t) <= Extra(u) /\ Extra(u) \in Nat
  <2>1. CASE c \in Tools /\ ~ToolSeen(t, c)
    <3>1. /\ u.tools # <<>> /\ Len(u.tools) = Len(t.tools) + 1 /\ Len(t.tools) \in Nat
          /\ \A i \in 1 .. Len(t.tools) : u.tools[i] = t.tools[i]
          /\ u.tools[Len(t.tools) + 1].index = t.next
      BY <1>1, <2>1, ToolsGrow
    <3>. HIDE DEF u
    <3>2. \A i \in 1 .. Len(u.tools) : i \in 1 .. Len(t.tools) \/ i = Len(t.tools) + 1
      BY <3>1
    <3>3. \A i \in 1 .. Len(u.tools) : u.tools[i].index = 1
      BY <1>1, <3>1, <3>2
    <3>. QED
      BY <3>1, <3>3 DEF Extra
  <2>2. CASE ~(c \in Tools /\ ~ToolSeen(t, c))
    <3>1. u.tools = t.tools
      BY <1>1, <2>2, ToolsGrow
    <3>. HIDE DEF u
    <3>. QED
      BY <1>1, <3>1 DEF Extra
  <2>. QED
    BY <2>1, <2>2
<1>. HIDE DEF u
<1>6. CASE c = "text"
  <2>. DEFINE v == o \o <<e>>
  <2>0. p = v
    BY <1>2, <1>6
  <2>9. /\ v \in Seq(Event) /\ v # <<>>
        /\ \A k \in Pos(o) : v[k] = o[k] /\ o[k] \in Event
        /\ v[Len(o) + 1] = e
        /\ \A k \in Pos(v) : k \in Pos(o) \/ k = Len(o) + 1
    BY <1>1, <1>3, OneMore DEF Pos
  <2>. HIDE DEF p, v
  <2>1. /\ p \in Seq(Event) /\ p # <<>>
        /\ \A k \in Pos(o) : p[k] = o[k] /\ o[k] \in Event
        /\ p[Len(o) + 1] = e
        /\ \A k \in Pos(p) : k \in Pos(o) \/ k = Len(o) + 1
    BY <2>0, <2>9 DEF Pos
  <2>2. \A k \in Pos(p) : p[k].index < 1 + Extra(u) /\ p[k].kind # "end"
    <3>1. \A k \in Pos(o) : o[k].index \in Nat
      BY <2>1 DEF Event
    <3>2. Extra(t) \in Nat
      BY DEF Extra
    <3>. QED
      BY <1>1, <1>3, <1>5, <2>1, <3>1, <3>2
  <2>3. w \in Seq(Event)
    BY <1>2, <1>3, <1>6
  <2>. QED
    BY <1>4, <1>5, <2>1, <2>2, <2>3 DEF u, w, p
<1>7. CASE c # "text"
  <2>1. w = <<>> /\ p = o
    BY <1>1, <1>2, <1>7, ConcatEmptySeq
  <2>2. \A k \in Pos(o) : o[k].index \in Nat
    BY <1>1, SeqTyped
  <2>3. Extra(t) \in Nat
    BY DEF Extra
  <2>4. w \in Seq(Event)
    BY <2>1
  <2>5. \A k \in Pos(o) : o[k].index < 1 + Extra(u) /\ o[k].kind # "end"
    BY <1>1, <1>5, <2>2, <2>3
  <2>. HIDE DEF p
  <2>. QED
    BY <1>1, <1>4, <1>5, <2>1, <2>4, <2>5 DEF u, w, p
<1>. QED
  BY <1>6, <1>7

(* A chunk, whatever the protocol: what the translator wrote fits what it  *)
(* knows.                                                                  *)
LEMMA ConsumeKeeps ==
    ASSUME protocol \in {"claude", "gemini"}, NEW t, NEW o, WrittenBy(t, o), ~t.finished,
           NEW c \in {"text", "tool", "bare", "other", "role"}
    PROVE  LET u == ConsumeState(t, c) IN
           /\ WrittenBy(u, o \o ConsumeWrites(t, c)) /\ ~u.finished /\ ConsumeWrites(t, c) \in Seq(Event)
           /\ u.next <= t.next + 1 /\ u.next \in Nat /\ t.next \in Nat
<1>. DEFINE u == ConsumeState(t, c)
            w == ConsumeWrites(t, c)
            p == o \o w
<1>1. t \in Translator /\ o \in Seq(Event) /\ Named(t.tools) /\ (o # <<>> <=> t.started) /\ t.next \in Nat
      /\ (t.content => o # <<>> \/ t.tools # <<>>)
  BY DEF WrittenBy, Named, Translator
<1>2. /\ u \in Translator /\ Named(u.tools) /\ u.next \in {t.next, t.next + 1} /\ u.finished = t.finished
      /\ (u.started <=> (t.started \/ w # <<>>))
      /\ (u.content <=> (t.content \/ c = "text" \/ c \in Tools \ (IF protocol = "claude" THEN {} ELSE {"bare"})))
  <2>1. u \in Translator /\ Named(u.tools) /\ u.next \in {t.next, t.next + 1}
    BY <1>1, ToolsGrow, Zenon
  <2>2. /\ u.finished = t.finished /\ (u.started <=> (t.started \/ w # <<>>))
        /\ (u.content <=> (t.content \/ c = "text" \/ c \in Tools \ (IF protocol = "claude" THEN {} ELSE {"bare"})))
    BY <1>1, StateOf, Zenon
  <2>. QED
    BY <2>1, <2>2
<1>3. t.tools # <<>> => u.tools # <<>>
  BY <1>1, ToolsGrow
<1>4. (c \in Tools /\ ~ToolSeen(t, c) => u.tools # <<>>) /\ (c \in Tools /\ ToolSeen(t, c) => t.tools # <<>>)
  BY <1>1, ToolsGrow DEF ToolSeen
<1>5. w \in Seq(Event) /\ p \in Seq(Event)
      /\ \A k \in Pos(p) : p[k].index < u.next + Extra(u) /\ p[k].kind # "end"
  <2>1. CASE protocol = "claude"
    <3>1. w \in Seq(Event) /\ Going(p, u.next, Open(u))
      BY <2>1, ClaudeConsumes
    <3>. HIDE DEF u, w, p
    <3>2. \A k \in Pos(p) : p[k].index \in Nat /\ p[k].index < u.next /\ p[k].kind # "end"
      <4>1. p \in Seq(Event) /\ \A k \in Pos(p) : p[k].index < u.next /\ p[k].kind # "end"
        BY <3>1 DEF Going, Message
      <4>. QED
        BY <4>1, SeqTyped
    <3>3. Extra(u) \in Nat /\ u.next \in Nat
      BY <1>2 DEF Extra, Translator
    <3>4. \A k \in Pos(p) : p[k].index < u.next + Extra(u)
      BY <3>2, <3>3
    <3>5. p \in Seq(Event)
      BY <3>1, GoingTyped, Zenon
    <3>. QED
      BY <3>1, <3>2, <3>4, <3>5
  <2>2. CASE protocol = "gemini"
    BY <2>2, GeminiConsumes, Zenon
  <2>. QED
    BY <2>1, <2>2
<1>6. p # <<>> <=> (o # <<>> \/ w # <<>>)
  <2>1. Len(p) = Len(o) + Len(w) /\ Len(o) \in Nat /\ Len(w) \in Nat
    BY <1>1, <1>5, Concatenated, LenProperties
  <2>. HIDE DEF p, w
  <2>. QED
    BY <1>1, <1>5, <2>1, EmptySeq
<1>7. c = "text" => w # <<>>
  <2>1. CASE protocol = "claude" /\ c = "text"
    <3>1. w = Begun(t) \o (IF t.text = 0 THEN <<Ev("block", t.next), Ev("delta", t.next)>>
                                        ELSE <<Ev("delta", t.text)>>)
      BY <2>1, ClaudeWrites
    <3>. DEFINE x == Begun(t)
                z == IF t.text = 0 THEN <<Ev("block", t.next), Ev("delta", t.next)>> ELSE <<Ev("delta", t.text)>>
    <3>2. x \in Seq(Event) /\ z \in Seq(Event) /\ Len(z) > 0
      <4>1. Ev("start", 0) \in Event /\ Ev("block", t.next) \in Event /\ Ev("delta", t.next) \in Event
            /\ Ev("delta", t.text) \in Event
        BY <1>1, EvTyped DEF Translator
      <4>. QED
        BY <4>1 DEF Begun
    <3>3. w = x \o z
      BY <3>1
    <3>. HIDE DEF x, z, w
    <3>4. Len(w) = Len(x) + Len(z) /\ Len(x) \in Nat /\ Len(z) \in Nat
      BY <3>2, <3>3, Concatenated, LenProperties
    <3>. QED
      BY <1>5, <3>2, <3>4, EmptySeq
  <2>2. CASE protocol = "gemini" /\ c = "text"
    BY <2>2, GeminiWrites
  <2>. QED
    BY <2>1, <2>2
<1>8. u.content => p # <<>> \/ u.tools # <<>>
  BY <1>1, <1>2, <1>3, <1>4, <1>6, <1>7
<1>9. p # <<>> <=> u.started
  BY <1>1, <1>2, <1>6
<1>10. protocol = "claude" => BlocksOK(u) /\ Message(p, u.next, Open(u))
  <2>1. ASSUME protocol = "claude" PROVE BlocksOK(u) /\ Going(p, u.next, Open(u))
    BY <2>1, ClaudeConsumes, Zenon
  <2>. HIDE DEF u, p
  <2>. QED
    BY <2>1 DEF Going
<1>11. protocol = "gemini" => u.text = 0 /\ u.next = 1 /\ \A i \in 1 .. Len(u.tools) : u.tools[i].index = 1
  BY GeminiConsumes, Zenon
<1>. HIDE DEF u, w, p
<1>12. WrittenBy(u, p) /\ ~u.finished
  <2>1. \A i, j \in 1 .. Len(u.tools) : u.tools[i].name = u.tools[j].name => i = j
    BY <1>2 DEF Named
  <2>2. \A k \in Pos(p) : p[k].index < u.next + (IF u.tools = <<>> THEN 0 ELSE 1)
    BY <1>5 DEF Extra
  <2>. QED
    BY <1>2, <1>5, <1>8, <1>9, <1>10, <1>11, <2>1, <2>2 DEF WrittenBy
<1>. QED
  BY <1>1, <1>2, <1>5, <1>12 DEF u, w, p

(* The end of a message, and of a stream.                                  *)
LEMMA Ended ==
    ASSUME NEW o \in Seq(Event), o # <<>>, NEW b \in Nat \ {0},
           \A k \in Pos(o) : o[k].kind # "end" /\ o[k].index < b
    PROVE  LET p == o \o <<Ev("end", 0)>> IN
           /\ p \in Seq(Event) /\ p # <<>> /\ Len(p) > 1 /\ p[Len(p)].kind = "end"
           /\ \A k \in Pos(p) : p[k].index < b /\ (p[k].kind = "end" => k = Len(p))
<1>. DEFINE e == Ev("end", 0)
            p == o \o <<e>>
<1>1. e \in Event /\ e.kind = "end" /\ e.index = 0
  BY EvTyped
<1>. HIDE DEF e
<1>2. /\ p \in Seq(Event) /\ p # <<>> /\ Len(o) \in Nat \ {0} /\ Len(p) = Len(o) + 1
      /\ \A k \in Pos(o) : p[k] = o[k]
      /\ p[Len(o) + 1] = e
      /\ \A k \in Pos(p) : k \in Pos(o) \/ k = Len(o) + 1
  BY <1>1, OneMore DEF Pos
<1>. HIDE DEF p
<1>3. \A k \in Pos(p) : p[k].index < b /\ (p[k].kind = "end" => k = Len(p))
  BY <1>1, <1>2
<1>4. Len(p) > 1 /\ p[Len(p)].kind = "end"
  BY <1>1, <1>2
<1>. QED
  BY <1>2, <1>3, <1>4, Zenon DEF p, e

(* The end makes a message whose blocks are closed whole.                  *)
LEMMA MessageEnds ==
    ASSUME NEW o, NEW n, Going(o, n, {}), o # <<>>
    PROVE  Message(o \o <<Ev("end", 0)>>, n, {})
<1>. DEFINE e == Ev("end", 0)
            p == o \o <<e>>
            last == Len(o) + 1
<1>1. n \in Nat \ {0} /\ o \in Seq(Event)
  BY DEF Going, Message
<1>2. e \in Event /\ e.kind = "end" /\ e.index = 0
  BY EvTyped
<1>. HIDE DEF e
<1>3. /\ p \in Seq(Event) /\ p # <<>> /\ Len(o) \in Nat /\ (o = <<>> <=> Len(o) = 0)
      /\ \A k \in Pos(o) : p[k] = o[k] /\ k \in Pos(p) /\ k < last /\ o[k] \in Event /\ k \in Nat
      /\ p[last] = e /\ last \in Pos(p) /\ last \in Nat
      /\ \A k \in Pos(p) : k \in Pos(o) \/ k = last
  BY <1>1, <1>2, OneMore DEF Pos
<1>. HIDE DEF p, last
<1>4. 1 \in Pos(o)
  BY <1>3 DEF Pos
<1>5. \A k \in Pos(p) : p[k].index < n
  <2>1. \A k \in Pos(o) : o[k].index < n
    BY DEF Going, Message
  <2>2. e.index < n
    BY <1>1, <1>2
  <2>. QED
    BY <1>3, <2>1, <2>2
<1>6. p[1] = Ev("start", 0) /\ \A k \in Pos(p) : p[k].kind = "start" => k = 1
  BY <1>2, <1>3, <1>4 DEF Going, Message
<1>7. \A k \in Pos(p) : p[k].kind \in BlockKinds => k \in Pos(o) /\ p[k] = o[k]
  BY <1>2, <1>3 DEF BlockKinds
<1>8. \A k \in Pos(p) : p[k].kind \in BlockKinds => p[k].index \in 1 .. n - 1
  BY <1>7 DEF Going, Message
<1>9. \A i \in 1 .. n - 1 : \E k \in Pos(p) : p[k] = Ev("block", i)
  BY <1>3 DEF Going, Message
<1>10. \A i \in (1 .. n - 1) \ {} : \E k \in Pos(p) : p[k] = Ev("stop", i)
  BY <1>3 DEF Going, Message
<1>11. \A j, k \in Pos(p) :
         j < k /\ p[j].index = p[k].index /\ p[j].kind \in BlockKinds /\ p[k].kind \in BlockKinds
         => p[j].kind # "stop" /\ p[k].kind # "block"
  BY <1>7 DEF Going, Message
<1>. QED
  BY <1>1, <1>3, <1>5, <1>6, <1>8, <1>9, <1>10, <1>11 DEF Message, p, e

LastOnes(t) == [i \in 1 .. Len(t.tools) |->
              Ev(IF protocol = "claude" THEN "stop" ELSE "block", t.tools[i].index)]

(* What a stream ends with, unless it was ended or stays silent.           *)
LEMMA FinishIs ==
    ASSUME NEW t
    PROVE  FinishWrites(t) = IF t.finished \/ Silent(t) THEN <<>>
                             ELSE Begun(t) \o Closing(t) \o LastOnes(t) \o <<Ev("end", 0)>>
BY DEF FinishWrites, LastOnes

(* What the end makes of a translator.                                     *)
LEMMA FinishedIs ==
    ASSUME NEW t \in Translator
    PROVE  LET u == FinishState(t) IN
           /\ u \in Translator /\ u.finished /\ u.content = t.content /\ u.text = t.text /\ u.next = t.next
           /\ u.tools = t.tools /\ (u.started <=> t.started \/ FinishWrites(t) # <<>>)
<1>1. FinishState(t) = [t EXCEPT !.finished = TRUE, !.started = t.started \/ FinishWrites(t) # <<>>]
  BY DEF FinishState, Translator
<1>2. (t.started \/ FinishWrites(t) # <<>>) \in BOOLEAN
  OBVIOUS
<1>. QED
  BY <1>1, <1>2 DEF Translator

(* The end of a Claude stream: every block that is open is closed, once.   *)
LEMMA ClaudeFinishes ==
    ASSUME protocol = "claude", NEW t, NEW o, WrittenBy(t, o), ~t.finished, ~Silent(t)
    PROVE  LET w == FinishWrites(t)
               p == o \o w
           IN  /\ w \in Seq(Event) /\ w # <<>> /\ Message(p, t.next, {}) /\ Len(p) > 1 /\ p # <<>>
               /\ p[Len(p)].kind = "end" /\ \A k \in Pos(p) : p[k].kind = "end" => k = Len(p)
<1>. DEFINE x == Begun(t)
            y == Closing(t)
            z == LastOnes(t)
            q == o \o x
            r == q \o y
            v == r \o z
            e == <<Ev("end", 0)>>
            n == t.next
<1>1. /\ BlocksOK(t) /\ Going(o, n, Open(t)) /\ o \in Seq(Event)
      /\ (o # <<>> <=> t.started) /\ t \in Translator /\ n \in Nat \ {0}
  BY DEF WrittenBy, Going, Translator
<1>2. x \in Seq(Event) /\ Going(q, n, Open(t)) /\ q # <<>>
  BY <1>1, BegunGoes, Zenon
<1>3. FinishWrites(t) = x \o y \o z \o e
  BY FinishIs
<1>. HIDE DEF x, q
<1>4. y \in Seq(Event) /\ Going(r, n, ToolIndexes(t)) /\ r # <<>>
  BY <1>1, <1>2, ClosingGoes, Zenon
<1>. HIDE DEF y, r
<1>5. z \in Seq(Event) /\ Going(v, n, {}) /\ v # <<>>
  <2>. DEFINE m == Len(t.tools)
              f == [i \in 1 .. m |-> t.tools[i].index]
  <2>1. m \in Nat
    BY <1>1, LenProperties DEF Translator
  <2>2. f \in [1 .. m -> ToolIndexes(t)]
    BY DEF ToolIndexes
  <2>3. \A i, j \in 1 .. m : f[i] = f[j] => i = j
    BY <1>1 DEF BlocksOK
  <2>4. \A i \in ToolIndexes(t) : \E k \in 1 .. m : f[k] = i
    BY DEF ToolIndexes
  <2>5. Stops(z, m, f)
    BY DEF LastOnes, Stops
  <2>. HIDE DEF z, f, m, n
  <2>. QED
    BY <1>4, <2>1, <2>2, <2>3, <2>4, <2>5, MessageCloses
<1>6. q \in Seq(Event) /\ r \in Seq(Event) /\ v \in Seq(Event)
      /\ \A k \in Pos(v) : v[k].kind # "end" /\ v[k].index < n
  <2>1. Going(q, n, Open(t)) /\ Going(r, n, ToolIndexes(t)) /\ Going(v, n, {})
    BY <1>2, <1>4, <1>5
  <2>. HIDE DEF z, v
  <2>. QED
    BY <2>1 DEF Going, Message
<1>7. Ev("end", 0) \in Event /\ e \in Seq(Event) /\ Len(e) = 1
  BY EvTyped
<1>. HIDE DEF z, e
<1>8. o \o FinishWrites(t) = v \o e /\ FinishWrites(t) \in Seq(Event)
  <2>1. o \o (x \o y \o z \o e) = (((o \o x) \o y) \o z) \o e /\ x \o y \o z \o e \in Seq(Event)
    BY <1>1, <1>2, <1>4, <1>5, <1>7, JoinedAll, Zenon
  <2>. QED
    BY <1>3, <2>1 DEF q, r
<1>9. FinishWrites(t) # <<>>
  <2>1. x \o y \o z \in Seq(Event)
    BY <1>2, <1>4, <1>5, Concatenated
  <2>2. Len(FinishWrites(t)) = Len(x \o y \o z) + Len(e) /\ Len(x \o y \o z) \in Nat
    BY <1>3, <1>7, <2>1, Concatenated, LenProperties
  <2>. QED
    BY <1>7, <1>8, <2>2, EmptySeq
<1>. HIDE DEF v
<1>10. Message(v \o e, n, {})
  BY <1>5, MessageEnds DEF e
<1>. HIDE DEF n
<1>11. /\ v \o e # <<>> /\ Len(v \o e) > 1 /\ (v \o e)[Len(v \o e)].kind = "end"
       /\ \A k \in Pos(v \o e) : (v \o e)[k].kind = "end" => k = Len(v \o e)
  BY <1>1, <1>5, <1>6, Ended DEF e, n
<1>. QED
  BY <1>8, <1>9, <1>10, <1>11 DEF n

(* The end of a Gemini stream: the tools are written, and the end.         *)
LEMMA GeminiFinishes ==
    ASSUME protocol = "gemini", NEW t, NEW o, WrittenBy(t, o), ~t.finished, ~Silent(t)
    PROVE  LET w == FinishWrites(t)
               p == o \o w
           IN  /\ w \in Seq(Event) /\ w # <<>> /\ p \in Seq(Event) /\ Len(p) > 1 /\ p # <<>>
               /\ p[Len(p)].kind = "end"
               /\ \A k \in Pos(p) : p[k].index < 1 + Extra(t) /\ (p[k].kind = "end" => k = Len(p))
<1>. DEFINE z == LastOnes(t)
            v == o \o z
            e == <<Ev("end", 0)>>
            b == 1 + Extra(t)
            m == Len(t.tools)
<1>1. /\ o \in Seq(Event) /\ t \in Translator /\ t.text = 0 /\ (o # <<>> <=> t.started)
      /\ (t.content => o # <<>> \/ t.tools # <<>>)
      /\ \A i \in 1 .. m : t.tools[i].index = 1
      /\ \A k \in Pos(o) : o[k].index < b /\ o[k].kind # "end"
  BY DEF WrittenBy, Extra
<1>2. m \in Nat /\ (t.tools # <<>> => m > 0) /\ (t.tools = <<>> => m = 0)
  <2>1. t.tools \in Seq([name: {"tool", "other"}, index: Nat])
    BY <1>1 DEF Translator
  <2>. QED
    BY <2>1, LenProperties, EmptySeq
<1>3. o # <<>> \/ m > 0
  BY <1>1, <1>2 DEF Silent
<1>4. FinishWrites(t) = z \o e
  <2>1. FinishWrites(t) = Begun(t) \o Closing(t) \o LastOnes(t) \o <<Ev("end", 0)>>
    BY FinishIs
  <2>2. Begun(t) = <<>> /\ Closing(t) = <<>>
    BY <1>1 DEF Begun, Closing
  <2>3. <<>> \o <<>> \o z = z
    BY <1>1, ConcatEmptySeq DEF LastOnes
  <2>. HIDE DEF z
  <2>. QED
    BY <2>1, <2>2, <2>3 DEF z
<1>5. z \in Seq(Event) /\ Len(z) = m /\ \A i \in 1 .. m : z[i] = Ev("block", 1)
  <2>1. z = [i \in 1 .. m |-> Ev("block", 1)]
    BY <1>1 DEF LastOnes
  <2>2. Ev("block", 1) \in Event
    BY EvTyped
  <2>. HIDE DEF z, m
  <2>. QED
    BY <1>2, <2>1, <2>2
<1>6. b \in Nat \ {0} /\ (m > 0 => b = 2)
  BY <1>2 DEF Extra
<1>. HIDE DEF z, b
<1>7. /\ v \in Seq(Event) /\ Len(v) = Len(o) + m /\ Len(o) \in Nat /\ (o # <<>> => Len(o) > 0)
      /\ \A i \in 1 .. Len(o) + m : v[i] = IF i <= Len(o) THEN o[i] ELSE z[i - Len(o)]
  <2>1. /\ v \in Seq(Event) /\ Len(v) = Len(o) + Len(z)
        /\ \A i \in 1 .. Len(o) + Len(z) : v[i] = IF i <= Len(o) THEN o[i] ELSE z[i - Len(o)]
    BY <1>1, <1>5, Concatenated
  <2>2. Len(o) \in Nat /\ (o # <<>> => Len(o) > 0)
    BY <1>1, LenProperties, EmptySeq
  <2>. HIDE DEF v, m
  <2>. QED
    BY <1>5, <2>1, <2>2
<1>. HIDE DEF v, m
<1>8. v # <<>>
  BY <1>2, <1>3, <1>7
<1>9. \A k \in Pos(v) : v[k].kind # "end" /\ v[k].index < b
  <2>1. Ev("block", 1).kind # "end" /\ Ev("block", 1).index = 1
    BY DEF Ev
  <2>2. ASSUME NEW k \in Pos(v) PROVE v[k].kind # "end" /\ v[k].index < b
    <3>1. CASE k \in Pos(o)
      BY <1>1, <1>2, <1>7, <3>1 DEF Pos
    <3>2. CASE k \notin Pos(o)
      <4>1. k - Len(o) \in 1 .. m /\ v[k] = z[k - Len(o)]
        BY <1>2, <1>7, <3>2 DEF Pos
      <4>2. v[k] = Ev("block", 1) /\ m > 0
        BY <1>2, <1>5, <4>1
      <4>. QED
        BY <1>6, <2>1, <4>2
    <3>. QED
      BY <3>1, <3>2
  <2>. QED
    BY <2>2
<1>10. e \in Seq(Event) /\ e # <<>>
  <2>1. Ev("end", 0) \in Event
    BY EvTyped
  <2>. QED
    BY <2>1
<1>11. /\ v \o e \in Seq(Event) /\ v \o e # <<>> /\ Len(v \o e) > 1 /\ (v \o e)[Len(v \o e)].kind = "end"
       /\ \A k \in Pos(v \o e) : (v \o e)[k].index < b /\ ((v \o e)[k].kind = "end" => k = Len(v \o e))
  BY <1>6, <1>7, <1>8, <1>9, Ended
<1>12. Len(e) = 1
  OBVIOUS
<1>. HIDE DEF e
<1>13. o \o (z \o e) = v \o e /\ z \o e \in Seq(Event)
  <2>1. o \o (z \o e) = (o \o z) \o e
    BY <1>1, <1>5, <1>10, Associates, Zenon
  <2>2. z \o e \in Seq(Event)
    BY <1>5, <1>10, Concatenated
  <2>. QED
    BY <2>1, <2>2 DEF v
<1>14. z \o e # <<>>
  <2>1. Len(z \o e) = Len(z) + Len(e) /\ Len(z) \in Nat
    BY <1>5, <1>10, Concatenated, LenProperties
  <2>. QED
    BY <1>12, <1>13, <2>1, EmptySeq
<1>. QED
  BY <1>4, <1>11, <1>13, <1>14 DEF b

(* The end, whatever the protocol; a second one writes nothing.            *)
LEMMA FinishKeeps ==
    ASSUME protocol \in {"claude", "gemini"}, NEW t, NEW o, WrittenBy(t, o)
    PROVE  LET u == FinishState(t) IN
           /\ WrittenBy(u, o \o FinishWrites(t)) /\ FinishWrites(t) \in Seq(Event)
           /\ u.finished /\ u.next = t.next /\ u.tools = t.tools
<1>. DEFINE u == FinishState(t)
            w == FinishWrites(t)
            p == o \o w
<1>1. /\ t \in Translator /\ o \in Seq(Event) /\ (o # <<>> <=> t.started)
      /\ (t.content => o # <<>> \/ t.tools # <<>>)
      /\ \A i, j \in 1 .. Len(t.tools) : t.tools[i].name = t.tools[j].name => i = j
      /\ \A k \in Pos(o) : o[k].index < t.next + (IF t.tools = <<>> THEN 0 ELSE 1)
      /\ \A k \in Pos(o) : o[k].kind = "end" => k = Len(o) /\ t.finished
      /\ t.finished => IF o = <<>> THEN ~t.content ELSE Len(o) > 1 /\ o[Len(o)].kind = "end"
      /\ protocol = "claude" =>
           BlocksOK(t) /\ Message(o, t.next, IF t.finished THEN {} ELSE Open(t))
      /\ protocol = "gemini" =>
           t.text = 0 /\ t.next = 1 /\ \A i \in 1 .. Len(t.tools) : t.tools[i].index = 1
  BY DEF WrittenBy
<1>2. /\ u \in Translator /\ u.finished /\ u.content = t.content /\ u.text = t.text /\ u.next = t.next
      /\ u.tools = t.tools /\ (u.started <=> t.started \/ w # <<>>)
  BY <1>1, FinishedIs
<1>3. BlocksOK(t) => BlocksOK(u)
  <2>. HIDE DEF u
  <2>. QED
    BY <1>1, <1>2, SameBlocks DEF Translator
<1>. HIDE DEF u
<1>4. CASE t.finished \/ Silent(t)
  <2>1. w = <<>>
    BY <1>4, FinishIs
  <2>2. p = o /\ w \in Seq(Event)
    BY <1>1, <2>1, ConcatEmptySeq
  <2>. HIDE DEF w, p
  <2>3. ~t.finished => o = <<>> /\ ~t.content
    BY <1>1, <1>4 DEF Silent
  <2>4. protocol = "claude" => Message(o, t.next, {})
    <3>1. CASE t.finished
      BY <1>1, <3>1
    <3>2. CASE ~t.finished
      <4>1. Pos(<<>>) = {}
        BY DEF Pos
      <4>. QED
        BY <1>1, <2>3, <3>2, <4>1 DEF Message
    <3>. QED
      BY <3>1, <3>2
  <2>5. \A k \in Pos(o) : o[k].kind = "end" => k = Len(o)
    BY <1>1
  <2>6. IF o = <<>> THEN ~t.content ELSE Len(o) > 1 /\ o[Len(o)].kind = "end"
    BY <1>1, <2>3
  <2>7. WrittenBy(u, o)
    BY <1>1, <1>2, <1>3, <2>1, <2>4, <2>5, <2>6 DEF WrittenBy
  <2>. QED
    BY <1>2, <2>2, <2>7 DEF u, w, p
<1>5. CASE ~t.finished /\ ~Silent(t)
  <2>1. /\ w \in Seq(Event) /\ w # <<>> /\ p \in Seq(Event) /\ Len(p) > 1 /\ p # <<>>
        /\ p[Len(p)].kind = "end"
        /\ \A k \in Pos(p) : p[k].index < t.next + Extra(t) /\ (p[k].kind = "end" => k = Len(p))
        /\ protocol = "claude" => Message(p, t.next, {})
    <3>1. CASE protocol = "claude"
      <4>1. /\ w \in Seq(Event) /\ w # <<>> /\ Message(p, t.next, {}) /\ Len(p) > 1 /\ p # <<>>
            /\ p[Len(p)].kind = "end" /\ \A k \in Pos(p) : p[k].kind = "end" => k = Len(p)
        BY <1>5, <3>1, ClaudeFinishes
      <4>. HIDE DEF w, p
      <4>2. p \in Seq(Event) /\ t.next \in Nat /\ \A k \in Pos(p) : p[k].index < t.next
        BY <4>1 DEF Message
      <4>3. \A k \in Pos(p) : p[k].index \in Nat
        BY <4>2, SeqTyped
      <4>4. Extra(t) \in Nat
        BY DEF Extra
      <4>5. \A k \in Pos(p) : p[k].index < t.next + Extra(t)
        BY <4>2, <4>3, <4>4
      <4>. QED
        BY <4>1, <4>2, <4>5
    <3>2. CASE protocol = "gemini"
      <4>1. /\ w \in Seq(Event) /\ w # <<>> /\ p \in Seq(Event) /\ Len(p) > 1 /\ p # <<>>
            /\ p[Len(p)].kind = "end"
            /\ \A k \in Pos(p) : p[k].index < 1 + Extra(t) /\ (p[k].kind = "end" => k = Len(p))
        BY <1>5, <3>2, GeminiFinishes
      <4>. HIDE DEF w, p
      <4>. QED
        BY <1>1, <3>2, <4>1
    <3>. QED
      BY <3>1, <3>2
  <2>. HIDE DEF w, p
  <2>2. WrittenBy(u, p)
    BY <1>1, <1>2, <1>3, <2>1 DEF WrittenBy, Extra
  <2>. QED
    BY <1>2, <2>1, <2>2 DEF u, w, p
<1>. QED
  BY <1>4, <1>5

(* What fits a translator and a stream fits them when they are the next    *)
(* ones.                                                                   *)
LEMMA Carried ==
    ASSUME protocol' = protocol, NEW t, NEW o, WrittenBy(t, o), tr' = t, out' = o
    PROVE  WrittenBy(tr, out)'
BY DEF WrittenBy

(* A new translator has written nothing.                                   *)
LEMMA FreshWritten ==
    ASSUME protocol \in Protocols
    PROVE  /\ protocol \in {"claude", "gemini"} /\ WrittenBy(NewTranslator, <<>>)
           /\ NewTranslator.next = 1 /\ NewTranslator.tools = <<>> /\ ~NewTranslator.finished
<1>1. protocol \in {"claude", "gemini"}
  BY RelayAssumption DEF RelayAssumption
<1>. DEFINE t == NewTranslator
<1>2. /\ ~t.started /\ ~t.content /\ ~t.finished /\ t.text = 0 /\ t.next = 1 /\ t.tools = <<>> /\ t \in Translator
  BY DEF NewTranslator, Translator
<1>. HIDE DEF t
<1>3. Len(<<>>) = 0 /\ Pos(<<>>) = {} /\ ToolIndexes(t) = {}
  BY <1>2 DEF Pos, ToolIndexes
<1>4. BlocksOK(t) /\ Message(<<>>, 1, Open(t))
  <2>1. Open(t) = {}
    BY <1>2, <1>3 DEF Open
  <2>. QED
    BY <1>2, <1>3, <2>1 DEF BlocksOK, Message
<1>5. WrittenBy(t, <<>>)
  BY <1>2, <1>3, <1>4 DEF WrittenBy
<1>. QED
  BY <1>1, <1>2, <1>5 DEF t

(* What is read and is not a chunk is no chunk.                            *)
LEMMA ChunkNames ==
    /\ Chunks \subseteq {"text", "tool", "bare", "other", "role", "bad"}
    /\ \A x \in {"none", "done", "blank", "eof", "error"} : x \notin Chunks /\ One(x) = 0
    /\ \A c \in Chunks : One(c) = 1
    /\ \A x : One(x) \in {0, 1}
BY RelayAssumption DEF RelayAssumption, One

(* flushData: the chunk that was pending is translated, or the end is      *)
(* written.                                                                *)
LEMMA FlushKeeps ==
    ASSUME protocol \in Protocols, pending \in Chunks \cup {"none", "done"}, WrittenBy(tr, out),
           tr.finished => pending = "none"
    PROVE  /\ FlushWrites \in Seq(Event) /\ WrittenBy(FlushState, out \o FlushWrites)
           /\ FlushState.next <= tr.next + One(pending) /\ FlushState.next \in Nat /\ tr.next \in Nat \ {0}
           /\ FlushState.tools # <<>> => tr.tools # <<>> \/ One(pending) = 1
           /\ FlushState.finished => tr.finished \/ pending = "done"
<1>1. protocol \in {"claude", "gemini"} /\ tr \in Translator /\ tr.next \in Nat \ {0} /\ out \in Seq(Event)
  BY FreshWritten DEF WrittenBy, Translator
<1>2. CASE pending = "done"
  <2>1. FlushWrites = FinishWrites(tr) /\ FlushState = FinishState(tr)
    BY <1>2 DEF FlushWrites, FlushState
  <2>2. /\ WrittenBy(FinishState(tr), out \o FinishWrites(tr)) /\ FinishWrites(tr) \in Seq(Event)
        /\ FinishState(tr).next = tr.next /\ FinishState(tr).tools = tr.tools
    BY <1>1, FinishKeeps
  <2>3. One(pending) = 0
    BY <1>2, ChunkNames
  <2>. QED
    BY <1>1, <1>2, <2>1, <2>2, <2>3
<1>3. CASE pending \in {"none", "bad"}
  <2>1. FlushWrites = <<>> /\ FlushState = tr
    BY <1>3 DEF FlushWrites, FlushState
  <2>2. out \o FlushWrites = out /\ FlushWrites \in Seq(Event)
    BY <1>1, <2>1, ConcatEmptySeq
  <2>3. One(pending) \in {0, 1}
    BY ChunkNames
  <2>. QED
    BY <1>1, <2>1, <2>2, <2>3
<1>4. CASE pending \notin {"none", "bad", "done"}
  <2>1. pending \in {"text", "tool", "bare", "other", "role"} /\ One(pending) = 1 /\ ~tr.finished
    BY <1>4, ChunkNames
  <2>2. FlushWrites = ConsumeWrites(tr, pending) /\ FlushState = ConsumeState(tr, pending)
    BY <1>4 DEF FlushWrites, FlushState
  <2>3. /\ WrittenBy(ConsumeState(tr, pending), out \o ConsumeWrites(tr, pending))
        /\ ~ConsumeState(tr, pending).finished /\ ConsumeWrites(tr, pending) \in Seq(Event)
        /\ ConsumeState(tr, pending).next <= tr.next + 1 /\ ConsumeState(tr, pending).next \in Nat
    BY <1>1, <2>1, ConsumeKeeps
  <2>. QED
    BY <1>1, <2>1, <2>2, <2>3
<1>. QED
  BY <1>2, <1>3, <1>4

(* What the end of a stream writes.                                        *)
LEMMA EndKeeps ==
    ASSUME protocol \in Protocols, pending \in Chunks \cup {"none", "done"}, WrittenBy(tr, out),
           tr.finished => pending = "none"
    PROVE  LET u == FinishState(FlushState)
               w == FlushWrites \o FinishWrites(FlushState)
           IN  /\ w \in Seq(Event) /\ WrittenBy(u, out \o w)
               /\ u.next <= tr.next + One(pending) /\ tr.next \in Nat \ {0} /\ u.next \in Nat
               /\ u.tools # <<>> => tr.tools # <<>> \/ One(pending) = 1
               /\ u.finished
<1>1. /\ FlushWrites \in Seq(Event) /\ WrittenBy(FlushState, out \o FlushWrites)
      /\ FlushState.next <= tr.next + One(pending) /\ FlushState.next \in Nat /\ tr.next \in Nat \ {0}
      /\ FlushState.tools # <<>> => tr.tools # <<>> \/ One(pending) = 1
  BY FlushKeeps
<1>2. protocol \in {"claude", "gemini"} /\ out \in Seq(Event)
  BY FreshWritten DEF WrittenBy
<1>. DEFINE u == FinishState(FlushState)
            x == FlushWrites
            y == FinishWrites(FlushState)
            w == x \o y
<1>3. WrittenBy(u, (out \o x) \o y) /\ y \in Seq(Event) /\ u.finished /\ u.next = FlushState.next
      /\ u.tools = FlushState.tools
  BY <1>1, <1>2, FinishKeeps
<1>. HIDE DEF u, x, y
<1>4. x \in Seq(Event)
  BY <1>1 DEF x
<1>5. (out \o x) \o y = out \o w
  BY <1>2, <1>3, <1>4, Associates, Zenon
<1>6. w \in Seq(Event)
  BY <1>3, <1>4, Concatenated
<1>. HIDE DEF w
<1>. QED
  BY <1>1, <1>3, <1>5, <1>6 DEF u, x, y, w

(* The steps of the relay.                                                 *)
Lines == Chunks \cup {"none", "done", "blank", "eof", "error"}

(* The invariant holds before the first attempt.                           *)
THEOREM RelayStarts == RelayInit => RelayInv
<1>. SUFFICES ASSUME RelayInit PROVE RelayInv
  OBVIOUS
<1>1. RelayTypes
  <2>1. attempt \in 0 .. MaxAttempts /\ arrived \in 0 .. MaxChunks
    BY RelayAssumption DEF RelayInit, RelayAssumption
  <2>2. /\ reader \in [Attempts -> {"none", "reading", "exited"}]
        /\ line \in [Attempts -> Chunks \cup {"none", "done", "blank", "eof", "error"}]
    BY DEF RelayInit
  <2>. QED
    BY <2>1, <2>2 DEF RelayInit, RelayTypes
<1>2. WrittenBy(tr, out)
  BY FreshWritten DEF RelayInit
<1>3. HeadOK
  BY DEF RelayInit, HeadOK
<1>4. ChunksOK
  BY ChunkNames, FreshWritten DEF RelayInit, ChunksOK
<1>5. ResultOK
  BY DEF RelayInit, ResultOK
<1>. QED
  BY <1>1, <1>2, <1>3, <1>4, <1>5 DEF RelayInv

(* A step that writes nothing and leaves the translator as it is.          *)
LEMMA Unwritten ==
    ASSUME RelayInv, UNCHANGED <<protocol, tr, out>>
    PROVE  WrittenBy(tr, out)'
BY DEF RelayInv, WrittenBy

(* The counters are numbers.                                               *)
LEMMA LineKinds ==
    ASSUME RelayTypes
    PROVE  /\ MaxAttempts \in Nat \ {0} /\ MaxChunks \in Nat /\ arrived \in Nat
           /\ attempt \in Nat /\ protocol \in {"claude", "gemini"}
BY RelayAssumption DEF RelayAssumption, RelayTypes

(* A client may leave at any time.                                         *)
LEMMA LeaveKeeps == ASSUME RelayInv, Leave PROVE RelayInv'
<1>1. WrittenBy(tr, out)'
  BY Unwritten DEF Leave
<1>2. RelayTypes' /\ HeadOK' /\ ChunksOK' /\ ResultOK'
  BY DEF RelayInv, Leave, RelayTypes, HeadOK, ChunksOK, ResultOK, loopVars, readVars
<1>. QED
  BY <1>1, <1>2 DEF RelayInv

(* An answer to a client that left is no message.                          *)
LEMMA CancelledKeeps == ASSUME RelayInv, AnswerCancelled PROVE RelayInv'
<1>1. WrittenBy(tr, out)'
  BY Unwritten DEF AnswerCancelled
<1>2. RelayTypes' /\ ChunksOK' /\ ResultOK' /\ HeadOK'
  BY DEF RelayInv, AnswerCancelled, Heads, RelayTypes, HeadOK, ChunksOK, ResultOK, loopVars, readVars
<1>. QED
  BY <1>1, <1>2 DEF RelayInv

(* Between two attempts nothing was written.                               *)
LEMMA AcquireKeeps == ASSUME RelayInv, Acquire PROVE RelayInv'
<1>1. WrittenBy(tr, out)'
  BY Unwritten DEF Acquire
<1>2. RelayTypes'
  <2>1. attempt' \in 0 .. MaxAttempts /\ (pc' = "open" => attempt' \in Attempts)
    <3>1. attempt \in 0 .. MaxAttempts /\ attempt < MaxAttempts /\ attempt' \in {attempt, attempt + 1}
          /\ (pc' = "open" => attempt' = attempt + 1)
      BY DEF RelayInv, Acquire, RelayTypes, loopVars
    <3>. QED
      BY <3>1, LineKinds DEF RelayInv, Attempts
  <2>2. pc' \in {"open", "end", "loop"} /\ leased' \in BOOLEAN
    BY DEF RelayInv, Acquire, RelayTypes, loopVars
  <2>. QED
    BY <2>1, <2>2 DEF RelayInv, Acquire, RelayTypes, readVars
<1>3. ChunksOK'
  BY DEF RelayInv, Acquire, ChunksOK, readVars
<1>4. HeadOK' /\ ResultOK'
  BY DEF RelayInv, Acquire, HeadOK, Heads, ResultOK
<1>. QED
  BY <1>1, <1>2, <1>3, <1>4 DEF RelayInv

(* An attempt starts with a new translator and an empty stream, whatever a *)
(* stale read left.                                                        *)
LEMMA OpenKeeps == ASSUME RelayInv, OpenUpstream PROVE RelayInv'
<1>1. out = <<>> /\ protocol \in Protocols
  BY DEF RelayInv, OpenUpstream, ResultOK, RelayTypes
<1>2. WrittenBy(tr, out)'
  <2>1. CASE tr' = NewTranslator
    BY <1>1, <2>1, FreshWritten, Carried DEF OpenUpstream
  <2>2. CASE UNCHANGED tr
    BY <2>2, Unwritten DEF OpenUpstream
  <2>. QED
    BY <2>1, <2>2 DEF OpenUpstream
<1>3. RelayTypes'
  BY DEF RelayInv, OpenUpstream, RelayTypes
<1>4. ChunksOK'
  <2>1. arrived \in Nat /\ attempt \in Attempts
    BY LineKinds DEF RelayInv, OpenUpstream, RelayTypes
  <2>2. CASE tr' = NewTranslator /\ pending' = "none" /\ UNCHANGED <<line, arrived, attempt>>
    <3>1. tr'.next = 1 /\ tr'.tools = <<>> /\ ~tr'.finished /\ One(pending') = 0
      BY <1>1, <2>2, FreshWritten, ChunkNames
    <3>2. One(line[attempt]) = 0 \/ (One(line[attempt]) = 1 /\ arrived >= 1)
      BY <2>1, ChunkNames DEF RelayInv, ChunksOK, One
    <3>3. 1 + 0 + One(line[attempt]) <= arrived + 1
      BY <2>1, <3>2
    <3>. QED
      BY <1>1, <2>1, <2>2, <3>1, <3>3 DEF RelayInv, ChunksOK
  <2>3. CASE pc' = "loop" /\ UNCHANGED <<tr, pending, ended, line, arrived, attempt>>
    BY <2>3 DEF RelayInv, ChunksOK
  <2>. QED
    BY <2>2, <2>3 DEF OpenUpstream
<1>5. HeadOK' /\ ResultOK'
  BY <1>1, FreshWritten DEF RelayInv, OpenUpstream, HeadOK, ResultOK
<1>. QED
  BY <1>2, <1>3, <1>4, <1>5 DEF RelayInv

(* The empty answer after the last attempt is a silent end.                *)
LEMMA ExhaustedKeeps == ASSUME RelayInv, Exhausted PROVE RelayInv'
<1>1. out = <<>> /\ protocol \in Protocols
  BY DEF RelayInv, Exhausted, ResultOK, RelayTypes
<1>. DEFINE u == FinishState(NewTranslator)
            w == FinishWrites(NewTranslator)
<1>2. WrittenBy(u, <<>>) /\ u.next = 1 /\ u.tools = <<>>
  <2>1. Silent(NewTranslator)
    BY DEF Silent, NewTranslator
  <2>2. w = <<>>
    BY <2>1, FinishIs
  <2>3. WrittenBy(u, <<>> \o w) /\ u.next = NewTranslator.next /\ u.tools = NewTranslator.tools
    BY <1>1, FreshWritten, FinishKeeps
  <2>4. <<>> \o <<>> = <<>>
    OBVIOUS
  <2>. HIDE DEF u, w
  <2>. QED
    BY <1>1, <2>2, <2>3, <2>4, FreshWritten
<1>. HIDE DEF u
<1>3. tr' = u \/ UNCHANGED tr
  BY DEF Exhausted, u
<1>4. WrittenBy(tr, out)'
  <2>1. CASE tr' = u
    BY <1>1, <1>2, <2>1, Carried DEF Exhausted
  <2>2. CASE UNCHANGED tr
    BY <2>2, Unwritten DEF Exhausted
  <2>. QED
    BY <1>3, <2>1, <2>2
<1>5. RelayTypes'
  BY DEF RelayInv, Exhausted, RelayTypes, loopVars, readVars
<1>6. ChunksOK'
  <2>1. arrived \in Nat
    BY LineKinds DEF RelayInv
  <2>. QED
    BY <1>2, <1>3, <2>1 DEF RelayInv, Exhausted, ChunksOK, readVars
<1>7. HeadOK' /\ ResultOK'
  BY <1>1 DEF RelayInv, Exhausted, HeadOK, Heads, ResultOK
<1>. QED
  BY <1>4, <1>5, <1>6, <1>7 DEF RelayInv

(* A read is started.                                                      *)
LEMMA LaunchKeeps == ASSUME RelayInv, Launch PROVE RelayInv'
<1>1. WrittenBy(tr, out)'
  BY Unwritten DEF Launch, Relaying
<1>2. RelayTypes' /\ ChunksOK' /\ ResultOK' /\ HeadOK'
  BY DEF RelayInv, Launch, Relaying, RelayTypes, HeadOK, ChunksOK, ResultOK, loopVars
<1>. QED
  BY <1>1, <1>2 DEF RelayInv

(* A line is received.                                                     *)
LEMMA ReceiveKeeps == ASSUME RelayInv, Receive PROVE RelayInv'
<1>1. WrittenBy(tr, out)'
  BY Unwritten DEF Receive, Relaying
<1>2. RelayTypes' /\ ChunksOK' /\ ResultOK' /\ HeadOK'
  BY DEF RelayInv, Receive, Relaying, RelayTypes, HeadOK, ChunksOK, ResultOK, loopVars, readVars
<1>. QED
  BY <1>1, <1>2 DEF RelayInv

(* A keep-alive announces a stream before its first event.                 *)
LEMMA KeepAliveKeeps == ASSUME RelayInv, KeepAlive PROVE RelayInv'
<1>1. WrittenBy(tr, out)'
  BY Unwritten DEF KeepAlive, Relaying
<1>2. RelayTypes' /\ ChunksOK' /\ ResultOK' /\ HeadOK'
  BY DEF RelayInv, KeepAlive, Relaying, RelayTypes, HeadOK, ChunksOK, ResultOK, loopVars, readVars
<1>. QED
  BY <1>1, <1>2 DEF RelayInv

(* A line that a reader offers, or that the handler takes.                 *)
LEMMA LinesTyped ==
    ASSUME RelayTypes, NEW a \in Attempts, NEW l \in Lines, line' = [line EXCEPT ![a] = l]
    PROVE  /\ line' \in [Attempts -> Lines] /\ line'[a] = l
           /\ \A b \in Attempts : line'[b] = IF b = a THEN l ELSE line[b]
BY DEF RelayTypes, Lines

(* What a reader hands over.                                               *)
LEMMA OfferTyped ==
    ASSUME RelayTypes, NEW a \in Attempts, NEW l, Offer(a, l)
    PROVE  /\ reader' \in [Attempts -> {"none", "reading", "exited"}]
           /\ line' = [line EXCEPT ![a] = l]
BY DEF RelayTypes, Offer

(* A reader touches neither the translator nor the answer.                 *)
LEMMA UpstreamKeeps ==
    ASSUME RelayInv, Upstream,
           reader' \in [Attempts -> {"none", "reading", "exited"}], line' \in [Attempts -> Lines],
           arrived' \in 0 .. MaxChunks
    PROVE  WrittenBy(tr, out)' /\ RelayTypes' /\ HeadOK' /\ ResultOK'
<1>1. WrittenBy(tr, out)'
  BY Unwritten DEF Upstream
<1>2. RelayTypes' /\ HeadOK' /\ ResultOK'
  BY DEF RelayInv, Upstream, RelayTypes, HeadOK, ResultOK, loopVars, Lines
<1>. QED
  BY <1>1, <1>2

(* A read brings a chunk that is due a block, or no chunk.                 *)
LEMMA ReadKeeps == ASSUME RelayInv, NEW a \in Attempts, Read(a) PROVE RelayInv'
<1>0. RelayTypes /\ arrived \in Nat /\ MaxChunks \in Nat /\ arrived \in 0 .. MaxChunks /\ tr.next \in Nat
  BY LineKinds DEF RelayInv, RelayTypes, WrittenBy, Translator
<1>1. CASE ReadChunk(a)
  <2>1. PICK c \in Chunks : Offer(a, c)
    BY <1>1 DEF ReadChunk
  <2>2. /\ a = attempt /\ ~ended /\ pending = "none" /\ arrived' = arrived + 1 /\ arrived < MaxChunks /\ Upstream
        /\ ended' = ended
    BY <1>1 DEF ReadChunk
  <2>3. /\ line' \in [Attempts -> Lines] /\ line'[a] = c
        /\ reader' \in [Attempts -> {"none", "reading", "exited"}]
    BY <1>0, <2>1, LinesTyped, OfferTyped DEF Lines
  <2>4. arrived' \in 0 .. MaxChunks
    BY <1>0, <2>2
  <2>5. ChunksOK'
    <3>1. One(pending) = 0 /\ One(c) = 1 /\ c \notin {"none", "done", "blank", "eof", "error"}
      BY <2>2, ChunkNames
    <3>2. tr' = tr /\ pending' = pending /\ attempt' = attempt /\ pc' = pc
      BY <2>2 DEF Upstream, loopVars
    <3>3. tr.next <= arrived + 1 /\ (pc \in {"launch", "wait", "handle"} => ~tr.finished)
      BY <2>2 DEF RelayInv, ChunksOK
    <3>. QED
      BY <1>0, <2>2, <2>3, <3>1, <3>2, <3>3 DEF ChunksOK
  <2>. QED
    BY <2>2, <2>3, <2>4, <2>5, UpstreamKeeps DEF RelayInv
<1>2. ASSUME NEW l \in {"blank", "done", "eof", "error"}, Offer(a, l), Upstream, arrived' = arrived,
             a = attempt => (ended' <=> ended \/ l \in {"eof", "error"} \/ (l = "blank" /\ pending = "done")),
             a # attempt => l = "error" /\ ended' = ended,
             l \in {"blank", "done"} => ~ended,
             l = "done" => pending = "none"
      PROVE  RelayInv'
  <2>1. /\ line' \in [Attempts -> Lines] /\ line'[a] = l
        /\ \A b \in Attempts : line'[b] = IF b = a THEN l ELSE line[b]
        /\ reader' \in [Attempts -> {"none", "reading", "exited"}]
    BY <1>0, <1>2, LinesTyped, OfferTyped DEF Lines
  <2>2. ChunksOK'
    <3>1. One(l) = 0 /\ l \notin Chunks
      BY ChunkNames
    <3>2. tr' = tr /\ pending' = pending /\ attempt' = attempt /\ pc' = pc
      BY <1>2 DEF Upstream, loopVars
    <3>3. \A b \in Attempts : line'[b] \in Chunks => arrived >= 1
      BY <2>1, <3>1 DEF RelayInv, ChunksOK
    <3>4. ASSUME pc \in {"launch", "wait", "handle"}
          PROVE  /\ tr.next + One(pending) + One(line'[attempt]) <= arrived + 1
                 /\ (line'[attempt] = "blank" /\ pending = "done" => ended')
                 /\ (tr.finished => /\ ended' /\ pending = "none"
                                    /\ line'[attempt] \in {"none", "eof", "error"})
      <4>1. attempt \in Attempts
        BY <1>0, <3>4 DEF RelayTypes
      <4>2. /\ tr.next + One(pending) + One(line[attempt]) <= arrived + 1
            /\ (line[attempt] = "blank" /\ pending = "done" => ended)
            /\ (tr.finished => ended /\ pending = "none" /\ line[attempt] \in {"none", "eof", "error"})
        BY <3>4 DEF RelayInv, ChunksOK
      <4>3. CASE a = attempt
        <5>1. line'[attempt] = l
          BY <2>1, <4>3
        <5>2. One(pending) \in {0, 1} /\ One(line[attempt]) \in {0, 1}
          BY ChunkNames
        <5>3. tr.next + One(pending) + One(l) <= arrived + 1
          BY <1>0, <3>1, <4>2, <5>2
        <5>. QED
          BY <1>2, <4>2, <4>3, <5>1, <5>3
      <4>4. CASE a # attempt
        BY <1>2, <2>1, <4>1, <4>2, <4>4
      <4>. QED
        BY <4>3, <4>4
    <3>5. tr.next <= arrived + 1 /\ (tr.tools # <<>> => arrived >= 1)
      BY DEF RelayInv, ChunksOK
    <3>. QED
      BY <1>2, <3>2, <3>3, <3>4, <3>5 DEF ChunksOK
  <2>. QED
    BY <1>0, <1>2, <2>1, <2>2, UpstreamKeeps DEF RelayInv
<1>3. CASE ReadBlank(a)
  <2>1. /\ Offer(a, "blank") /\ Upstream /\ arrived' = arrived /\ a = attempt /\ ~ended
        /\ ended' = (ended \/ "blank" \in {"eof", "error"} \/ ("blank" = "blank" /\ pending = "done"))
    BY <1>3 DEF ReadBlank
  <2>. QED
    BY <1>2, <2>1
<1>4. CASE ReadDone(a)
  <2>1. /\ Offer(a, "done") /\ Upstream /\ arrived' = arrived /\ a = attempt /\ ~ended /\ pending = "none"
        /\ ended' = ended
    BY <1>4 DEF ReadDone
  <2>. QED
    BY <1>2, <2>1
<1>5. CASE ReadEnd(a)
  <2>1. Offer(a, "eof") /\ Upstream /\ arrived' = arrived /\ a = attempt /\ ended' = TRUE
    BY <1>5 DEF ReadEnd
  <2>. QED
    BY <1>2, <2>1
<1>6. CASE ReadError(a)
  <2>1. Offer(a, "error") /\ Upstream /\ arrived' = arrived
        /\ (a = attempt => ended' = TRUE) /\ (a # attempt => ended' = ended)
    BY <1>6 DEF ReadError
  <2>. QED
    BY <1>2, <2>1
<1>. QED
  BY <1>1, <1>3, <1>4, <1>5, <1>6 DEF Read

(* The end of a stream, as the handler returns it.                         *)
LEMMA WrittenHeads ==
    ASSUME RelayInv, pc \in {"wait", "handle"}, NEW w \in Seq(Event), Write(w)
    PROVE  out' = out \o w /\ head' \in {"none", "stream", "plain"} /\ (out' # <<>> => head' \in {"stream", "plain"})
<1>1. out' = out \o w /\ head \in {"none", "stream", "plain"} /\ out \in Seq(Event)
      /\ (out # <<>> => head \in {"stream", "plain"})
  BY DEF RelayInv, HeadOK, Write, WrittenBy
<1>2. CASE w = <<>>
  <2>1. head' = head
    BY <1>2 DEF Write
  <2>2. out \o w = out
    BY <1>1, <1>2, ConcatEmptySeq
  <2>. QED
    BY <1>1, <2>1, <2>2
<1>3. CASE w # <<>>
  <2>1. head' = IF head = "none" THEN "stream" ELSE head
    BY <1>3 DEF Write, Heads
  <2>. QED
    BY <1>1, <2>1
<1>. QED
  BY <1>2, <1>3

(* A relay that returns keeps the invariant when what it wrote fits its    *)
(* translator.                                                             *)
LEMMA ReturnsKeep ==
    ASSUME RelayInv, pc \in {"wait", "handle"}, Relaying, arrived' = arrived, reader' = reader,
           line' \in [Attempts -> Lines], \A a \in Attempts : line'[a] \in Chunks => arrived >= 1,
           NEW t, NEW w \in Seq(Event), NEW err \in BOOLEAN, Returns(t, w, err),
           WrittenBy(t, out \o w), t.next <= arrived + 1, t.tools # <<>> => arrived >= 1,
           err \/ t.finished
    PROVE  RelayInv'
<1>1. /\ pc' = "close" /\ tr' = t /\ Write(w) /\ pending' = "none"
      /\ result' = IF err THEN "error" ELSE IF Silent(t) THEN "empty" ELSE "ok"
  BY DEF Returns
<1>2. out' = out \o w /\ head' \in {"none", "stream", "plain"} /\ (out' # <<>> => head' \in {"stream", "plain"})
  BY <1>1, WrittenHeads
<1>3. WrittenBy(tr, out)'
  BY <1>1, <1>2, Carried DEF Relaying
<1>4. RelayTypes'
  BY <1>1 DEF RelayInv, RelayTypes, Relaying, loopVars, Lines
<1>5. ChunksOK'
  BY <1>1 DEF ChunksOK
<1>6. HeadOK'
  BY <1>1, <1>2 DEF HeadOK
<1>7. ResultOK'
  <2>1. ~charged /\ charged' = charged
    BY DEF RelayInv, ResultOK, Relaying
  <2>2. result' = "ok" => t.finished /\ ~Silent(t)
    BY <1>1
  <2>3. Silent(tr)' <=> Silent(t)
    BY <1>1 DEF Silent
  <2>. QED
    BY <1>1, <2>1, <2>2, <2>3 DEF ResultOK
<1>. QED
  BY <1>3, <1>4, <1>5, <1>6, <1>7 DEF RelayInv

(* While a relay runs, a chunk that is pending is due at most one block.   *)
LEMMA Due ==
    ASSUME RelayInv, pc \in {"launch", "wait", "handle"}
    PROVE  /\ arrived \in Nat /\ attempt \in Attempts /\ line[attempt] \in Lines /\ protocol \in Protocols
           /\ pending \in Chunks \cup {"none", "done"} /\ WrittenBy(tr, out) /\ out \in Seq(Event)
           /\ (tr.finished => ended /\ pending = "none" /\ line[attempt] \in {"none", "eof", "error"})
           /\ tr.next \in Nat \ {0} /\ tr.next <= arrived + 1 /\ (tr.tools # <<>> => arrived >= 1)
           /\ tr.next + One(pending) <= arrived + 1
<1>1. /\ arrived \in Nat /\ attempt \in Attempts /\ line[attempt] \in Lines /\ protocol \in Protocols
      /\ pending \in Chunks \cup {"none", "done"} /\ WrittenBy(tr, out) /\ out \in Seq(Event)
      /\ tr.next \in Nat \ {0}
  BY LineKinds DEF RelayInv, RelayTypes, Lines, WrittenBy, Translator
<1>2. /\ (tr.finished => ended /\ pending = "none" /\ line[attempt] \in {"none", "eof", "error"})
      /\ tr.next <= arrived + 1 /\ (tr.tools # <<>> => arrived >= 1)
      /\ tr.next + One(pending) + One(line[attempt]) <= arrived + 1
  BY DEF RelayInv, ChunksOK
<1>3. One(pending) \in {0, 1} /\ One(line[attempt]) \in {0, 1}
  BY ChunkNames
<1>4. tr.next + One(pending) <= arrived + 1
  BY <1>1, <1>2, <1>3
<1>. QED
  BY <1>1, <1>2, <1>4

(* A relay that stops with an error leaves what was written.               *)
LEMMA BreakKeeps ==
    ASSUME RelayInv, pc \in {"wait", "handle"}, Relaying, arrived' = arrived, reader' = reader,
           line' \in [Attempts -> Lines], \A a \in Attempts : line'[a] \in Chunks => arrived >= 1,
           Returns(tr, <<>>, TRUE)
    PROVE  RelayInv'
<1>1. WrittenBy(tr, out) /\ out \in Seq(Event) /\ tr.next <= arrived + 1 /\ (tr.tools # <<>> => arrived >= 1)
  BY Due
<1>2. out \o <<>> = out /\ <<>> \in Seq(Event)
  BY <1>1, ConcatEmptySeq
<1>3. WrittenBy(tr, out \o <<>>)
  BY <1>1, <1>2
<1>. QED
  BY <1>1, <1>2, <1>3, ReturnsKeep

(* A relay that ends its stream, or fails to.                              *)
LEMMA EndStreamKeeps ==
    ASSUME RelayInv, pc \in {"wait", "handle"}, Relaying, arrived' = arrived, reader' = reader,
           line' \in [Attempts -> Lines], \A a \in Attempts : line'[a] \in Chunks => arrived >= 1,
           EndStream
    PROVE  RelayInv'
<1>. DEFINE u == FinishState(FlushState)
            w == FlushWrites \o FinishWrites(FlushState)
<1>1. CASE Returns(u, w, FALSE)
  <2>1. /\ w \in Seq(Event) /\ WrittenBy(u, out \o w)
        /\ u.next <= tr.next + One(pending) /\ tr.next \in Nat \ {0} /\ u.next \in Nat
        /\ (u.tools # <<>> => tr.tools # <<>> \/ One(pending) = 1)
        /\ u.finished
    BY Due, EndKeeps
  <2>2. arrived \in Nat /\ (tr.tools # <<>> => arrived >= 1) /\ tr.next + One(pending) <= arrived + 1
    BY Due
  <2>3. One(pending) \in {0, 1}
    BY ChunkNames
  <2>. HIDE DEF u, w
  <2>4. u.next <= arrived + 1 /\ (u.tools # <<>> => arrived >= 1)
    BY <2>1, <2>2, <2>3
  <2>. QED
    BY <1>1, <2>1, <2>4, ReturnsKeep
<1>2. CASE Returns(tr, <<>>, TRUE)
  BY <1>2, BreakKeeps
<1>. QED
  BY <1>1, <1>2 DEF EndStream

(* The idle timer ends the stream.                                         *)
LEMMA GiveUpKeeps == ASSUME RelayInv, GiveUpWaiting PROVE RelayInv'
<1>1. /\ pc = "wait" /\ Relaying /\ arrived' = arrived /\ reader' = reader /\ line' = line /\ EndStream
  BY DEF GiveUpWaiting, readVars
<1>2. line' \in [Attempts -> Lines] /\ \A a \in Attempts : line'[a] \in Chunks => arrived >= 1
  BY <1>1 DEF RelayInv, RelayTypes, ChunksOK, Lines
<1>. QED
  BY <1>1, <1>2, EndStreamKeeps

(* A line that was taken is gone.                                          *)
LEMMA TakeTyped ==
    ASSUME RelayInv, attempt \in Attempts, TakeLine
    PROVE  /\ line' \in [Attempts -> Lines] /\ line'[attempt] = "none"
           /\ \A a \in Attempts : line'[a] \in Chunks => arrived >= 1
           /\ arrived' = arrived /\ reader' = reader /\ ended' = ended
<1>1. /\ line' \in [Attempts -> Lines] /\ line'[attempt] = "none"
      /\ \A b \in Attempts : line'[b] = IF b = attempt THEN "none" ELSE line[b]
  BY LinesTyped DEF TakeLine, RelayInv, Lines
<1>. QED
  BY <1>1, ChunkNames DEF TakeLine, RelayInv, ChunksOK

(* The end of the upstream ends the stream.                                *)
LEMMA HandleEndKeeps == ASSUME RelayInv, HandleEnd PROVE RelayInv'
<1>1. pc = "handle" /\ TakeLine /\ Relaying /\ attempt \in Attempts /\ (EndStream \/ Returns(tr, <<>>, TRUE))
  BY Due DEF HandleEnd
<1>. QED
  BY <1>1, TakeTyped, EndStreamKeeps, BreakKeeps

(* A data line is pending until the blank line after it.                   *)
LEMMA HandleDataKeeps == ASSUME RelayInv, HandleData PROVE RelayInv'
<1>1. /\ pc = "handle" /\ pc' = "launch" /\ pending' = line[attempt] /\ TakeLine /\ Relaying
      /\ UNCHANGED <<tr, out, head, result>> /\ line[attempt] \in Chunks \cup {"done"}
      /\ protocol' = protocol /\ attempt' = attempt
  BY DEF HandleData, Relaying, loopVars
<1>2. /\ attempt \in Attempts /\ arrived \in Nat /\ tr.next \in Nat \ {0}
      /\ (tr.finished => line[attempt] \in {"none", "eof", "error"})
  BY <1>1, Due
<1>3. ~tr.finished
  BY <1>1, <1>2, ChunkNames
<1>4. /\ line' \in [Attempts -> Lines] /\ line'[attempt] = "none"
      /\ \A a \in Attempts : line'[a] \in Chunks => arrived >= 1
      /\ arrived' = arrived /\ reader' = reader
  BY <1>1, <1>2, TakeTyped
<1>5. WrittenBy(tr, out)'
  BY <1>1, Unwritten
<1>6. RelayTypes'
  BY <1>1, <1>4 DEF RelayInv, RelayTypes, Relaying, loopVars, Lines
<1>7. ChunksOK'
  <2>1. tr.next + One(pending) + One(line[attempt]) <= arrived + 1 /\ tr.next <= arrived + 1
        /\ (tr.tools # <<>> => arrived >= 1)
    BY <1>1 DEF RelayInv, ChunksOK
  <2>2. One("none") = 0 /\ One(pending) \in {0, 1} /\ One(line[attempt]) \in {0, 1}
    BY ChunkNames
  <2>3. tr.next + One(line[attempt]) + 0 <= arrived + 1
    BY <1>2, <2>1, <2>2
  <2>. QED
    BY <1>1, <1>3, <1>4, <2>1, <2>2, <2>3 DEF ChunksOK
<1>8. HeadOK' /\ ResultOK'
  BY <1>1 DEF RelayInv, HeadOK, ResultOK, Relaying
<1>. QED
  BY <1>5, <1>6, <1>7, <1>8 DEF RelayInv

(* A blank line flushes what is pending.                                   *)
LEMMA HandleBlankKeeps == ASSUME RelayInv, HandleBlank PROVE RelayInv'
<1>1. /\ pc = "handle" /\ line[attempt] = "blank" /\ TakeLine /\ Relaying
      /\ protocol' = protocol /\ attempt' = attempt
  BY DEF HandleBlank, Relaying, loopVars
<1>2. /\ attempt \in Attempts /\ arrived \in Nat /\ protocol \in Protocols
      /\ pending \in Chunks \cup {"none", "done"} /\ WrittenBy(tr, out)
      /\ (tr.finished => line[attempt] \in {"none", "eof", "error"})
      /\ (tr.tools # <<>> => arrived >= 1) /\ tr.next + One(pending) <= arrived + 1
  BY <1>1, Due
<1>3. ~tr.finished
  BY <1>1, <1>2
<1>4. /\ line' \in [Attempts -> Lines] /\ line'[attempt] = "none"
      /\ \A a \in Attempts : line'[a] \in Chunks => arrived >= 1
      /\ arrived' = arrived /\ reader' = reader /\ ended' = ended
  BY <1>1, <1>2, TakeTyped
<1>5. CASE Returns(tr, <<>>, TRUE)
  BY <1>1, <1>4, <1>5, BreakKeeps
<1>6. CASE /\ pc' = "launch" /\ tr' = FlushState /\ Write(FlushWrites) /\ pending' = "none"
           /\ UNCHANGED result
  <2>1. /\ FlushWrites \in Seq(Event) /\ WrittenBy(FlushState, out \o FlushWrites)
        /\ FlushState.next <= tr.next + One(pending) /\ FlushState.next \in Nat /\ tr.next \in Nat \ {0}
        /\ FlushState.tools # <<>> => tr.tools # <<>> \/ One(pending) = 1
        /\ FlushState.finished => tr.finished \/ pending = "done"
    BY <1>2, <1>3, FlushKeeps
  <2>. DEFINE t == FlushState
              w == FlushWrites
  <2>2. w \in Seq(Event) /\ tr' = t /\ Write(w) /\ WrittenBy(t, out \o w)
    BY <1>6, <2>1
  <2>3. One(pending) \in {0, 1} /\ One("none") = 0
    BY ChunkNames
  <2>4. t.finished => ended
    BY <1>1, <1>3, <2>1 DEF RelayInv, ChunksOK
  <2>5. t.next <= arrived + 1 /\ t.next \in Nat /\ (t.tools # <<>> => arrived >= 1)
    BY <1>2, <2>1, <2>3
  <2>. HIDE DEF t, w
  <2>6. out' = out \o w /\ head' \in {"none", "stream", "plain"} /\ (out' # <<>> => head' \in {"stream", "plain"})
    BY <1>1, <2>2, WrittenHeads
  <2>7. WrittenBy(tr, out)'
    BY <1>1, <2>2, <2>6, Carried
  <2>8. RelayTypes'
    BY <1>1, <1>4, <1>6 DEF RelayInv, RelayTypes, Relaying, loopVars, Lines
  <2>9. ChunksOK'
    <3>1. t.next + 0 + 0 <= arrived + 1
      BY <1>2, <2>5
    <3>2. tr'.next = t.next /\ tr'.tools = t.tools /\ tr'.finished = t.finished
      BY <2>2
    <3>. QED
      BY <1>1, <1>4, <1>6, <2>3, <2>4, <2>5, <3>1, <3>2 DEF ChunksOK
  <2>10. HeadOK'
    BY <1>6, <2>6 DEF HeadOK
  <2>11. ResultOK'
    BY <1>1, <1>6 DEF RelayInv, ResultOK, Relaying
  <2>. QED
    BY <2>7, <2>8, <2>9, <2>10, <2>11 DEF RelayInv
<1>. QED
  BY <1>5, <1>6 DEF HandleBlank

(* Only a stream of which nothing was written is tried again.              *)
LEMMA SettleKeeps == ASSUME RelayInv, Settle PROVE RelayInv'
<1>1. /\ pc = "close" /\ leased' = FALSE /\ pc' \in {"loop", "end"} /\ charged' \in BOOLEAN
      /\ UNCHANGED <<protocol, attempt, gone, tr, out, head, pending, readVars>>
  BY DEF Settle, RelayInv, RelayTypes
<1>2. WrittenBy(tr, out)'
  BY <1>1, Unwritten
<1>3. RelayTypes'
  BY <1>1 DEF Settle, RelayInv, RelayTypes, readVars
<1>4. ChunksOK' /\ HeadOK'
  BY <1>1 DEF RelayInv, ChunksOK, HeadOK, readVars
<1>5. ResultOK'
  <2>1. ~tr.started => out = <<>>
    BY DEF RelayInv, WrittenBy
  <2>2. Silent(tr)' <=> Silent(tr)
    BY <1>1 DEF Silent
  <2>. QED
    BY <1>1, <2>1, <2>2 DEF Settle, RelayInv, ResultOK
<1>. QED
  BY <1>2, <1>3, <1>4, <1>5 DEF RelayInv

(* Every step keeps the invariant.                                         *)
THEOREM RelayGoesOn == RelayInv /\ [RelayNext]_relayVars => RelayInv'
<1>. SUFFICES ASSUME RelayInv, [RelayNext]_relayVars PROVE RelayInv'
  OBVIOUS
<1>1. CASE Handler
  <2>1. CASE AnswerCancelled
    BY <2>1, CancelledKeeps
  <2>2. CASE Acquire
    BY <2>2, AcquireKeeps
  <2>3. CASE OpenUpstream
    BY <2>3, OpenKeeps
  <2>4. CASE Exhausted
    BY <2>4, ExhaustedKeeps
  <2>5. CASE Launch
    BY <2>5, LaunchKeeps
  <2>6. CASE Receive
    BY <2>6, ReceiveKeeps
  <2>7. CASE GiveUpWaiting
    BY <2>7, GiveUpKeeps
  <2>8. CASE HandleData
    BY <2>8, HandleDataKeeps
  <2>9. CASE HandleBlank
    BY <2>9, HandleBlankKeeps
  <2>10. CASE HandleEnd
    BY <2>10, HandleEndKeeps
  <2>11. CASE Settle
    BY <2>11, SettleKeeps
  <2>. QED
    BY <1>1, <2>1, <2>2, <2>3, <2>4, <2>5, <2>6, <2>7, <2>8, <2>9, <2>10, <2>11 DEF Handler
<1>2. CASE KeepAlive
  BY <1>2, KeepAliveKeeps
<1>3. CASE Leave
  BY <1>3, LeaveKeeps
<1>4. CASE \E a \in Attempts : Read(a)
  BY <1>4, ReadKeeps
<1>5. CASE UNCHANGED relayVars
  <2>1. WrittenBy(tr, out)'
    BY <1>5, Unwritten DEF relayVars
  <2>2. RelayTypes' /\ HeadOK' /\ ChunksOK' /\ ResultOK'
    BY <1>5 DEF RelayInv, RelayTypes, HeadOK, ChunksOK, ResultOK, Silent, relayVars, loopVars, readVars
  <2>. QED
    BY <2>1, <2>2 DEF RelayInv
<1>. QED
  BY <1>1, <1>2, <1>3, <1>4, <1>5 DEF RelayNext

(* It holds in every state.                                                *)
THEOREM RelayInvariant == RelaySpec => []RelayInv
<1>1. RelayInit => RelayInv
  BY RelayStarts
<1>2. RelayInv /\ [RelayNext]_relayVars => RelayInv'
  BY RelayGoesOn
<1>. QED
  BY <1>1, <1>2, PTL DEF RelaySpec

(* Usage is charged only for a stream whose client got content and its     *)
(* end.                                                                    *)
THEOREM ChargesAreForWholeStreams == RelaySpec => []ChargedForWhole
<1>1. RelayInv => ChargedForWhole
  <2>. SUFFICES ASSUME RelayInv, charged PROVE Len(out) > 1 /\ out[Len(out)].kind = "end"
    BY DEF ChargedForWhole
  <2>1. tr.finished /\ ~Silent(tr)
    BY DEF RelayInv, ResultOK
  <2>2. out # <<>>
    BY <2>1 DEF RelayInv, WrittenBy, Silent
  <2>. QED
    BY <2>1, <2>2 DEF RelayInv, WrittenBy
<1>. QED
  BY <1>1, RelayInvariant, PTL

(* What the events of a message mean for a client.                         *)
LEMMA AtMostOne ==
    ASSUME NEW o, NEW S, S \subseteq Pos(o), \A j, k \in S : ~(j < k)
    PROVE  Cardinality(S) <= 1
<1>1. CASE S = {}
  BY <1>1, FS_EmptySet
<1>2. CASE S # {}
  <2>1. PICK k \in S : TRUE
    BY <1>2
  <2>2. \A j \in S : j \in Int
    BY DEF Pos
  <2>3. S = {k}
    BY <2>1, <2>2
  <2>4. Cardinality({k}) = 1
    BY FS_Singleton
  <2>. QED
    BY <2>3, <2>4
<1>. QED
  BY <1>1, <1>2

(* Distinct names are at most two, so tools are no more than the kinds of  *)
(* chunks.                                                                 *)
LEMMA FewTools ==
    ASSUME NEW t, WrittenBy(t, out)
    PROVE  Len(t.tools) <= Cardinality(Tools)
<1>1. /\ t.tools \in Seq([name: {"tool", "other"}, index: Nat]) /\ Len(t.tools) \in Nat
      /\ \A i, j \in 1 .. Len(t.tools) : t.tools[i].name = t.tools[j].name => i = j
  BY LenProperties DEF WrittenBy, Translator
<1>2. \A i \in 1 .. Len(t.tools) : t.tools[i].name \in {"tool", "other"}
  <2>1. \A i \in 1 .. Len(t.tools) : t.tools[i] \in [name: {"tool", "other"}, index: Nat]
    BY <1>1, ElementOfSeq
  <2>. QED
    BY <2>1
<1>3. Len(t.tools) <= 2
  <2>1. SUFFICES ASSUME Len(t.tools) > 2 PROVE FALSE
    BY <1>1
  <2>2. 1 \in 1 .. Len(t.tools) /\ 2 \in 1 .. Len(t.tools) /\ 3 \in 1 .. Len(t.tools)
    BY <1>1, <2>1
  <2>. QED
    BY <1>1, <1>2, <2>2
<1>4. Cardinality(Tools) = 3
  <2>1. Cardinality({}) = 0 /\ IsFiniteSet({})
    BY FS_EmptySet
  <2>2. IsFiniteSet({"tool"}) /\ Cardinality({"tool"}) = 1
    BY FS_Singleton
  <2>3. IsFiniteSet({"tool"} \cup {"bare"}) /\ Cardinality({"tool"} \cup {"bare"}) = 2
    BY <2>2, FS_AddElement
  <2>4. Cardinality(({"tool"} \cup {"bare"}) \cup {"other"}) = 3
    BY <2>3, FS_AddElement
  <2>5. Tools = ({"tool"} \cup {"bare"}) \cup {"other"}
    BY DEF Tools
  <2>. QED
    BY <2>4, <2>5
<1>. QED
  BY <1>1, <1>3, <1>4

(* A message's blocks open once, before what belongs to them, and close    *)
(* once, after it.                                                         *)
LEMMA MessageMeans ==
    ASSUME NEW n, NEW S, Message(out, n, S)
    PROVE  /\ out # <<>> => At(Ev("start", 0)) = {1}
           /\ \A i \in Indexes :
                /\ Once(Ev("block", i)) /\ Once(Ev("stop", i))
                /\ Before(Ev("block", i), Ev("delta", i)) /\ Before(Ev("delta", i), Ev("stop", i))
                /\ At(Ev("block", i)) = {} => At(Ev("delta", i)) \cup At(Ev("stop", i)) = {}
                /\ S = {} /\ At(Ev("block", i)) # {} => At(Ev("stop", i)) # {}
<1>1. out \in Seq(Event) /\ Len(out) \in Nat /\ (out # <<>> => 1 \in Pos(out))
  BY LenProperties, EmptySeq DEF Message, Pos
<1>2. \A e : At(e) = {k \in Pos(out) : out[k] = e}
  BY DEF At, Pos
<1>3. out # <<>> => At(Ev("start", 0)) = {1}
  <2>1. Ev("start", 0).kind = "start"
    BY EvTyped
  <2>2. (out # <<>> => out[1] = Ev("start", 0)) /\ \A k \in Pos(out) : out[k].kind = "start" => k = 1
    BY DEF Message
  <2>. QED
    BY <1>1, <1>2, <2>1, <2>2
<1>4. ASSUME NEW i \in Indexes
      PROVE  /\ Once(Ev("block", i)) /\ Once(Ev("stop", i))
             /\ Before(Ev("block", i), Ev("delta", i)) /\ Before(Ev("delta", i), Ev("stop", i))
             /\ At(Ev("block", i)) = {} => At(Ev("delta", i)) \cup At(Ev("stop", i)) = {}
             /\ S = {} /\ At(Ev("block", i)) # {} => At(Ev("stop", i)) # {}
  <2>. DEFINE b == Ev("block", i)
              d == Ev("delta", i)
              s == Ev("stop", i)
  <2>1. i \in Nat
    BY DEF Indexes
  <2>2. /\ b.kind = "block" /\ b.index = i /\ d.kind = "delta" /\ d.index = i /\ s.kind = "stop" /\ s.index = i
        /\ {b.kind, d.kind, s.kind} \subseteq BlockKinds
    BY <2>1, EvTyped DEF BlockKinds
  <2>3. \A j, k \in Pos(out) : j < k /\ out[j] \in {b, d, s} /\ out[k] \in {b, d, s}
                               => out[j] # s /\ out[k] # b
    <3>1. SUFFICES ASSUME NEW j \in Pos(out), NEW k \in Pos(out), j < k,
                          out[j] \in {b, d, s}, out[k] \in {b, d, s}
                   PROVE  out[j] # s /\ out[k] # b
      OBVIOUS
    <3>. HIDE DEF b, d, s
    <3>2. out[j].index = i /\ out[k].index = i /\ out[j].kind \in BlockKinds /\ out[k].kind \in BlockKinds
      BY <2>2, <3>1
    <3>3. out[j].kind # "stop" /\ out[k].kind # "block"
      BY <3>1, <3>2 DEF Message
    <3>. QED
      BY <2>2, <3>3
  <2>4. \A k \in Pos(out) : out[k] \in {b, d, s} => i \in 1 .. n - 1
    <3>1. \A k \in Pos(out) : out[k] \in {b, d, s} => out[k].kind \in BlockKinds /\ out[k].index = i
      <4>. HIDE DEF b, d, s
      <4>. QED
        BY <2>2
    <3>2. \A k \in Pos(out) : out[k].kind \in BlockKinds => out[k].index \in 1 .. n - 1
      BY DEF Message
    <3>. QED
      BY <3>1, <3>2
  <2>5. i \in 1 .. n - 1 => At(b) # {}
    BY <1>2 DEF Message
  <2>6. S = {} /\ i \in 1 .. n - 1 => At(s) # {}
    BY <1>2 DEF Message
  <2>. HIDE DEF b, d, s
  <2>7. At(b) \subseteq Pos(out) /\ At(s) \subseteq Pos(out) /\ (\A j, k \in At(b) : ~(j < k))
        /\ (\A j, k \in At(s) : ~(j < k))
    BY <1>2, <2>3
  <2>8. Once(b) /\ Once(s)
    BY <2>7, AtMostOne DEF Once
  <2>9. Before(b, d) /\ Before(d, s)
    <3>1. \A k \in Pos(out) : k \in Int
      BY DEF Pos
    <3>2. b # d /\ d # s
      BY <2>2
    <3>. QED
      BY <1>2, <2>3, <3>1, <3>2 DEF Before
  <2>10. At(b) = {} => At(d) \cup At(s) = {}
    BY <1>2, <2>4, <2>5
  <2>11. S = {} /\ At(b) # {} => At(s) # {}
    BY <1>2, <2>4, <2>6
  <2>. QED
    BY <2>8, <2>9, <2>10, <2>11 DEF b, d, s
<1>. QED
  BY <1>3, <1>4

(* No index exceeds what the chunks that arrived account for.              *)
LEMMA IndexesBounded == ASSUME RelayInv PROVE Range(out) \subseteq Events
<1>1. /\ out \in Seq(Event) /\ arrived \in 0 .. MaxChunks /\ MaxChunks \in Nat /\ tr.next \in Nat
      /\ tr.next <= arrived + 1 /\ (tr.tools # <<>> => arrived >= 1)
      /\ \A k \in Pos(out) : out[k].index < tr.next + (IF tr.tools = <<>> THEN 0 ELSE 1)
  BY LineKinds DEF RelayInv, WrittenBy, RelayTypes, ChunksOK, Translator
<1>2. \A k \in Pos(out) : out[k] \in Event /\ out[k].index \in Nat
  BY <1>1, SeqTyped
<1>3. \A k \in Pos(out) : out[k].index <= 2 * MaxChunks
  BY <1>1, <1>2
<1>4. \A k \in Pos(out) : out[k] \in Events
  BY <1>2, <1>3 DEF Event, Events
<1>5. DOMAIN out = Pos(out)
  BY <1>1, LenProperties DEF Pos
<1>. QED
  BY <1>4, <1>5 DEF Range

(* Over all attempts the client's stream is one message, whatever the      *)
(* upstream sends.                                                         *)
THEOREM StreamsAreWellFormed == RelaySpec => []WellFormed
<1>1. ASSUME RelayInv PROVE WellFormed
  <2>1. /\ protocol \in Protocols /\ attempt \in 0 .. MaxAttempts /\ WrittenBy(tr, out)
    BY <1>1 DEF RelayInv, RelayTypes
  <2>2. RelayTypeOK
    <3>1. Range(out) \subseteq Events /\ Len(tr.tools) <= Cardinality(Tools)
      BY <1>1, <2>1, IndexesBounded, FewTools
    <3>. QED
      BY <1>1, <3>1 DEF RelayInv, RelayTypes, HeadOK, RelayTypeOK
  <2>3. out # <<>> => head \in {"stream", "plain"}
    BY <1>1 DEF RelayInv, HeadOK
  <2>4. \A k \in 1 .. Len(out) : out[k].kind = "end" => k = Len(out) /\ tr.finished
    BY <2>1 DEF WrittenBy, Pos
  <2>5. ASSUME protocol = "claude", NEW i \in Indexes
        PROVE  /\ out # <<>> => At(Ev("start", 0)) = {1}
               /\ Once(Ev("block", i)) /\ Once(Ev("stop", i))
               /\ Before(Ev("block", i), Ev("delta", i)) /\ Before(Ev("delta", i), Ev("stop", i))
               /\ At(Ev("block", i)) = {} => At(Ev("delta", i)) \cup At(Ev("stop", i)) = {}
               /\ At(Ev("end", 0)) # {} /\ At(Ev("block", i)) # {} => At(Ev("stop", i)) # {}
    <3>1. Message(out, tr.next, IF tr.finished THEN {} ELSE Open(tr))
      BY <2>1, <2>5 DEF WrittenBy
    <3>2. At(Ev("end", 0)) # {} => tr.finished
      <4>1. Ev("end", 0).kind = "end"
        BY EvTyped
      <4>. QED
        BY <2>4, <4>1 DEF At
    <3>. QED
      BY <3>1, <3>2, MessageMeans
  <2>6. protocol = "claude" => (out # <<>> => At(Ev("start", 0)) = {1})
    <3>1. SUFFICES ASSUME protocol = "claude" PROVE out # <<>> => At(Ev("start", 0)) = {1}
      OBVIOUS
    <3>2. Message(out, tr.next, IF tr.finished THEN {} ELSE Open(tr))
      BY <2>1, <3>1 DEF WrittenBy
    <3>. QED
      BY <3>2, MessageMeans
  <2>. QED
    BY <2>2, <2>3, <2>4, <2>5, <2>6 DEF WellFormed
<1>. QED
  BY <1>1, RelayInvariant, PTL
=============================================================================
