----------------------------- MODULE ProxyPool -----------------------------
(***************************************************************************)
(* The proxies that upstream calls are routed over (proxy_pool.go,         *)
(* recoverNetworkPathForKey of proxy.go): the index that every load of the *)
(* keys rebuilds from the store, and the failover of the proxies that the  *)
(* xray core serves.  A proxy's runtime information is its id.             *)
(***************************************************************************)
EXTENDS Integers, FiniteSets

CONSTANTS Managed,      \* proxies that xray serves
          Manual,       \* proxies added by hand or imported
          Keys, Requests,
          Loaders,      \* loads of the keys: the periodic one, those after a change
          Initially,    \* the binding of each key at first
          System,       \* UpstreamProxyID of the system configuration, 0 for none
          MaxChanges, MaxBroken, MaxSpurious   \* bounds: admin's changes, broken paths,
                        \* failures of good paths

Proxies == Managed \cup Manual
ASSUME PoolAssumption ==
    /\ Proxies \subseteq Nat \ {0} /\ Managed \cap Manual = {}
    /\ System \in Proxies \cup {0}
    /\ Keys # {} /\ Initially \in [Keys -> Proxies]
    /\ MaxChanges \in Nat /\ MaxBroken \in Nat /\ MaxSpurious \in Nat

VARIABLES enabled, bound, test,        \* the store: enabled proxies, keys' ProxyID, LastTest
          index, byKey,                \* upstreamRuntimeByProxy, upstreamRuntimeByKey
          failover, cooling,           \* upstreamRuntimeFailoverByID, ...CoolingByProxy
          load,                        \* of each loader, where it is and the store it read
          req,                         \* of each request, where it is and its variables
          broken,                      \* managed proxies whose path does not work any more
          changes, spurious

storeVars == <<enabled, bound, test>>
runtimeVars == <<index, byKey, failover, cooling>>
pathVars == <<broken, spurious>>
vars == <<storeVars, runtimeVars, load, req, changes, pathVars>>

KeyInfo == [proxy: Proxies \cup {0}, url: BOOLEAN]
Snapshot(e, b) == [enabled |-> e, bound |-> b]
Indexed(s) == [k \in Keys |-> [proxy |-> s.bound[k], url |-> s.bound[k] \in s.enabled]]
Unbound == [proxy |-> 0, url |-> FALSE]
NoLoad == [pc |-> "idle", store |-> Snapshot({}, [k \in Keys |-> 0])]
\* proxy: first the one the request is routed over, then the one it blames.
Rest(k) == [pc |-> "idle", key |-> k, info |-> Unbound, proxy |-> 0, other |-> 0]

TypeOK ==
    /\ enabled \subseteq Proxies /\ bound \in [Keys -> Proxies \cup {0}]
    /\ test \in [Managed -> {"good", "none", "bad"}]
    /\ index \subseteq Proxies /\ byKey \in [Keys -> KeyInfo]
    /\ failover \in [Proxies -> Proxies \cup {0}]
    /\ cooling \subseteq Managed /\ broken \subseteq Managed
    /\ \A l \in Loaders : load[l].pc \in {"idle", "load", "read"}
    /\ req \in [Requests ->
         [pc: {"idle", "keyed", "routed", "failed", "promote", "chosen", "resolved"},
          key: Keys, info: KeyInfo, proxy: Proxies \cup {0}, other: Managed \cup {0}]]

Init ==
    /\ enabled = Proxies /\ bound = Initially
    /\ test = [p \in Managed |-> "none"]
    /\ index = enabled /\ byKey = Indexed(Snapshot(enabled, bound))
    /\ failover = [p \in Proxies |-> 0] /\ cooling = {}
    /\ load = [l \in Loaders |-> NoLoad]
    /\ req = [r \in Requests |-> Rest(CHOOSE k \in Keys : TRUE)]
    /\ broken = {} /\ changes = 0 /\ spurious = 0

---------------------------------------------------------------------------
(* Lookups *)

Lookup(p) ==
    IF p = 0 THEN 0
    ELSE IF failover[p] # 0 THEN failover[p]
    ELSE IF p \in index THEN p ELSE 0

(* effectiveProxyRuntimeInfoForAPIKey, once the key's entry is read: the    *)
(* proxy it names, the URL remembered for it, or the system's proxy.        *)
Effective(i) ==
    IF Lookup(i.proxy) # 0 THEN Lookup(i.proxy)
    ELSE IF i.url THEN i.proxy ELSE Lookup(System)

(* The remembered URL carries no ManagedBy.                                *)
EffectiveIsManaged(i) ==
    /\ Effective(i) \in Managed
    /\ Lookup(i.proxy) # 0 \/ ~i.url

Works(p) == p \notin Managed \/ (p \notin broken /\ p \in enabled)

---------------------------------------------------------------------------
(* The admin, and the reloads *)

Change ==
    /\ changes < MaxChanges /\ changes' = changes + 1
    /\ UNCHANGED <<runtimeVars, load, req, pathVars>>

SetStatus ==
    /\ Change
    /\ \E p \in Proxies : enabled' = (enabled \cup {p}) \ (enabled \cap {p})
    /\ UNCHANGED <<bound, test>>

(* DeleteUpstreamProxy and the removal of a core profile unbind the keys.  *)
DeleteProxy ==
    /\ Change
    /\ \E p \in enabled :
         /\ enabled' = enabled \ {p}
         /\ bound' = [k \in Keys |-> IF bound[k] = p THEN 0 ELSE bound[k]]
    /\ UNCHANGED test

BindKey ==
    /\ Change
    /\ \E k \in Keys, p \in Proxies \cup {0} : bound' = [bound EXCEPT ![k] = p]
    /\ UNCHANGED <<enabled, test>>

TestProxy ==
    /\ Change
    /\ \E p \in Managed : test' = [test EXCEPT ![p] = IF Works(p) THEN "good" ELSE "bad"]
    /\ UNCHANGED <<enabled, bound>>

(* Loads follow each change, and a ticker: they come again and again.      *)
Tick(l) ==
    /\ load[l].pc = "idle" /\ load' = [load EXCEPT ![l].pc = "load"]
    /\ UNCHANGED <<storeVars, runtimeVars, req, changes, pathVars>>

ReadForLoad(l) ==
    /\ load[l].pc = "load"
    /\ load' = [load EXCEPT ![l] = [pc |-> "read", store |-> Snapshot(enabled, bound)]]
    /\ UNCHANGED <<storeVars, runtimeVars, req, changes, pathVars>>

\* Mutant: the proxies are indexed anew, entries that keys have already stay.
RebuildKeepingKeys(l) ==
    /\ load[l].pc = "read" /\ load' = [load EXCEPT ![l] = NoLoad]
    /\ index' = load[l].store.enabled
    /\ UNCHANGED <<storeVars, byKey, failover, cooling, req, changes, pathVars>>

(* rebuildUpstreamRuntime: both indexes at once; the failovers stay.       *)
Rebuild(l) ==
    /\ load[l].pc = "read" /\ load' = [load EXCEPT ![l] = NoLoad]
    /\ index' = load[l].store.enabled
    /\ byKey' = Indexed(load[l].store)
    /\ UNCHANGED <<storeVars, failover, cooling, req, changes, pathVars>>

---------------------------------------------------------------------------
(* A request *)

Step(r, from, next) == req[r].pc = from /\ req' = [req EXCEPT ![r] = next]
Ends(r, from) == Step(r, from, Rest(req[r].key))
Elsewhere == UNCHANGED <<storeVars, load, changes>>

Begin(r, k) ==
    /\ Step(r, "idle", [Rest(k) EXCEPT !.pc = "keyed", !.info = byKey[k]])
    /\ Elsewhere /\ UNCHANGED <<runtimeVars, pathVars>>

Route(r) ==
    /\ Step(r, "keyed", [req[r] EXCEPT !.pc = "routed", !.proxy = Effective(req[r].info)])
    /\ Elsewhere /\ UNCHANGED <<runtimeVars, pathVars>>

Answer(r) ==
    /\ Works(req[r].proxy)
    /\ Ends(r, "routed")
    /\ Elsewhere /\ UNCHANGED <<runtimeVars, pathVars>>

Fail(r) ==
    /\ IF Works(req[r].proxy) THEN spurious < MaxSpurious /\ spurious' = spurious + 1
                              ELSE UNCHANGED spurious
    /\ Step(r, "routed", [Rest(req[r].key) EXCEPT !.pc = "failed"])
    /\ Elsewhere /\ UNCHANGED <<runtimeVars, broken>>

\* Mutant: any proxy whose path failed is replaced, not only those xray serves.
RecoverAny(r) ==
    /\ LET now == Effective(byKey[req[r].key]) IN
       Step(r, "failed", IF now # 0 THEN [req[r] EXCEPT !.pc = "promote", !.proxy = now]
                         ELSE Rest(req[r].key))
    /\ Elsewhere /\ UNCHANGED <<runtimeVars, pathVars>>

(* The proxy to blame is looked up again: another request's failover may   *)
(* have changed it since this request was routed.                          *)
Recover(r) ==
    /\ LET now == byKey[req[r].key] IN
       Step(r, "failed", IF EffectiveIsManaged(now)
                         THEN [req[r] EXCEPT !.pc = "promote", !.proxy = Effective(now)]
                         ELSE Rest(req[r].key))
    /\ Elsewhere /\ UNCHANGED <<runtimeVars, pathVars>>

Rank == [good |-> 3, none |-> 1, bad |-> 0]
Candidates(o) == (Managed \cap enabled) \ (cooling \cup {o})
Preferred(p, q) ==
    \/ Rank[test[p]] > Rank[test[q]]
    \/ Rank[test[p]] = Rank[test[q]] /\ p <= q

NoCandidate(r) ==
    /\ Candidates(req[r].proxy) = {}
    /\ Ends(r, "promote")
    /\ Elsewhere /\ UNCHANGED <<runtimeVars, pathVars>>

(* selectAlternativeManagedProxyFromStore; latencies are taken as equal.   *)
Choose(r) ==
    /\ \E p \in Candidates(req[r].proxy) :
         /\ \A q \in Candidates(req[r].proxy) : Preferred(p, q)
         /\ Step(r, "promote", [req[r] EXCEPT !.pc = "chosen", !.other = p])
    /\ Elsewhere /\ UNCHANGED <<runtimeVars, pathVars>>

(* setProxyRuntimeFailover, before it takes the lock: the replacement's    *)
(* own failover takes its place.                                           *)
Resolve(r) ==
    /\ LET found == Lookup(req[r].other) IN
       Step(r, "chosen", [req[r] EXCEPT !.pc = "resolved", !.other = IF found # 0 THEN found ELSE @])
    /\ Elsewhere /\ UNCHANGED <<runtimeVars, pathVars>>

\* Mutant: earlier failovers to the proxy that failed are left alone.
SetFailoverOfOrigin(r) ==
    /\ Ends(r, "resolved")
    /\ LET origin == req[r].proxy IN
       /\ failover' = [failover EXCEPT ![origin] = req[r].other]
       /\ cooling' = cooling \cup {origin}
    /\ Elsewhere /\ UNCHANGED <<index, byKey, pathVars>>

SetFailover(r) ==
    /\ Ends(r, "resolved")
    /\ LET origin == req[r].proxy IN
       /\ failover' = [p \in Proxies |-> IF p = origin \/ failover[p] = origin
                                         THEN req[r].other ELSE failover[p]]
       /\ cooling' = cooling \cup {origin}
    /\ Elsewhere /\ UNCHANGED <<index, byKey, pathVars>>

(* Ten minutes have passed.                                                *)
CoolingEnds(p) ==
    /\ p \in cooling /\ cooling' = cooling \ {p}
    /\ UNCHANGED <<storeVars, index, byKey, failover, load, req, changes, pathVars>>

(* A path breaks, for good.                                                *)
Break(p) ==
    /\ p \notin broken /\ Cardinality(broken) < MaxBroken
    /\ broken' = broken \cup {p}
    /\ UNCHANGED <<storeVars, runtimeVars, load, req, changes, spurious>>

---------------------------------------------------------------------------
Serve(r) ==
    \/ (\E k \in Keys : Begin(r, k)) \/ Route(r) \/ Answer(r) \/ Fail(r) \/ Recover(r)
    \/ NoCandidate(r) \/ Choose(r) \/ Resolve(r) \/ SetFailover(r)
Load(l) == Tick(l) \/ ReadForLoad(l) \/ Rebuild(l)

Next ==
    \/ SetStatus \/ DeleteProxy \/ BindKey \/ TestProxy
    \/ \E l \in Loaders : Load(l)
    \/ \E r \in Requests : Serve(r)
    \/ \E p \in Managed : CoolingEnds(p) \/ Break(p)

(* Loaders tick and load; a key that is in use is used again; ten minutes  *)
(* pass.                                                                   *)
Fairness ==
    /\ \A l \in Loaders : WF_vars(Load(l))
    /\ \A r \in Requests : WF_vars(Serve(r))
    /\ \A k \in Keys : SF_vars(\E r \in Requests : Begin(r, k))
    /\ \A p \in Managed : WF_vars(CoolingEnds(p))

Spec == Init /\ [][Next]_vars /\ Fairness

---------------------------------------------------------------------------
\* Failover concerns the proxies that xray serves: a key bound by hand to another proxy
\* stays with it, whatever fails, and none is ever sent over a proxy added by hand.
ManualStays ==
    /\ TypeOK
    /\ \A p \in Proxies : failover[p] # 0 => p \in Managed /\ failover[p] \in Managed
    /\ \A r \in Requests :
         req[r].pc = "routed" /\ req[r].info.proxy \in Manual /\ req[r].info.url
            => req[r].proxy = req[r].info.proxy

\* A binding that stays, to a proxy that stays enabled, comes to decide the route of the
\* key for good, although a load may still bring the store it read before the binding:
\* the key is not sent directly or over the system's proxy.
BindingTakesEffect ==
    \A k \in Keys :
        <>[](bound[k] \in enabled)
            => <>[](byKey[k].proxy = bound[k] /\ Lookup(bound[k]) # 0)

\* Whichever path breaks for good and whenever, while the managed proxies whose paths
\* work stay enabled and the key is not bound anew, a key in use comes to be routed over
\* a path that works and stays there: however many requests failed at once, whichever of
\* them blamed the replacement, and when proxies that cooled become candidates again.
\* One way to stay on a broken path is set apart, a failover that mapped the path to
\* itself: setProxyRuntimeFailover can do so (PromotedTakesOver).
FaultSurvived ==
    \A k \in Keys :
        [](Managed \ broken # {} /\ Managed \ broken \subseteq enabled /\ bound[k] = Initially[k])
            => <>[](LET now == Effective(byKey[k]) IN Works(now) \/ failover[now] = now)

\* proxy_pool_test.go:141-149: after a failover of the proxy a key is bound to, the key
\* is routed over the replacement that was chosen.
PromotedTakesOver ==
    [][\A r \in Requests : req[r].pc = "resolved" /\ req'[r].pc = "idle" =>
          failover'[req[r].proxy] # req[r].proxy]_vars
=============================================================================
