----------------------------- MODULE StoreRows -----------------------------
(***************************************************************************)
(* The rows of the store that refer to each other, and what the mutators   *)
(* passed to db.UpdateStore make of them: upstream keys bound to proxies,  *)
(* the system's own proxy, proxies added by hand, imported or managed for  *)
(* a core profile, and the core profiles with their local ports.  A store  *)
(* is a record with a field for each file; every operator maps a store to  *)
(* the store that the mutator leaves.                                      *)
(***************************************************************************)
EXTENDS Integers, FiniteSets, Functions

NoRows == [x \in {} |-> 0]
DefaultList == [next |-> 1, rows |-> NoRows]

DefaultRows ==
    [api_keys |-> DefaultList, proxies |-> DefaultList,
     core_profiles |-> DefaultList, system_config |-> 0]

(* What the files hold of a row: a key its ProxyID, a proxy its owner      *)
(* (ManagedBy, Source), ManagedRefID, Port, Status and last test, a        *)
(* profile its ManagedProxyID, LocalPort and Status.                       *)
ProxyRow == [by: {"manual", "auto", "xray"}, ref: Nat, port: Nat, on: BOOLEAN,
             test: {"none", "good", "bad"}]
ProfileRow == [proxy: Nat, port: Nat, on: BOOLEAN, fits: BOOLEAN]

RowsOf == [api_keys |-> Nat, proxies |-> ProxyRow, core_profiles |-> ProfileRow]

(* A list gives out its ids in order.                                      *)
IsList(list, Row) ==
    /\ {"next", "rows"} \subseteq DOMAIN list /\ list.next \in Nat \ {0}
    /\ \A x \in DOMAIN list.rows : x \in Nat \ {0} /\ x < list.next /\ list.rows[x] \in Row

Keys(s) == DOMAIN s.api_keys.rows
Proxies(s) == DOMAIN s.proxies.rows
Profiles(s) == DOMAIN s.core_profiles.rows
Managed(s) == {p \in Proxies(s) : s.proxies.rows[p].by = "xray"}

Put(f, x, v) == [y \in DOMAIN f \cup {x} |-> IF y = x THEN v ELSE f[y]]
Without(f, S) == Restrict(f, DOMAIN f \ S)

Appended(list, row) == [next |-> list.next + 1, rows |-> Put(list.rows, list.next, row)]

---------------------------------------------------------------------------
(* Keys *)

ValidReference(s, p) == p = 0 \/ p \in Proxies(s)

AddKeyRow(s, p) == [s EXCEPT !.api_keys = Appended(@, p)]

BindKeys(s, ks, p) ==
    [s EXCEPT !.api_keys.rows = [k \in DOMAIN @ |-> IF k \in ks THEN p ELSE @[k]]]

Unbind(s, ps) ==
    [s EXCEPT !.api_keys.rows = [k \in DOMAIN @ |-> IF @[k] \in ps THEN 0 ELSE @[k]]]

DeleteKeyRow(s, k) == [s EXCEPT !.api_keys.rows = Without(@, {k})]

SetSystemProxy(s, p) == [s EXCEPT !.system_config = p]

(* loadSystemConfig drops a proxy id that no row answers to. *)
SystemProxy(s) == IF s.system_config \in Proxies(s) THEN s.system_config ELSE 0

---------------------------------------------------------------------------
(* Proxies *)

NewProxy(by, on, test) == [by |-> by, ref |-> 0, port |-> 0, on |-> on, test |-> test]

AddProxyRow(s) == [s EXCEPT !.proxies = Appended(@, NewProxy("manual", TRUE, "none"))]

(* errManagedProxyReadOnly *)
Editable(s, p) == p \in Proxies(s) /\ s.proxies.rows[p].by # "xray"

SetProxyStatus(s, ps, on) ==
    [s EXCEPT !.proxies.rows =
        [p \in DOMAIN @ |-> IF p \in ps THEN [@[p] EXCEPT !.on = on] ELSE @[p]]]

\* Mutant: the next id is counted anew from the rows that are left.
DeleteProxyRowsRecounting(s, ps) ==
    LET left == Without(s.proxies.rows, ps)
        next == 1 + Cardinality({n \in 1 .. s.proxies.next : \E p \in DOMAIN left : n <= p})
    IN  Unbind([s EXCEPT !.proxies = [next |-> next, rows |-> left]], ps)

DeleteProxyRows(s, ps) == Unbind([s EXCEPT !.proxies.rows = Without(@, ps)], ps)

RecordProxyTest(s, p, ok) ==
    [s EXCEPT !.proxies.rows[p].test = IF ok THEN "good" ELSE "bad"]

---------------------------------------------------------------------------
(* Core profiles *)

AddProfileRow(s, port, fits) ==
    [s EXCEPT !.core_profiles =
        Appended(@, [proxy |-> 0, port |-> port, on |-> TRUE, fits |-> fits])]

SetProfile(s, c, port, on) ==
    [s EXCEPT !.core_profiles.rows[c] = [@ EXCEPT !.port = port, !.on = on]]

DeleteProfileRows(s, cs) ==
    LET gone == {s.core_profiles.rows[c].proxy : c \in cs \cap Profiles(s)} \ {0}
    IN  Unbind([s EXCEPT !.core_profiles.rows = Without(@, cs),
                         !.proxies.rows = Without(@, gone)], gone)

(* A port that several profiles claim stays with the last of them; the     *)
(* others and the profiles without one get the smallest ports nobody       *)
(* claimed, in the order of their ids.                                     *)
FirstPort == 1      \* CoreLocalPortStart
PortsOf(s) == {s.core_profiles.rows[c].port : c \in Profiles(s)} \ {0}
KeepsPort(s, c) ==
    /\ s.core_profiles.rows[c].port # 0
    /\ \A d \in Profiles(s) :
         d > c => s.core_profiles.rows[d].port # s.core_profiles.rows[c].port
Movers(s) == {c \in Profiles(s) : ~KeepsPort(s, c)}
NthFreePort(s, n) ==
    CHOOSE f \in FirstPort .. FirstPort + Cardinality(Profiles(s)) + n :
        /\ f \notin PortsOf(s)
        /\ Cardinality({g \in FirstPort .. f : g \notin PortsOf(s)}) = n

AllocatePorts(s) ==
    [s EXCEPT !.core_profiles.rows =
        [c \in DOMAIN @ |->
            IF KeepsPort(s, c) THEN @[c]
            ELSE [@[c] EXCEPT !.port =
                    NthFreePort(s, Cardinality({d \in Movers(s) : d <= c}))]]]

DisableIncompatible(s) ==
    [s EXCEPT !.core_profiles.rows =
        LET rows == s.core_profiles.rows IN
        [c \in DOMAIN rows |-> [rows[c] EXCEPT !.on = rows[c].on /\ rows[c].fits]]]

(* The proxy of a profile is the one it names, else the last one managed   *)
(* for it, else a new one.                                                 *)
ProxyOf(s, c) ==
    LET named == s.core_profiles.rows[c].proxy
        owned(d) == {p \in Managed(s) : s.proxies.rows[p].ref = d}
        found(d) == s.core_profiles.rows[d].proxy \in Proxies(s) \/ owned(d) # {}
    IN  IF named \in Proxies(s) THEN named
        ELSE IF owned(c) # {} THEN CHOOSE p \in owned(c) : \A q \in owned(c) : q <= p
        ELSE s.proxies.next + Cardinality({d \in Profiles(s) : d < c /\ ~found(d)})

SyncManagedProxies(s) ==
    LET proxyOf == [c \in Profiles(s) |-> ProxyOf(s, c)]
        new == Range(proxyOf) \ Proxies(s)
        owner(p) == CHOOSE c \in Profiles(s) :
                        /\ proxyOf[c] = p
                        /\ \A d \in Profiles(s) : proxyOf[d] = p => d <= c
        row(p) == LET c == owner(p) IN
                  [by |-> "xray", ref |-> c, port |-> s.core_profiles.rows[c].port,
                   on |-> s.core_profiles.rows[c].on,
                   test |-> IF p \in new THEN "none" ELSE s.proxies.rows[p].test]
        orphans == {p \in Managed(s) \ Range(proxyOf) : s.proxies.rows[p].ref \notin Profiles(s)}
        kept == (Proxies(s) \cup new) \ orphans
    IN  Unbind([s EXCEPT
            !.proxies = [next |-> @.next + Cardinality(new),
                         rows |-> [p \in kept |-> IF p \in Range(proxyOf) THEN row(p)
                                                  ELSE s.proxies.rows[p]]],
            !.core_profiles.rows =
                [c \in DOMAIN @ |-> [@[c] EXCEPT !.proxy = proxyOf[c]]]], orphans)

\* Mutant: incompatible profiles are disabled after the proxies were brought into line.
SyncProfilesDisablingLast(s) == DisableIncompatible(SyncManagedProxies(AllocatePorts(s)))

(* syncCoreProfilesForRuntime *)
SyncProfiles(s) == SyncManagedProxies(DisableIncompatible(AllocatePorts(s)))

---------------------------------------------------------------------------
(* What every store should satisfy. *)

BindingsResolved(s) == \A k \in Keys(s) : ValidReference(s, s.api_keys.rows[k])

IdsBelowNext(s) ==
    /\ \A k \in Keys(s) : k < s.api_keys.next
    /\ \A p \in Proxies(s) : p < s.proxies.next
    /\ \A c \in Profiles(s) : c < s.core_profiles.next

(* After a sync, profiles and managed proxies correspond one to one, with  *)
(* the profile's port and status, and no two profiles listen on one port.  *)
Synced(s) ==
    /\ \A c \in Profiles(s) :
         LET p == s.core_profiles.rows[c].proxy IN
         /\ p \in Managed(s)
         /\ s.proxies.rows[p].ref = c
         /\ s.proxies.rows[p].port = s.core_profiles.rows[c].port
         /\ s.proxies.rows[p].on = s.core_profiles.rows[c].on
    /\ \A p \in Managed(s) :
         /\ s.proxies.rows[p].ref \in Profiles(s)
         /\ s.core_profiles.rows[s.proxies.rows[p].ref].proxy = p
    /\ \A c, d \in Profiles(s) :
         s.core_profiles.rows[c].port = s.core_profiles.rows[d].port => c = d
=============================================================================
