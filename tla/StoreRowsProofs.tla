--------------------------- MODULE StoreRowsProofs ---------------------------
(***************************************************************************)
(* What the mutators of StoreRows keep and establish in any store.         *)
(***************************************************************************)
EXTENDS StoreRows, FiniteSetTheorems, TLAPS

RowsTyped(s) ==
    /\ {"api_keys", "proxies", "core_profiles", "system_config"} \subseteq DOMAIN s
    /\ IsList(s.api_keys, Nat) /\ IsList(s.proxies, ProxyRow)
    /\ IsList(s.core_profiles, ProfileRow) /\ s.system_config \in Nat

(* Profiles and managed proxies name each other, but a profile may be new. *)
Matched(s) ==
    /\ \A c \in Profiles(s) :
         LET p == s.core_profiles.rows[c].proxy IN
         p # 0 => p \in Managed(s) /\ s.proxies.rows[p].ref = c
    /\ \A p \in Managed(s) :
         /\ s.proxies.rows[p].ref \in Profiles(s)
         /\ s.core_profiles.rows[s.proxies.rows[p].ref].proxy = p

(* What every mutator that admins use keeps: the rows are typed, the other *)
(* files stay, no proxy id is given out twice, and where bindings resolved *)
(* the new ones resolve in the old proxies as well as in the new.          *)
Unlisted(s, u) == DOMAIN u = DOMAIN s /\ \A f \in DOMAIN s \ DOMAIN DefaultRows : u[f] = s[f]
Follows(s, u) ==
    /\ RowsTyped(u) /\ Unlisted(s, u)
    /\ s.proxies.next <= u.proxies.next
    /\ BindingsResolved(s) => \A k \in Keys(u) :
         u.api_keys.rows[k] = 0 \/ u.api_keys.rows[k] \in Proxies(s) \cap Proxies(u)

---------------------------------------------------------------------------
(* Numbers *)

(* A set of numbers has a least one.                                       *)
LEMMA Least ==
    ASSUME NEW S \in SUBSET Nat, S # {}
    PROVE  \E m \in S : \A n \in S : m <= n
<1>1. PICK m \in S : \A n \in S : ~(<<n, m>> \in OpToRel(<, Nat))
  BY NatLessThanWellFounded, WFMin
<1>2. ASSUME NEW n \in S PROVE m <= n
  <2>1. ~(<<n, m>> \in {ss \in Nat \X Nat : ss[1] < ss[2]})
    BY <1>1 DEF OpToRel
  <2>2. <<n, m>> \in {ss \in Nat \X Nat : ss[1] < ss[2]} <=> n < m
    OBVIOUS
  <2>. QED
    BY <2>1, <2>2
<1>. QED
  BY <1>2

(* A bounded one has a greatest.                                           *)
LEMMA Greatest ==
    ASSUME NEW S \in SUBSET Nat, S # {}, NEW b \in Nat, \A n \in S : n <= b
    PROVE  \E m \in S : \A n \in S : n <= m
<1>. DEFINE T == {b - n : n \in S}
<1>1. T \in SUBSET Nat /\ T # {}
  <2>1. \A n \in S : n \in Nat /\ b - n \in Nat
    OBVIOUS
  <2>. QED
    BY <2>1
<1>2. PICK t \in T : \A u \in T : t <= u
  BY <1>1, Least
<1>3. PICK m \in S : t = b - m
  OBVIOUS
<1>4. ASSUME NEW n \in S PROVE n <= m
  <2>1. b - n \in T
    OBVIOUS
  <2>2. b - m <= b - n
    BY <1>2, <1>3, <2>1
  <2>. QED
    BY <2>2
<1>. QED
  BY <1>4

(* The rank of a member is below the number of members, and grows.         *)
LEMMA Ranks ==
    ASSUME NEW N \in SUBSET Nat, IsFiniteSet(N)
    PROVE  /\ \A c \in Nat : Cardinality({e \in N : e < c}) \in Nat
           /\ \A c \in N : Cardinality({e \in N : e < c}) < Cardinality(N)
           /\ \A c \in N, d \in Nat : c < d =>
                Cardinality({e \in N : e < c}) < Cardinality({e \in N : e < d})
<1>. DEFINE Below(c) == {e \in N : e < c}
<1>1. ASSUME NEW T \in SUBSET N PROVE IsFiniteSet(T) /\ Cardinality(T) \in Nat
  BY <1>1, FS_Subset, FS_CardinalityType
<1>2. ASSUME NEW T \in SUBSET N, NEW U \in SUBSET T, U # T PROVE Cardinality(U) < Cardinality(T)
  <2>1. IsFiniteSet(T) /\ Cardinality(T) \in Nat /\ Cardinality(U) \in Nat
    BY <1>1
  <2>2. Cardinality(U) <= Cardinality(T) /\ Cardinality(T) # Cardinality(U)
    BY <1>2, <2>1, FS_Subset
  <2>. QED
    BY <2>1, <2>2
<1>3. \A c \in Nat : Cardinality(Below(c)) \in Nat
  BY <1>1
<1>4. ASSUME NEW c \in N PROVE Cardinality(Below(c)) < Cardinality(N)
  <2>1. Below(c) # N /\ Below(c) \subseteq N
    OBVIOUS
  <2>. QED
    BY <1>2, <2>1
<1>5. ASSUME NEW c \in N, NEW d \in Nat, c < d PROVE Cardinality(Below(c)) < Cardinality(Below(d))
  <2>0. c \in Nat /\ c \in Below(d) /\ c \notin Below(c)
    BY <1>5
  <2>1. Below(c) \subseteq Below(d) /\ Below(c) # Below(d) /\ Below(d) \subseteq N
    <3>1. \A e \in N : e < c => e < d
      BY <1>5, <2>0
    <3>. QED
      BY <2>0, <3>1
  <2>. QED
    BY <1>2, <2>1
<1>. QED
  BY <1>3, <1>4, <1>5

(* Numbers that count in the members of a set are as many as they are.     *)
LEMMA Numbered ==
    ASSUME NEW N \in SUBSET Nat, IsFiniteSet(N), NEW from \in Nat
    PROVE  Cardinality({from + Cardinality({e \in N : e < c}) : c \in N}) = Cardinality(N)
<1>. DEFINE number == [c \in N |-> from + Cardinality({e \in N : e < c})]
            T == {from + Cardinality({e \in N : e < c}) : c \in N}
<1>1. \A c, d \in N : number[c] = number[d] => c = d
  <2>1. ASSUME NEW c \in N, NEW d \in N, c < d PROVE number[c] # number[d]
    <3>1. /\ Cardinality({e \in N : e < c}) < Cardinality({e \in N : e < d})
          /\ Cardinality({e \in N : e < c}) \in Nat /\ Cardinality({e \in N : e < d}) \in Nat
      BY <2>1, Ranks
    <3>. QED
      BY <3>1
  <2>2. \A c, d \in N : c = d \/ c < d \/ d < c
    OBVIOUS
  <2>. HIDE DEF number
  <2>. QED
    BY <2>1, <2>2
<1>2. number \in Bijection(N, T)
  <2>1. number \in [N -> T] /\ \A t \in T : \E c \in N : number[c] = t
    OBVIOUS
  <2>. QED
    BY <1>1, <2>1 DEF Bijection, Injection, Surjection, IsInjective
<1>. QED
  BY <1>2, FS_Bijection DEF ExistsBijection

---------------------------------------------------------------------------
(* Ports *)

FreeUpTo(P, f) == {g \in 1 .. f : g \notin P}

(* The numbers from 1 that are not taken: there is an n-th one.            *)
LEMMA NthFree ==
    ASSUME NEW P, IsFiniteSet(P), NEW k \in Nat, Cardinality(P) <= k, NEW n \in Nat \ {0}
    PROVE  \E f \in 1 .. 1 + k + n : f \notin P /\ Cardinality(FreeUpTo(P, f)) = n
<1>. DEFINE Left(f) == {g \in 1 .. f : g \notin P}
            Enough == {f \in Nat : n <= Cardinality(Left(f))}
            far == 1 + k + n
<1>1. ASSUME NEW f \in Nat PROVE IsFiniteSet(Left(f)) /\ Cardinality(Left(f)) \in Nat
  <2>1. IsFiniteSet(1 .. f) /\ Left(f) \in SUBSET (1 .. f)
    BY FS_Interval
  <2>. QED
    BY <2>1, FS_Subset, FS_CardinalityType
<1>2. far \in Enough
  <2>1. IsFiniteSet(1 .. far) /\ Cardinality(1 .. far) = far
    BY FS_Interval
  <2>2. Left(far) = (1 .. far) \ P
    OBVIOUS
  <2>3. Cardinality(Left(far)) = far - Cardinality((1 .. far) \cap P)
    BY <2>1, <2>2, FS_Difference
  <2>4. Cardinality((1 .. far) \cap P) <= Cardinality(P) /\ Cardinality((1 .. far) \cap P) \in Nat
    BY <2>1, FS_Intersection, FS_CardinalityType
  <2>5. Cardinality(P) \in Nat
    BY FS_CardinalityType
  <2>. QED
    BY <2>3, <2>4, <2>5
<1>3. Enough \in SUBSET Nat /\ Enough # {}
  BY <1>2
<1>4. PICK f \in Enough : \A g \in Enough : f <= g
  BY <1>3, Least
<1>5. f \in Nat /\ f <= far /\ n <= Cardinality(Left(f))
  BY <1>2, <1>4
<1>6. f # 0
  <2>1. Left(0) = {}
    OBVIOUS
  <2>. QED
    BY <1>5, <2>1, FS_EmptySet
<1>7. f - 1 \in Nat /\ f - 1 \notin Enough
  BY <1>4, <1>5, <1>6
<1>8. Cardinality(Left(f - 1)) < n
  BY <1>1, <1>7
<1>9. CASE f \in P
  <2>1. Left(f) = Left(f - 1)
    BY <1>5, <1>6, <1>9
  <2>. QED
    BY <1>5, <1>8, <2>1, <1>1, <1>7
<1>10. CASE f \notin P
  <2>1. Left(f) = Left(f - 1) \cup {f}
    BY <1>5, <1>6, <1>10
  <2>2. f \notin Left(f - 1)
    BY <1>5
  <2>3. Cardinality(Left(f)) = Cardinality(Left(f - 1)) + 1
    BY <1>1, <1>7, <2>1, <2>2, FS_AddElement
  <2>4. Cardinality(Left(f)) = n
    BY <1>1, <1>5, <1>7, <1>8, <2>3
  <2>5. f \in 1 .. far
    BY <1>5, <1>6
  <2>. QED
    BY <1>10, <2>4, <2>5 DEF FreeUpTo
<1>. QED
  BY <1>9, <1>10

(* Rows are finitely many, and ids and ports are numbers.                  *)
LEMMA FinitelyMany ==
    ASSUME NEW s, RowsTyped(s)
    PROVE  /\ IsFiniteSet(Profiles(s)) /\ Profiles(s) \in SUBSET Nat
           /\ IsFiniteSet(Proxies(s)) /\ Proxies(s) \in SUBSET Nat
           /\ IsFiniteSet(PortsOf(s)) /\ Cardinality(PortsOf(s)) <= Cardinality(Profiles(s))
<1>1. /\ s.core_profiles.next \in Nat /\ s.proxies.next \in Nat
      /\ \A c \in Profiles(s) : c \in Nat /\ c <= s.core_profiles.next
      /\ \A p \in Proxies(s) : p \in Nat /\ p <= s.proxies.next
  BY DEF RowsTyped, IsList, Profiles, Proxies
<1>2. Profiles(s) \in SUBSET Nat /\ Proxies(s) \in SUBSET Nat
  BY <1>1
<1>3. IsFiniteSet(Profiles(s)) /\ IsFiniteSet(Proxies(s))
  BY <1>1, <1>2, FS_BoundedSetOfNaturals
<1>. DEFINE port == [c \in Profiles(s) |-> s.core_profiles.rows[c].port]
            P == {s.core_profiles.rows[c].port : c \in Profiles(s)}
<1>4. port \in Surjection(Profiles(s), P)
  BY DEF Surjection
<1>5. IsFiniteSet(P) /\ Cardinality(P) <= Cardinality(Profiles(s))
  BY <1>3, <1>4, FS_Surjection
<1>6. PortsOf(s) \in SUBSET P
  BY DEF PortsOf
<1>7. IsFiniteSet(PortsOf(s)) /\ Cardinality(PortsOf(s)) <= Cardinality(P)
  BY <1>5, <1>6, FS_Subset
<1>8. Cardinality(PortsOf(s)) \in Nat /\ Cardinality(P) \in Nat /\ Cardinality(Profiles(s)) \in Nat
  BY <1>3, <1>5, <1>7, FS_CardinalityType
<1>. QED
  BY <1>2, <1>3, <1>5, <1>7, <1>8

(* The n-th free port is free, and no other number's.                      *)
LEMMA FreePort ==
    ASSUME NEW s, RowsTyped(s), NEW n \in Nat \ {0}
    PROVE  LET f == NthFreePort(s, n) IN
           /\ f \in Nat \ {0} /\ f \notin PortsOf(s)
           /\ Cardinality({g \in FirstPort .. f : g \notin PortsOf(s)}) = n
<1>. DEFINE k == Cardinality(Profiles(s))
            Is(f) == /\ f \notin PortsOf(s)
                     /\ Cardinality({g \in FirstPort .. f : g \notin PortsOf(s)}) = n
<1>1. /\ k \in Nat /\ IsFiniteSet(PortsOf(s)) /\ Cardinality(PortsOf(s)) <= k
  BY FinitelyMany, FS_CardinalityType
<1>2. \E f \in 1 .. 1 + k + n : f \notin PortsOf(s) /\ Cardinality(FreeUpTo(PortsOf(s), f)) = n
  <2>. HIDE DEF k, Is
  <2>. QED
    BY <1>1, NthFree
<1>3. \E f \in FirstPort .. FirstPort + k + n : Is(f)
  BY <1>2 DEF FirstPort, FreeUpTo
<1>. DEFINE f == CHOOSE x \in FirstPort .. FirstPort + k + n : Is(x)
<1>4. f \in FirstPort .. FirstPort + k + n /\ Is(f)
  BY <1>3
<1>5. f = NthFreePort(s, n)
  BY DEF NthFreePort
<1>6. f \in Nat \ {0}
  <2>1. f \in FirstPort .. FirstPort + k + n
    BY <1>4
  <2>. HIDE DEF f, k
  <2>. QED
    BY <1>1, <2>1 DEF FirstPort
<1>. QED
  BY <1>4, <1>5, <1>6

---------------------------------------------------------------------------
(* Profiles alone *)

(* New contents of the profiles' rows, which stay typed.                   *)
LEMMA ProfilesPut ==
    ASSUME NEW s, RowsTyped(s), NEW rows, DOMAIN rows = Profiles(s),
           \A c \in Profiles(s) : rows[c] \in ProfileRow
    PROVE  LET a == [s EXCEPT !.core_profiles.rows = rows] IN
           /\ RowsTyped(a) /\ a.core_profiles.rows = rows /\ Profiles(a) = Profiles(s)
           /\ a.proxies = s.proxies /\ a.api_keys = s.api_keys /\ Managed(a) = Managed(s)
           /\ Unlisted(s, a)
<1>. DEFINE a == [s EXCEPT !.core_profiles.rows = rows]
<1>1. /\ DOMAIN a = DOMAIN s /\ a.proxies = s.proxies /\ a.api_keys = s.api_keys
      /\ a.system_config = s.system_config
      /\ a.core_profiles = [s.core_profiles EXCEPT !.rows = rows]
  BY DEF RowsTyped
<1>2. /\ DOMAIN a.core_profiles = DOMAIN s.core_profiles /\ a.core_profiles.rows = rows
      /\ a.core_profiles.next = s.core_profiles.next
  BY <1>1 DEF RowsTyped, IsList
<1>. HIDE DEF a
<1>3. RowsTyped(a)
  BY <1>1, <1>2 DEF RowsTyped, IsList, Profiles
<1>4. Unlisted(s, a)
  BY DEF Unlisted, DefaultRows, a
<1>. QED
  BY <1>1, <1>2, <1>3, <1>4 DEF Profiles, Managed, Proxies, a

(* Whatever else happens to profiles that keep their proxies: they match.  *)
LEMMA StillMatched ==
    ASSUME NEW s, NEW a, Matched(s), Profiles(a) = Profiles(s), a.proxies = s.proxies,
           \A c \in Profiles(s) : a.core_profiles.rows[c].proxy = s.core_profiles.rows[c].proxy
    PROVE  Matched(a)
BY DEF Matched, Managed, Proxies

DistinctPorts(s) ==
    \A c, d \in Profiles(s) : s.core_profiles.rows[c].port = s.core_profiles.rows[d].port => c = d

(* After the allocation every profile has a port of its own, and nothing   *)
(* else is changed.                                                        *)
LEMMA PortsAllocated ==
    ASSUME NEW s, RowsTyped(s)
    PROVE  LET a == AllocatePorts(s) IN
           /\ RowsTyped(a) /\ Profiles(a) = Profiles(s) /\ DistinctPorts(a)
           /\ a.proxies = s.proxies /\ a.api_keys = s.api_keys
           /\ \A c \in Profiles(s) :
                a.core_profiles.rows[c].proxy = s.core_profiles.rows[c].proxy
           /\ Unlisted(s, a)
<1>. DEFINE row(c) == s.core_profiles.rows[c]
            nth(c) == Cardinality({d \in Movers(s) : d <= c})
            port(c) == NthFreePort(s, nth(c))
            rows == [c \in Profiles(s) |-> IF KeepsPort(s, c) THEN row(c)
                                           ELSE [row(c) EXCEPT !.port = port(c)]]
            a == AllocatePorts(s)
<1>1. a = [s EXCEPT !.core_profiles.rows = rows]
  BY DEF AllocatePorts, Profiles
<1>2. \A c \in Profiles(s) : c \in Nat /\ row(c) \in ProfileRow
  BY DEF RowsTyped, IsList, Profiles
<1>3. ASSUME NEW c \in Movers(s) PROVE nth(c) \in Nat \ {0}
  <2>1. Movers(s) \in SUBSET Profiles(s) /\ c \in Nat
    BY <1>2 DEF Movers
  <2>2. {d \in Movers(s) : d <= c} \in SUBSET Profiles(s) /\ c \in {d \in Movers(s) : d <= c}
    BY <2>1
  <2>3. IsFiniteSet({d \in Movers(s) : d <= c})
    BY <2>2, FinitelyMany, FS_Subset
  <2>. QED
    BY <2>2, <2>3, FS_EmptySet, FS_CardinalityType
<1>4. ASSUME NEW c \in Movers(s)
      PROVE  /\ port(c) \in Nat \ {0} /\ port(c) \notin PortsOf(s)
             /\ Cardinality({g \in FirstPort .. port(c) : g \notin PortsOf(s)}) = nth(c)
  BY <1>3, FreePort
<1>5. ASSUME NEW c \in Movers(s), NEW d \in Movers(s), c < d PROVE nth(c) # nth(d)
  <2>. DEFINE C == {e \in Movers(s) : e <= c}
              D == {e \in Movers(s) : e <= d}
  <2>1. Movers(s) \in SUBSET Profiles(s) /\ c \in Nat /\ d \in Nat /\ \A e \in Movers(s) : e \in Nat
    BY <1>2 DEF Movers
  <2>2. D \in SUBSET Profiles(s) /\ C \in SUBSET D /\ d \in D /\ d \notin C
    <3>1. \A e \in Movers(s) : e <= c => e <= d
      BY <1>5, <2>1
    <3>2. ~(d <= c) /\ d <= d
      BY <1>5, <2>1
    <3>. QED
      BY <2>1, <3>1, <3>2
  <2>3. IsFiniteSet(D)
    BY <2>2, FinitelyMany, FS_Subset
  <2>. QED
    BY <2>2, <2>3, FS_Subset
<1>6. \A c, d \in Movers(s) : port(c) = port(d) => c = d
  <2>1. \A c, d \in Movers(s) : c < d => port(c) # port(d)
    BY <1>4, <1>5
  <2>2. \A c, d \in Movers(s) : c < d \/ d < c \/ c = d
    BY <1>2 DEF Movers
  <2>. HIDE DEF port
  <2>. QED
    BY <2>1, <2>2
<1>. HIDE DEF port, nth
<1>7. \A c \in Profiles(s) :
        /\ rows[c] \in ProfileRow /\ rows[c].proxy = row(c).proxy
        /\ c \in Movers(s) => rows[c].port = port(c)
        /\ c \notin Movers(s) => rows[c].port = row(c).port /\ KeepsPort(s, c)
  BY <1>2, <1>4 DEF ProfileRow, Movers
<1>. HIDE DEF rows
<1>8. DOMAIN rows = Profiles(s)
  BY DEF rows
<1>9. /\ RowsTyped(a) /\ a.core_profiles.rows = rows /\ Profiles(a) = Profiles(s)
      /\ a.proxies = s.proxies /\ a.api_keys = s.api_keys /\ Unlisted(s, a)
  BY <1>1, <1>7, <1>8, ProfilesPut
<1>10. \A c, d \in Profiles(s) : rows[c].port = rows[d].port => c = d
  <2>1. ASSUME NEW c \in Profiles(s), NEW d \in Profiles(s), c \notin Movers(s), d \notin Movers(s),
               row(c).port = row(d).port
        PROVE  c = d
    BY <1>2, <2>1, <1>7 DEF KeepsPort
  <2>2. ASSUME NEW c \in Movers(s), NEW d \in Profiles(s), d \notin Movers(s)
        PROVE  port(c) # row(d).port
    <3>1. row(d).port \in PortsOf(s)
      BY <1>7, <2>2 DEF KeepsPort, PortsOf
    <3>. QED
      BY <1>4, <3>1
  <2>. QED
    BY <1>6, <1>7, <2>1, <2>2
<1>. QED
  BY <1>7, <1>9, <1>10 DEF DistinctPorts

(* Disabling what does not fit changes neither ports nor proxies.          *)
LEMMA Disabled ==
    ASSUME NEW s, RowsTyped(s)
    PROVE  LET a == DisableIncompatible(s) IN
           /\ RowsTyped(a) /\ Profiles(a) = Profiles(s)
           /\ a.proxies = s.proxies /\ a.api_keys = s.api_keys
           /\ \A c \in Profiles(s) :
                /\ a.core_profiles.rows[c].proxy = s.core_profiles.rows[c].proxy
                /\ a.core_profiles.rows[c].port = s.core_profiles.rows[c].port
           /\ Unlisted(s, a)
<1>. DEFINE row(c) == s.core_profiles.rows[c]
            rows == [c \in Profiles(s) |-> [row(c) EXCEPT !.on = @ /\ row(c).fits]]
<1>1. DisableIncompatible(s) = [s EXCEPT !.core_profiles.rows = rows]
  BY DEF DisableIncompatible, Profiles
<1>2. \A c \in Profiles(s) : row(c) \in ProfileRow
  BY DEF RowsTyped, IsList, Profiles
<1>3. \A c \in Profiles(s) :
        rows[c] \in ProfileRow /\ rows[c].proxy = row(c).proxy /\ rows[c].port = row(c).port
  BY <1>2 DEF ProfileRow
<1>. HIDE DEF rows
<1>4. DOMAIN rows = Profiles(s)
  BY DEF rows
<1>. DEFINE a == DisableIncompatible(s)
<1>5. /\ RowsTyped(a) /\ a.core_profiles.rows = rows /\ Profiles(a) = Profiles(s)
      /\ a.proxies = s.proxies /\ a.api_keys = s.api_keys /\ Unlisted(s, a)
  BY <1>1, <1>3, <1>4, ProfilesPut
<1>. QED
  BY <1>3, <1>5

---------------------------------------------------------------------------
(* Managed proxies *)

(* The parts of SyncManagedProxies.                                        *)
ProxiesOf(s) == [c \in Profiles(s) |-> ProxyOf(s, c)]
NewIds(s) == Range(ProxiesOf(s)) \ Proxies(s)
OwnerOf(s, p) ==
    CHOOSE c \in Profiles(s) :
        /\ ProxiesOf(s)[c] = p
        /\ \A d \in Profiles(s) : ProxiesOf(s)[d] = p => d <= c
ManagedRow(s, p) ==
    [by |-> "xray", ref |-> OwnerOf(s, p), port |-> s.core_profiles.rows[OwnerOf(s, p)].port,
     on |-> s.core_profiles.rows[OwnerOf(s, p)].on,
     test |-> IF p \in NewIds(s) THEN "none" ELSE s.proxies.rows[p].test]
Orphans(s) ==
    {p \in Managed(s) \ Range(ProxiesOf(s)) : s.proxies.rows[p].ref \notin Profiles(s)}
ProxyRowsOf(s) ==
    [p \in (Proxies(s) \cup NewIds(s)) \ Orphans(s) |->
        IF p \in Range(ProxiesOf(s)) THEN ManagedRow(s, p) ELSE s.proxies.rows[p]]

(* Profiles that have no proxy to keep.                                    *)
Owned(s, c) == {p \in Managed(s) : s.proxies.rows[p].ref = c}
Lost(s) == {c \in Profiles(s) : s.core_profiles.rows[c].proxy \notin Proxies(s) /\ Owned(s, c) = {}}

(* What the parts make up.                                                 *)
LEMMA SyncParts ==
    ASSUME NEW s, RowsTyped(s)
    PROVE  LET a == SyncManagedProxies(s) IN
           /\ DOMAIN a = DOMAIN s /\ a.system_config = s.system_config
           /\ a.proxies = [next |-> s.proxies.next + Cardinality(NewIds(s)), rows |-> ProxyRowsOf(s)]
           /\ DOMAIN a.core_profiles = DOMAIN s.core_profiles
           /\ a.core_profiles.next = s.core_profiles.next
           /\ a.core_profiles.rows =
                [c \in Profiles(s) |-> [s.core_profiles.rows[c] EXCEPT !.proxy = ProxiesOf(s)[c]]]
           /\ DOMAIN a.api_keys = DOMAIN s.api_keys /\ a.api_keys.next = s.api_keys.next
           /\ a.api_keys.rows =
                [k \in Keys(s) |-> IF s.api_keys.rows[k] \in Orphans(s) THEN 0 ELSE s.api_keys.rows[k]]
           /\ Unlisted(s, a)
<1>. DEFINE rows == [c \in Profiles(s) |-> [s.core_profiles.rows[c] EXCEPT !.proxy = ProxiesOf(s)[c]]]
            list == [next |-> s.proxies.next + Cardinality(NewIds(s)), rows |-> ProxyRowsOf(s)]
            b == [s EXCEPT !.proxies = list, !.core_profiles.rows = rows]
<1>1. SyncManagedProxies(s) = Unbind(b, Orphans(s))
  BY DEF SyncManagedProxies, ProxiesOf, NewIds, OwnerOf, ManagedRow, Orphans, ProxyRowsOf, Profiles
<1>. HIDE DEF rows, list
<1>2. /\ DOMAIN b = DOMAIN s /\ b.system_config = s.system_config /\ b.proxies = list
      /\ b.api_keys = s.api_keys /\ b.core_profiles = [s.core_profiles EXCEPT !.rows = rows]
      /\ \A f \in DOMAIN s \ DOMAIN DefaultRows : b[f] = s[f]
  BY DEF RowsTyped, DefaultRows
<1>. HIDE DEF b
<1>3. /\ DOMAIN b.core_profiles = DOMAIN s.core_profiles
      /\ b.core_profiles.next = s.core_profiles.next /\ b.core_profiles.rows = rows
  BY <1>2 DEF RowsTyped, IsList
<1>. DEFINE keys == [k \in Keys(s) |-> IF s.api_keys.rows[k] \in Orphans(s) THEN 0 ELSE s.api_keys.rows[k]]
            a == [b EXCEPT !.api_keys.rows = keys]
<1>4. Unbind(b, Orphans(s)) = a
  BY <1>2 DEF Unbind, Keys
<1>. HIDE DEF keys
<1>5. /\ DOMAIN a = DOMAIN b /\ a.system_config = b.system_config /\ a.proxies = b.proxies
      /\ a.core_profiles = b.core_profiles /\ a.api_keys = [s.api_keys EXCEPT !.rows = keys]
      /\ \A f \in DOMAIN s \ DOMAIN DefaultRows : a[f] = b[f]
  BY <1>2 DEF RowsTyped, DefaultRows
<1>6. /\ DOMAIN a.api_keys = DOMAIN s.api_keys /\ a.api_keys.next = s.api_keys.next
      /\ a.api_keys.rows = keys
  BY <1>5 DEF RowsTyped, IsList
<1>7. Unlisted(s, a)
  BY <1>2, <1>5 DEF Unlisted
<1>. QED
  BY <1>1, <1>2, <1>3, <1>4, <1>5, <1>6, <1>7 DEF rows, list, keys

(* A profile keeps its proxy, or gets one of the next numbers, its own.    *)
LEMMA ProxyNumbers ==
    ASSUME NEW s, RowsTyped(s)
    PROVE  /\ \A c \in Profiles(s) \ Lost(s) : ProxiesOf(s)[c] \in Proxies(s)
           /\ \A c \in Lost(s) : ProxiesOf(s)[c] \in NewIds(s)
           /\ \A c, d \in Lost(s) : ProxiesOf(s)[c] = ProxiesOf(s)[d] => c = d
           /\ Cardinality(NewIds(s)) \in Nat
           /\ \A p \in NewIds(s) :
                p \in Nat /\ s.proxies.next <= p /\ p < s.proxies.next + Cardinality(NewIds(s))
<1>. DEFINE rank(c) == Cardinality({d \in Lost(s) : d < c})
            next == s.proxies.next
<1>1. /\ Lost(s) \in SUBSET Nat /\ IsFiniteSet(Lost(s)) /\ next \in Nat \ {0}
      /\ \A p \in Proxies(s) : p \in Nat /\ p < next
  <2>1. Lost(s) \in SUBSET Profiles(s)
    BY DEF Lost
  <2>2. next \in Nat \ {0} /\ \A p \in Proxies(s) : p \in Nat /\ p < next
    BY DEF RowsTyped, IsList, Proxies
  <2>. QED
    BY <2>1, <2>2, FinitelyMany, FS_Subset
<1>2. ASSUME NEW c \in Profiles(s) \ Lost(s) PROVE ProxyOf(s, c) \in Proxies(s)
  <2>1. CASE s.core_profiles.rows[c].proxy \in Proxies(s)
    BY <2>1 DEF ProxyOf
  <2>2. CASE s.core_profiles.rows[c].proxy \notin Proxies(s)
    <3>1. Owned(s, c) # {} /\ Owned(s, c) \subseteq Proxies(s)
      BY <2>2 DEF Lost, Owned, Managed
    <3>2. \E p \in Owned(s, c) : \A q \in Owned(s, c) : q <= p
      <4>1. Owned(s, c) \in SUBSET Nat /\ \A p \in Owned(s, c) : p <= next
        BY <1>1, <3>1
      <4>. QED
        BY <1>1, <3>1, <4>1, Greatest
    <3>3. ProxyOf(s, c) = CHOOSE p \in Owned(s, c) : \A q \in Owned(s, c) : q <= p
      BY <2>2, <3>1 DEF ProxyOf, Owned
    <3>4. ProxyOf(s, c) \in Owned(s, c)
      BY <3>2, <3>3
    <3>. QED
      BY <3>1, <3>4
  <2>. QED
    BY <2>1, <2>2
<1>3. ASSUME NEW c \in Lost(s) PROVE ProxyOf(s, c) = next + rank(c)
  <2>1. {d \in Profiles(s) : d < c /\ ~(s.core_profiles.rows[d].proxy \in Proxies(s) \/ Owned(s, d) # {})}
        = {d \in Lost(s) : d < c}
    BY DEF Lost
  <2>2. s.core_profiles.rows[c].proxy \notin Proxies(s) /\ Owned(s, c) = {}
    BY DEF Lost
  <2>. QED
    BY <2>1, <2>2 DEF ProxyOf, Owned
<1>4. \A c \in Lost(s) : rank(c) \in Nat /\ rank(c) < Cardinality(Lost(s))
  BY <1>1, Ranks
<1>5. \A c, d \in Lost(s) : rank(c) = rank(d) => c = d
  <2>1. \A c, d \in Lost(s) : c < d => rank(c) < rank(d)
    BY <1>1, Ranks
  <2>2. \A c, d \in Lost(s) : c < d \/ d < c \/ c = d
    BY <1>1
  <2>. HIDE DEF rank
  <2>. QED
    BY <1>4, <2>1, <2>2
<1>6. NewIds(s) = {next + rank(c) : c \in Lost(s)}
  <2>1. \A c \in Lost(s) : c \in Profiles(s) /\ next + rank(c) \notin Proxies(s)
    <3>1. ASSUME NEW c \in Lost(s), next + rank(c) \in Proxies(s) PROVE FALSE
      BY <1>1, <1>4, <3>1
    <3>. QED
      BY <3>1 DEF Lost
  <2>. HIDE DEF rank, next
  <2>. QED
    BY <1>2, <1>3, <2>1 DEF NewIds, ProxiesOf, Range
<1>7. Cardinality(NewIds(s)) = Cardinality(Lost(s))
  BY <1>1, <1>6, Numbered
<1>8. Cardinality(Lost(s)) \in Nat
  BY <1>1, FS_CardinalityType
<1>9. \A c \in Lost(s) : ProxiesOf(s)[c] = next + rank(c)
  BY <1>3 DEF ProxiesOf, Lost
<1>. HIDE DEF rank
<1>10. \A p \in NewIds(s) : p \in Nat /\ next <= p /\ p < next + Cardinality(NewIds(s))
  BY <1>1, <1>4, <1>6, <1>7, <1>8
<1>11. \A c, d \in Lost(s) : ProxiesOf(s)[c] = ProxiesOf(s)[d] => c = d
  BY <1>1, <1>4, <1>5, <1>9
<1>12. \A c \in Profiles(s) \ Lost(s) : ProxiesOf(s)[c] \in Proxies(s)
  BY <1>2 DEF ProxiesOf
<1>. QED
  BY <1>6, <1>7, <1>8, <1>9, <1>10, <1>11, <1>12

(* A proxy that is some profile's has an owner.                            *)
LEMMA OwnerFound ==
    ASSUME NEW s, RowsTyped(s), NEW p \in Range(ProxiesOf(s))
    PROVE  OwnerOf(s, p) \in Profiles(s) /\ ProxiesOf(s)[OwnerOf(s, p)] = p
<1>. DEFINE C == {c \in Profiles(s) : ProxiesOf(s)[c] = p}
<1>1. C # {}
  BY DEF Range, ProxiesOf
<1>2. C \in SUBSET Nat /\ s.core_profiles.next \in Nat /\ \A c \in C : c <= s.core_profiles.next
  BY DEF RowsTyped, IsList, Profiles
<1>3. \E c \in C : \A d \in C : d <= c
  BY <1>1, <1>2, Greatest
<1>4. \E c \in Profiles(s) :
        ProxiesOf(s)[c] = p /\ \A d \in Profiles(s) : ProxiesOf(s)[d] = p => d <= c
  BY <1>3
<1>. QED
  BY <1>4 DEF OwnerOf

(* A sync leaves typed rows, and gives out new numbers only.               *)
LEMMA SyncTyped ==
    ASSUME NEW s, RowsTyped(s)
    PROVE  /\ RowsTyped(SyncManagedProxies(s))
           /\ s.proxies.next <= SyncManagedProxies(s).proxies.next
           /\ Profiles(SyncManagedProxies(s)) = Profiles(s)
           /\ Follows(s, SyncManagedProxies(s))
<1>. DEFINE a == SyncManagedProxies(s)
            rows == [c \in Profiles(s) |-> [s.core_profiles.rows[c] EXCEPT !.proxy = ProxiesOf(s)[c]]]
            keys == [k \in Keys(s) |-> IF s.api_keys.rows[k] \in Orphans(s) THEN 0 ELSE s.api_keys.rows[k]]
<1>1. /\ s.proxies.next \in Nat \ {0} /\ s.core_profiles.next \in Nat \ {0}
      /\ \A p \in Proxies(s) : p \in Nat \ {0} /\ p < s.proxies.next /\ s.proxies.rows[p] \in ProxyRow
      /\ \A c \in Profiles(s) : /\ c \in Nat \ {0} /\ c < s.core_profiles.next
                                /\ s.core_profiles.rows[c] \in ProfileRow
  BY DEF RowsTyped, IsList, Proxies, Profiles
<1>2. Range(ProxiesOf(s)) \subseteq Proxies(s) \cup NewIds(s)
  BY DEF NewIds
<1>3. /\ Cardinality(NewIds(s)) \in Nat
      /\ \A p \in NewIds(s) :
            p \in Nat /\ s.proxies.next <= p /\ p < s.proxies.next + Cardinality(NewIds(s))
  BY ProxyNumbers
<1>4. ASSUME NEW p \in Range(ProxiesOf(s)) PROVE ManagedRow(s, p) \in ProxyRow
  <2>1. OwnerOf(s, p) \in Profiles(s)
    BY OwnerFound
  <2>2. /\ OwnerOf(s, p) \in Nat /\ s.core_profiles.rows[OwnerOf(s, p)].port \in Nat
        /\ s.core_profiles.rows[OwnerOf(s, p)].on \in BOOLEAN
    BY <1>1, <2>1 DEF ProfileRow
  <2>3. (IF p \in NewIds(s) THEN "none" ELSE s.proxies.rows[p].test) \in {"none", "good", "bad"}
    BY <1>1, <1>2 DEF ProxyRow
  <2>. QED
    BY <2>2, <2>3 DEF ManagedRow, ProxyRow
<1>. HIDE DEF ManagedRow
<1>5. DOMAIN ProxyRowsOf(s) = (Proxies(s) \cup NewIds(s)) \ Orphans(s)
  BY DEF ProxyRowsOf
<1>6. \A p \in DOMAIN ProxyRowsOf(s) : /\ p \in Nat \ {0} /\ p < s.proxies.next + Cardinality(NewIds(s))
                                       /\ ProxyRowsOf(s)[p] \in ProxyRow
  <2>. SUFFICES ASSUME NEW p \in (Proxies(s) \cup NewIds(s)) \ Orphans(s)
                PROVE  /\ p \in Nat \ {0} /\ p < s.proxies.next + Cardinality(NewIds(s))
                       /\ ProxyRowsOf(s)[p] \in ProxyRow
    BY <1>5
  <2>1. p \in Nat \ {0} /\ p < s.proxies.next + Cardinality(NewIds(s))
    BY <1>1, <1>3
  <2>2. ProxyRowsOf(s)[p] = IF p \in Range(ProxiesOf(s)) THEN ManagedRow(s, p) ELSE s.proxies.rows[p]
    BY DEF ProxyRowsOf
  <2>3. p \in Proxies(s) \/ p \in Range(ProxiesOf(s))
    BY DEF NewIds
  <2>4. ProxyRowsOf(s)[p] \in ProxyRow
    BY <1>1, <1>4, <2>2, <2>3
  <2>. QED
    BY <2>1, <2>4
<1>7. \A c \in Profiles(s) : rows[c] \in ProfileRow
  <2>. SUFFICES ASSUME NEW c \in Profiles(s) PROVE rows[c] \in ProfileRow
    OBVIOUS
  <2>1. ProxiesOf(s)[c] \in Range(ProxiesOf(s))
    BY DEF Range, ProxiesOf
  <2>2. ProxiesOf(s)[c] \in Nat
    BY <1>1, <1>2, <1>3, <2>1
  <2>. QED
    BY <1>1, <2>2 DEF ProfileRow
<1>8. /\ s.api_keys.next \in Nat \ {0}
      /\ \A k \in Keys(s) : k \in Nat \ {0} /\ k < s.api_keys.next /\ keys[k] \in Nat
  BY DEF RowsTyped, IsList, Keys
<1>9. /\ DOMAIN a = DOMAIN s /\ a.system_config = s.system_config
      /\ a.proxies = [next |-> s.proxies.next + Cardinality(NewIds(s)), rows |-> ProxyRowsOf(s)]
      /\ DOMAIN a.core_profiles = DOMAIN s.core_profiles
      /\ a.core_profiles.next = s.core_profiles.next /\ a.core_profiles.rows = rows
      /\ DOMAIN a.api_keys = DOMAIN s.api_keys /\ a.api_keys.next = s.api_keys.next
      /\ a.api_keys.rows = keys
  BY SyncParts
<1>10. DOMAIN rows = Profiles(s) /\ DOMAIN keys = Keys(s)
  OBVIOUS
<1>. HIDE DEF a, rows, keys
<1>11. IsList(a.proxies, ProxyRow)
  BY <1>1, <1>3, <1>6, <1>9 DEF IsList
<1>12. IsList(a.core_profiles, ProfileRow)
  BY <1>1, <1>7, <1>9, <1>10 DEF IsList, RowsTyped
<1>13. IsList(a.api_keys, Nat)
  BY <1>8, <1>9, <1>10 DEF IsList, RowsTyped
<1>14. RowsTyped(a)
  BY <1>9, <1>11, <1>12, <1>13 DEF RowsTyped
<1>15. s.proxies.next <= a.proxies.next
  BY <1>1, <1>3, <1>9
<1>16. Profiles(a) = Profiles(s) /\ Proxies(s) \ Orphans(s) \subseteq Proxies(a)
  BY <1>5, <1>9, <1>10 DEF Profiles, Proxies
<1>17. ASSUME BindingsResolved(s), NEW k \in Keys(a)
       PROVE  a.api_keys.rows[k] = 0 \/ a.api_keys.rows[k] \in Proxies(s) \cap Proxies(a)
  <2>1. k \in Keys(s) /\ a.api_keys.rows[k] = keys[k]
    BY <1>9, <1>10 DEF Keys
  <2>2. s.api_keys.rows[k] = 0 \/ s.api_keys.rows[k] \in Proxies(s)
    BY <1>17, <2>1 DEF BindingsResolved, ValidReference
  <2>3. keys[k] = 0 \/ (keys[k] = s.api_keys.rows[k] /\ keys[k] \notin Orphans(s))
    BY <2>1 DEF keys
  <2>. QED
    BY <1>16, <2>1, <2>2, <2>3
<1>18. Unlisted(s, a)
  BY SyncParts DEF a
<1>19. Follows(s, a)
  BY <1>14, <1>15, <1>17, <1>18 DEF Follows
<1>. QED
  BY <1>14, <1>15, <1>16, <1>19 DEF a

(* Where profiles and managed proxies matched, a sync leaves each profile  *)
(* with a proxy of its own that says what the profile says.                *)
LEMMA SyncMatches ==
    ASSUME NEW s, RowsTyped(s), Matched(s), DistinctPorts(s)
    PROVE  Synced(SyncManagedProxies(s))
<1>. DEFINE a == SyncManagedProxies(s)
            name(c) == s.core_profiles.rows[c].proxy
            P == ProxiesOf(s)
<1>1. /\ \A p \in Proxies(s) : p # 0
      /\ \A c \in Profiles(s) : s.core_profiles.rows[c] \in ProfileRow
  BY DEF RowsTyped, IsList, Proxies, Profiles
<1>2. ASSUME NEW c \in Profiles(s), name(c) # 0
      PROVE  P[c] = name(c) /\ name(c) \in Managed(s) /\ s.proxies.rows[name(c)].ref = c
  <2>1. name(c) \in Managed(s) /\ s.proxies.rows[name(c)].ref = c
    BY <1>2 DEF Matched
  <2>2. name(c) \in Proxies(s)
    BY <2>1 DEF Managed
  <2>. QED
    BY <2>1, <2>2 DEF ProxiesOf, ProxyOf
<1>3. ASSUME NEW c \in Profiles(s), name(c) = 0 PROVE c \in Lost(s) /\ P[c] \in NewIds(s)
  <2>1. \A p \in Owned(s, c) : p \in Proxies(s) /\ name(c) = p
    BY DEF Matched, Owned, Managed
  <2>2. Owned(s, c) = {}
    BY <1>1, <1>3, <2>1
  <2>3. c \in Lost(s)
    BY <1>1, <1>3, <2>2 DEF Lost
  <2>. QED
    BY <2>3, ProxyNumbers
<1>4. \A c, d \in Profiles(s) : P[c] = P[d] => c = d
  <2>. SUFFICES ASSUME NEW c \in Profiles(s), NEW d \in Profiles(s), P[c] = P[d] PROVE c = d
    OBVIOUS
  <2>1. CASE name(c) # 0 /\ name(d) # 0
    BY <1>2, <2>1
  <2>2. CASE name(c) = 0 /\ name(d) = 0
    BY <1>3, <2>2, ProxyNumbers
  <2>3. ASSUME NEW e \in Profiles(s), NEW f \in Profiles(s), name(e) # 0, name(f) = 0 PROVE P[e] # P[f]
    <3>1. P[e] \in Proxies(s) /\ P[f] \notin Proxies(s)
      BY <1>2, <1>3, <2>3 DEF Managed, NewIds
    <3>. QED
      BY <3>1
  <2>. QED
    BY <2>1, <2>2, <2>3
<1>5. DOMAIN P = Profiles(s)
  BY DEF ProxiesOf
<1>6. \A c \in Profiles(s) : P[c] \in Range(P)
  BY <1>5 DEF Range
<1>7. \A c \in Profiles(s) : OwnerOf(s, P[c]) = c
  BY <1>4, <1>6, OwnerFound
<1>8. \A p \in Managed(s) : p \in Range(P)
  <2>. SUFFICES ASSUME NEW p \in Managed(s) PROVE p \in Range(P)
    OBVIOUS
  <2>. DEFINE c == s.proxies.rows[p].ref
  <2>1. c \in Profiles(s) /\ name(c) = p /\ p # 0
    BY <1>1 DEF Matched, Managed
  <2>2. P[c] = p
    BY <1>2, <2>1
  <2>. QED
    BY <1>6, <2>1, <2>2
<1>9. Orphans(s) = {}
  BY <1>8 DEF Orphans
<1>10. /\ a.core_profiles.rows = [c \in Profiles(s) |-> [s.core_profiles.rows[c] EXCEPT !.proxy = P[c]]]
       /\ a.proxies.rows = [p \in Proxies(s) \cup NewIds(s) |->
                              IF p \in Range(P) THEN ManagedRow(s, p) ELSE s.proxies.rows[p]]
  <2>1. /\ a.core_profiles.rows = [c \in Profiles(s) |-> [s.core_profiles.rows[c] EXCEPT !.proxy = P[c]]]
        /\ a.proxies = [next |-> s.proxies.next + Cardinality(NewIds(s)), rows |-> ProxyRowsOf(s)]
    BY SyncParts
  <2>2. (Proxies(s) \cup NewIds(s)) \ Orphans(s) = Proxies(s) \cup NewIds(s)
    BY <1>9
  <2>3. a.proxies.rows = ProxyRowsOf(s)
    BY <2>1
  <2>. QED
    BY <2>1, <2>2, <2>3 DEF ProxyRowsOf
<1>11. /\ Profiles(a) = Profiles(s) /\ Proxies(a) = Proxies(s) \cup NewIds(s)
       /\ \A c \in Profiles(s) :
            /\ a.core_profiles.rows[c].proxy = P[c]
            /\ a.core_profiles.rows[c].port = s.core_profiles.rows[c].port
            /\ a.core_profiles.rows[c].on = s.core_profiles.rows[c].on
  BY <1>1, <1>10 DEF Profiles, Proxies, ProfileRow
<1>12. ASSUME NEW c \in Profiles(s)
       PROVE  /\ P[c] \in Managed(a) /\ a.proxies.rows[P[c]].ref = c
              /\ a.proxies.rows[P[c]].port = s.core_profiles.rows[c].port
              /\ a.proxies.rows[P[c]].on = s.core_profiles.rows[c].on
  <2>1. P[c] \in Proxies(s) \cup NewIds(s) /\ P[c] \in Range(P) /\ OwnerOf(s, P[c]) = c
    BY <1>6, <1>7 DEF NewIds
  <2>2. a.proxies.rows[P[c]] = ManagedRow(s, P[c])
    BY <1>10, <2>1
  <2>3. /\ ManagedRow(s, P[c]).by = "xray" /\ ManagedRow(s, P[c]).ref = c
        /\ ManagedRow(s, P[c]).port = s.core_profiles.rows[c].port
        /\ ManagedRow(s, P[c]).on = s.core_profiles.rows[c].on
    BY <2>1 DEF ManagedRow
  <2>. QED
    BY <1>11, <2>1, <2>2, <2>3 DEF Managed
<1>13. ASSUME NEW p \in Managed(a) PROVE \E c \in Profiles(s) : P[c] = p
  <2>1. p \in Range(P)
    <3>1. CASE p \in NewIds(s)
      BY <3>1 DEF NewIds
    <3>2. CASE p \in Proxies(s) /\ p \notin Range(P)
      BY <1>8, <1>10, <3>2 DEF Managed
    <3>. QED
      BY <1>11, <3>1, <3>2 DEF Managed
  <2>. QED
    BY <1>5, <2>1 DEF Range
<1>. HIDE DEF a, P
<1>14. \A p \in Managed(a) : /\ a.proxies.rows[p].ref \in Profiles(a)
                             /\ a.core_profiles.rows[a.proxies.rows[p].ref].proxy = p
  BY <1>11, <1>12, <1>13
<1>15. \A c \in Profiles(a) :
          LET p == a.core_profiles.rows[c].proxy IN
          /\ p \in Managed(a) /\ a.proxies.rows[p].ref = c
          /\ a.proxies.rows[p].port = a.core_profiles.rows[c].port
          /\ a.proxies.rows[p].on = a.core_profiles.rows[c].on
  BY <1>11, <1>12
<1>16. \A c, d \in Profiles(a) : a.core_profiles.rows[c].port = a.core_profiles.rows[d].port => c = d
  BY <1>11 DEF DistinctPorts
<1>17. Synced(a)
  BY <1>14, <1>15, <1>16 DEF Synced
<1>. QED
  BY <1>17 DEF a

(* syncCoreProfilesForRuntime.                                             *)
LEMMA SyncProfilesTyped ==
    ASSUME NEW s, RowsTyped(s)
    PROVE  /\ RowsTyped(SyncProfiles(s)) /\ Profiles(SyncProfiles(s)) = Profiles(s)
           /\ Matched(s) => Synced(SyncProfiles(s))
           /\ Follows(s, SyncProfiles(s))
<1>. DEFINE a == AllocatePorts(s)
            b == DisableIncompatible(a)
<1>1. /\ RowsTyped(a) /\ Profiles(a) = Profiles(s) /\ DistinctPorts(a) /\ a.proxies = s.proxies
      /\ a.api_keys = s.api_keys /\ Unlisted(s, a)
      /\ \A c \in Profiles(s) : a.core_profiles.rows[c].proxy = s.core_profiles.rows[c].proxy
  BY PortsAllocated
<1>. HIDE DEF a
<1>2. /\ RowsTyped(b) /\ Profiles(b) = Profiles(a) /\ b.proxies = a.proxies
      /\ b.api_keys = a.api_keys /\ Unlisted(a, b)
      /\ \A c \in Profiles(a) :
           /\ b.core_profiles.rows[c].proxy = a.core_profiles.rows[c].proxy
           /\ b.core_profiles.rows[c].port = a.core_profiles.rows[c].port
  BY <1>1, Disabled
<1>. HIDE DEF b
<1>3. DistinctPorts(b) /\ (Matched(s) => Matched(b))
  <2>1. DistinctPorts(b)
    BY <1>1, <1>2 DEF DistinctPorts
  <2>2. Matched(s) => Matched(b)
    BY <1>1, <1>2, StillMatched
  <2>. QED
    BY <2>1, <2>2
<1>4. SyncProfiles(s) = SyncManagedProxies(b)
  BY DEF SyncProfiles, a, b
<1>. DEFINE u == SyncManagedProxies(b)
<1>5. Follows(b, u)
  BY <1>2, SyncTyped
<1>. HIDE DEF u
<1>6. Unlisted(s, u) /\ s.proxies.next <= u.proxies.next
  BY <1>1, <1>2, <1>5 DEF Follows, Unlisted
<1>7. BindingsResolved(s) => BindingsResolved(b) /\ Proxies(b) = Proxies(s)
  BY <1>1, <1>2 DEF BindingsResolved, ValidReference, Keys, Proxies
<1>8. Follows(s, u)
  BY <1>5, <1>6, <1>7 DEF Follows
<1>. QED
  BY <1>1, <1>2, <1>3, <1>4, <1>8, SyncTyped, SyncMatches DEF u

---------------------------------------------------------------------------
(* The handlers of profiles *)

(* What a sync left matches.                                               *)
LEMMA SyncedMatches == ASSUME NEW s, Synced(s) PROVE Matched(s)
BY DEF Synced, Matched

(* A new profile has the next number and no proxy.                         *)
LEMMA ProfileAdded ==
    ASSUME NEW s, RowsTyped(s), NEW port \in Nat, NEW fits \in BOOLEAN
    PROVE  LET a == AddProfileRow(s, port, fits) IN
           RowsTyped(a) /\ (Matched(s) => Matched(a)) /\ Follows(s, a)
<1>. DEFINE row == [proxy |-> 0, port |-> port, on |-> TRUE, fits |-> fits]
            new == s.core_profiles.next
            rows == Put(s.core_profiles.rows, new, row)
            a == AddProfileRow(s, port, fits)
<1>1. row \in ProfileRow /\ row.proxy = 0
  BY DEF ProfileRow
<1>. HIDE DEF row
<1>2. /\ new \in Nat \ {0} /\ new \notin Profiles(s)
      /\ \A c \in Profiles(s) : /\ c \in Nat \ {0} /\ c < new
                                /\ s.core_profiles.rows[c] \in ProfileRow
  BY DEF RowsTyped, IsList, Profiles
<1>3. /\ DOMAIN rows = Profiles(s) \cup {new} /\ rows[new] = row
      /\ \A c \in Profiles(s) : rows[c] = s.core_profiles.rows[c]
  BY <1>2 DEF Put, Profiles
<1>4. /\ DOMAIN a = DOMAIN s /\ a.proxies = s.proxies /\ a.api_keys = s.api_keys
      /\ a.system_config = s.system_config /\ a.core_profiles = [next |-> new + 1, rows |-> rows]
      /\ Unlisted(s, a)
  BY DEF AddProfileRow, Appended, RowsTyped, Unlisted, DefaultRows, row
<1>. HIDE DEF a, rows, new
<1>5. IsList(a.core_profiles, ProfileRow)
  <2>1. \A c \in DOMAIN rows : c \in Nat \ {0} /\ c < new + 1 /\ rows[c] \in ProfileRow
    BY <1>1, <1>2, <1>3
  <2>. QED
    BY <1>2, <1>4, <2>1 DEF IsList
<1>6. RowsTyped(a)
  BY <1>4, <1>5 DEF RowsTyped
<1>7. Profiles(a) = Profiles(s) \cup {new} /\ a.core_profiles.rows = rows /\ Managed(a) = Managed(s)
  BY <1>3, <1>4 DEF Profiles, Managed, Proxies
<1>8. ASSUME Matched(s) PROVE Matched(a)
  BY <1>1, <1>2, <1>3, <1>4, <1>7, <1>8 DEF Matched
<1>9. Follows(s, a)
  BY <1>4, <1>6 DEF Follows, RowsTyped, IsList, BindingsResolved, ValidReference, Keys, Proxies
<1>. QED
  BY <1>6, <1>8, <1>9 DEF a

(* An edited profile keeps its proxy.                                      *)
LEMMA ProfileSet ==
    ASSUME NEW s, RowsTyped(s), NEW c \in Profiles(s), NEW port \in Nat, NEW on \in BOOLEAN
    PROVE  LET a == SetProfile(s, c, port, on) IN
           RowsTyped(a) /\ (Matched(s) => Matched(a))
<1>. DEFINE row(d) == s.core_profiles.rows[d]
            rows == [d \in Profiles(s) |-> IF d = c THEN [row(c) EXCEPT !.port = port, !.on = on]
                                           ELSE row(d)]
            a == SetProfile(s, c, port, on)
<1>1. \A d \in Profiles(s) : row(d) \in ProfileRow
  BY DEF RowsTyped, IsList, Profiles
<1>2. /\ DOMAIN rows = Profiles(s)
      /\ \A d \in Profiles(s) : rows[d] \in ProfileRow /\ rows[d].proxy = row(d).proxy
  BY <1>1 DEF ProfileRow
<1>3. rows = [s.core_profiles.rows EXCEPT ![c] = [s.core_profiles.rows[c] EXCEPT !.port = port, !.on = on]]
  BY DEF Profiles
<1>4. a = [s EXCEPT !.core_profiles.rows = rows]
  BY <1>3 DEF SetProfile
<1>. HIDE DEF rows
<1>5. /\ RowsTyped(a) /\ a.core_profiles.rows = rows /\ Profiles(a) = Profiles(s)
      /\ a.proxies = s.proxies
  BY <1>2, <1>4, ProfilesPut
<1>. HIDE DEF a
<1>6. ASSUME Matched(s) PROVE Matched(a)
  BY <1>2, <1>5, <1>6, StillMatched
<1>. QED
  BY <1>5, <1>6 DEF a

(* A deleted profile takes its proxy with it, and nobody else's.           *)
LEMMA ProfilesDeleted ==
    ASSUME NEW s, RowsTyped(s), NEW cs \in SUBSET Profiles(s)
    PROVE  LET a == DeleteProfileRows(s, cs) IN
           RowsTyped(a) /\ (Matched(s) => Matched(a)) /\ Follows(s, a)
<1>. DEFINE gone == {s.core_profiles.rows[c].proxy : c \in cs \cap Profiles(s)} \ {0}
            profiles == Without(s.core_profiles.rows, cs)
            proxies == Without(s.proxies.rows, gone)
            keys == [k \in Keys(s) |-> IF s.api_keys.rows[k] \in gone THEN 0 ELSE s.api_keys.rows[k]]
            b == [s EXCEPT !.core_profiles.rows = profiles, !.proxies.rows = proxies]
            a == [b EXCEPT !.api_keys.rows = keys]
<1>1. DeleteProfileRows(s, cs) = Unbind(b, gone)
  BY DEF DeleteProfileRows
<1>2. /\ DOMAIN profiles = Profiles(s) \ cs /\ DOMAIN proxies = Proxies(s) \ gone
      /\ \A c \in Profiles(s) \ cs : profiles[c] = s.core_profiles.rows[c]
      /\ \A p \in Proxies(s) \ gone : proxies[p] = s.proxies.rows[p]
  BY DEF Without, Restrict, Profiles, Proxies
<1>3. DOMAIN keys = Keys(s) /\ \A k \in Keys(s) : keys[k] \in {0, s.api_keys.rows[k]}
  OBVIOUS
<1>4. \A c \in cs : s.core_profiles.rows[c].proxy \in gone \cup {0}
  OBVIOUS
<1>5. \A p \in gone : \E c \in cs : p = s.core_profiles.rows[c].proxy /\ p # 0
  OBVIOUS
<1>. HIDE DEF gone, profiles, proxies
<1>6. /\ DOMAIN b = DOMAIN s /\ b.system_config = s.system_config /\ b.api_keys = s.api_keys
      /\ b.core_profiles = [s.core_profiles EXCEPT !.rows = profiles]
      /\ b.proxies = [s.proxies EXCEPT !.rows = proxies]
      /\ \A f \in DOMAIN s \ DOMAIN DefaultRows : b[f] = s[f]
  BY DEF RowsTyped, DefaultRows
<1>7. Unbind(b, gone) = a
  BY <1>6 DEF Unbind, Keys
<1>. HIDE DEF b, keys
<1>8. /\ DOMAIN a = DOMAIN s /\ a.system_config = s.system_config
      /\ a.core_profiles = b.core_profiles /\ a.proxies = b.proxies
      /\ a.api_keys = [s.api_keys EXCEPT !.rows = keys]
      /\ \A f \in DOMAIN s \ DOMAIN DefaultRows : a[f] = s[f]
  BY <1>6 DEF RowsTyped, DefaultRows
<1>. HIDE DEF a
<1>9. IsList(a.core_profiles, ProfileRow) /\ a.core_profiles.rows = profiles
  BY <1>2, <1>6, <1>8 DEF IsList, RowsTyped, Profiles
<1>10. IsList(a.proxies, ProxyRow) /\ a.proxies.rows = proxies
  BY <1>2, <1>6, <1>8 DEF IsList, RowsTyped, Proxies
<1>11. IsList(a.api_keys, Nat)
  BY <1>3, <1>8 DEF IsList, RowsTyped, Keys
<1>12. RowsTyped(a)
  BY <1>8, <1>9, <1>10, <1>11 DEF RowsTyped
<1>13. ASSUME Matched(s) PROVE Matched(a)
  <2>1. Profiles(a) = Profiles(s) \ cs /\ Proxies(a) = Proxies(s) \ gone
    BY <1>2, <1>9, <1>10 DEF Profiles, Proxies
  <2>2. Managed(a) = Managed(s) \ gone
    BY <1>2, <1>10, <2>1 DEF Managed
  <2>3. ASSUME NEW c \in Profiles(s) \ cs, s.core_profiles.rows[c].proxy # 0
        PROVE  s.core_profiles.rows[c].proxy \notin gone
    BY <1>5, <1>13, <2>3 DEF Matched
  <2>4. ASSUME NEW p \in Managed(s) \ gone PROVE s.proxies.rows[p].ref \in Profiles(s) \ cs
    <3>1. /\ s.proxies.rows[p].ref \in Profiles(s) /\ p # 0
          /\ s.core_profiles.rows[s.proxies.rows[p].ref].proxy = p
      BY <1>13 DEF Matched, Managed, RowsTyped, IsList, Proxies
    <3>. QED
      BY <1>4, <3>1
  <2>5. \A p \in Managed(s) \ gone : a.proxies.rows[p] = s.proxies.rows[p]
    BY <1>2, <1>10 DEF Managed
  <2>6. \A c \in Profiles(s) \ cs : a.core_profiles.rows[c] = s.core_profiles.rows[c]
    BY <1>2, <1>9
  <2>. QED
    <3>1. ASSUME NEW c \in Profiles(a), a.core_profiles.rows[c].proxy # 0
          PROVE  /\ a.core_profiles.rows[c].proxy \in Managed(a)
                 /\ a.proxies.rows[a.core_profiles.rows[c].proxy].ref = c
      <4>. DEFINE p == s.core_profiles.rows[c].proxy
      <4>1. c \in Profiles(s) \ cs /\ a.core_profiles.rows[c].proxy = p /\ p # 0
        BY <2>1, <2>6, <3>1
      <4>2. p \in Managed(s) /\ s.proxies.rows[p].ref = c
        BY <1>13, <4>1 DEF Matched
      <4>3. p \in Managed(s) \ gone
        BY <2>3, <4>1, <4>2
      <4>. QED
        BY <2>2, <2>5, <4>1, <4>2, <4>3
    <3>2. ASSUME NEW p \in Managed(a)
          PROVE  /\ a.proxies.rows[p].ref \in Profiles(a)
                 /\ a.core_profiles.rows[a.proxies.rows[p].ref].proxy = p
      <4>1. s.core_profiles.rows[s.proxies.rows[p].ref].proxy = p
        BY <1>13, <2>2 DEF Matched
      <4>. QED
        BY <2>1, <2>2, <2>4, <2>5, <2>6, <4>1
    <3>. QED
      BY <3>1, <3>2 DEF Matched
<1>14. ASSUME BindingsResolved(s), NEW k \in Keys(a)
       PROVE  a.api_keys.rows[k] = 0 \/ a.api_keys.rows[k] \in Proxies(s) \cap Proxies(a)
  <2>1. k \in Keys(s) /\ a.api_keys.rows[k] = keys[k]
    BY <1>3, <1>8 DEF Keys, RowsTyped, IsList
  <2>2. s.api_keys.rows[k] = 0 \/ s.api_keys.rows[k] \in Proxies(s)
    BY <1>14, <2>1 DEF BindingsResolved, ValidReference
  <2>3. keys[k] = 0 \/ (keys[k] = s.api_keys.rows[k] /\ keys[k] \notin gone)
    BY <2>1 DEF keys
  <2>4. Proxies(a) = Proxies(s) \ gone
    BY <1>2, <1>10 DEF Proxies
  <2>. QED
    BY <2>1, <2>2, <2>3, <2>4
<1>15. a.proxies.next = s.proxies.next /\ s.proxies.next \in Nat
  BY <1>6, <1>8 DEF RowsTyped, IsList
<1>16. Follows(s, a)
  BY <1>8, <1>12, <1>14, <1>15 DEF Follows, Unlisted
<1>. QED
  BY <1>1, <1>7, <1>12, <1>13, <1>16

---------------------------------------------------------------------------
(* The handlers of keys and proxies *)

(* New rows of keys, and new bindings, that resolve in the store as it is. *)
LEMMA KeysPut ==
    ASSUME NEW s, RowsTyped(s), NEW list, IsList(list, Nat),
           BindingsResolved(s) => \A k \in DOMAIN list.rows : ValidReference(s, list.rows[k])
    PROVE  Follows(s, [s EXCEPT !.api_keys = list])
<1>. DEFINE u == [s EXCEPT !.api_keys = list]
<1>1. /\ u.api_keys = list /\ u.proxies = s.proxies /\ u.core_profiles = s.core_profiles
      /\ u.system_config = s.system_config /\ Unlisted(s, u) /\ DOMAIN u = DOMAIN s
  BY DEF RowsTyped, Unlisted, DefaultRows
<1>. HIDE DEF u
<1>2. RowsTyped(u) /\ s.proxies.next \in Nat
  BY <1>1 DEF RowsTyped, IsList
<1>3. BindingsResolved(s) => \A k \in Keys(u) :
        u.api_keys.rows[k] = 0 \/ u.api_keys.rows[k] \in Proxies(s) \cap Proxies(u)
  BY <1>1 DEF ValidReference, Keys, Proxies
<1>. QED
  BY <1>1, <1>2, <1>3 DEF Follows, u

\* Adding a key bound to a proxy that exists, or to none.
LEMMA KeyAdded ==
    ASSUME NEW s, RowsTyped(s), NEW p \in Proxies(s) \cup {0}
    PROVE  Follows(s, AddKeyRow(s, p))
<1>. DEFINE list == Appended(s.api_keys, p)
            new == s.api_keys.next
<1>1. p \in Nat
  BY DEF RowsTyped, IsList, Proxies
<1>2. /\ new \in Nat \ {0}
      /\ \A k \in Keys(s) : k \in Nat \ {0} /\ k < new /\ s.api_keys.rows[k] \in Nat
  BY DEF RowsTyped, IsList, Keys
<1>3. /\ list.next = new + 1 /\ {"next", "rows"} \subseteq DOMAIN list
      /\ DOMAIN list.rows = Keys(s) \cup {new} /\ list.rows[new] = p
      /\ \A k \in Keys(s) : list.rows[k] = s.api_keys.rows[k]
  BY <1>2 DEF Appended, Put, Keys
<1>4. AddKeyRow(s, p) = [s EXCEPT !.api_keys = list]
  BY DEF AddKeyRow
<1>. HIDE DEF list, new
<1>5. \A k \in DOMAIN list.rows : k \in Nat \ {0} /\ k < new + 1 /\ list.rows[k] \in Nat
  BY <1>1, <1>2, <1>3
<1>6. IsList(list, Nat)
  BY <1>2, <1>3, <1>5 DEF IsList
<1>7. BindingsResolved(s) => \A k \in DOMAIN list.rows : ValidReference(s, list.rows[k])
  BY <1>3 DEF BindingsResolved, ValidReference
<1>. QED
  BY <1>4, <1>6, <1>7, KeysPut

(* Other bindings, or fewer keys. *)
LEMMA KeyRowsPut ==
    ASSUME NEW s, RowsTyped(s), NEW rows, DOMAIN rows \subseteq Keys(s),
           \A k \in DOMAIN rows : rows[k] = s.api_keys.rows[k] \/ rows[k] \in Proxies(s) \cup {0}
    PROVE  Follows(s, [s EXCEPT !.api_keys.rows = rows])
<1>. DEFINE list == [s.api_keys EXCEPT !.rows = rows]
<1>1. /\ s.api_keys.next \in Nat \ {0} /\ {"next", "rows"} \subseteq DOMAIN s.api_keys
      /\ \A k \in Keys(s) : k \in Nat \ {0} /\ k < s.api_keys.next /\ s.api_keys.rows[k] \in Nat
      /\ Proxies(s) \subseteq Nat
  BY DEF RowsTyped, IsList, Keys, Proxies
<1>2. list.next = s.api_keys.next /\ list.rows = rows /\ DOMAIN list = DOMAIN s.api_keys
  BY <1>1
<1>. HIDE DEF list
<1>3. \A k \in DOMAIN rows : k \in Nat \ {0} /\ k < s.api_keys.next /\ rows[k] \in Nat
  BY <1>1
<1>4. IsList(list, Nat)
  BY <1>1, <1>2, <1>3 DEF IsList
<1>5. BindingsResolved(s) => \A k \in DOMAIN list.rows : ValidReference(s, list.rows[k])
  BY <1>2 DEF BindingsResolved, ValidReference
<1>6. Follows(s, [s EXCEPT !.api_keys = list])
  BY <1>4, <1>5, KeysPut
<1>. QED
  BY <1>6 DEF list

\* Binding keys to a proxy that exists, or to none.
LEMMA KeysBound ==
    ASSUME NEW s, RowsTyped(s), NEW ks, NEW p \in Proxies(s) \cup {0}
    PROVE  Follows(s, BindKeys(s, ks, p))
<1>. DEFINE rows == [k \in Keys(s) |-> IF k \in ks THEN p ELSE s.api_keys.rows[k]]
<1>1. BindKeys(s, ks, p) = [s EXCEPT !.api_keys.rows = rows]
  BY DEF BindKeys, Keys
<1>2. DOMAIN rows \subseteq Keys(s)
  OBVIOUS
<1>3. \A k \in DOMAIN rows : rows[k] = s.api_keys.rows[k] \/ rows[k] \in Proxies(s) \cup {0}
  OBVIOUS
<1>. HIDE DEF rows
<1>. QED
  BY <1>1, <1>2, <1>3, KeyRowsPut

\* Deleting a key.
LEMMA KeyDeleted ==
    ASSUME NEW s, RowsTyped(s), NEW k \in Keys(s)
    PROVE  Follows(s, DeleteKeyRow(s, k))
<1>. DEFINE rows == Without(s.api_keys.rows, {k})
<1>1. DeleteKeyRow(s, k) = [s EXCEPT !.api_keys.rows = rows]
  BY DEF DeleteKeyRow
<1>2. DOMAIN rows \subseteq Keys(s) /\ \A j \in DOMAIN rows : rows[j] = s.api_keys.rows[j]
  BY DEF Without, Restrict, Keys
<1>. HIDE DEF rows
<1>. QED
  BY <1>1, <1>2, KeyRowsPut

\* Setting the system's proxy.
LEMMA SystemProxySet ==
    ASSUME NEW s, RowsTyped(s), NEW p \in Proxies(s) \cup {0}
    PROVE  Follows(s, SetSystemProxy(s, p))
<1>. DEFINE u == SetSystemProxy(s, p)
<1>1. p \in Nat
  BY DEF RowsTyped, IsList, Proxies
<1>2. /\ u.api_keys = s.api_keys /\ u.proxies = s.proxies /\ u.core_profiles = s.core_profiles
      /\ u.system_config = p /\ Unlisted(s, u) /\ DOMAIN u = DOMAIN s
  BY DEF SetSystemProxy, RowsTyped, Unlisted, DefaultRows
<1>. HIDE DEF u
<1>3. RowsTyped(u) /\ s.proxies.next \in Nat
  BY <1>1, <1>2 DEF RowsTyped, IsList
<1>. QED
  BY <1>2, <1>3 DEF Follows, BindingsResolved, ValidReference, Keys, Proxies, u

\* Adding a proxy by hand.
LEMMA ProxyAdded == ASSUME NEW s, RowsTyped(s) PROVE Follows(s, AddProxyRow(s))
<1>. DEFINE row == NewProxy("manual", TRUE, "none")
            list == Appended(s.proxies, row)
            new == s.proxies.next
            u == AddProxyRow(s)
<1>1. row \in ProxyRow
  BY DEF NewProxy, ProxyRow
<1>. HIDE DEF row
<1>2. /\ new \in Nat \ {0}
      /\ \A p \in Proxies(s) : p \in Nat \ {0} /\ p < new /\ s.proxies.rows[p] \in ProxyRow
  BY DEF RowsTyped, IsList, Proxies
<1>3. /\ list.next = new + 1 /\ {"next", "rows"} \subseteq DOMAIN list
      /\ DOMAIN list.rows = Proxies(s) \cup {new} /\ list.rows[new] = row
      /\ \A p \in Proxies(s) : list.rows[p] = s.proxies.rows[p]
  BY <1>2 DEF Appended, Put, Proxies
<1>4. /\ u.api_keys = s.api_keys /\ u.proxies = list /\ u.core_profiles = s.core_profiles
      /\ u.system_config = s.system_config /\ Unlisted(s, u) /\ DOMAIN u = DOMAIN s
  BY DEF AddProxyRow, RowsTyped, Unlisted, DefaultRows, row
<1>. HIDE DEF list, new, u
<1>5. \A p \in DOMAIN list.rows : p \in Nat \ {0} /\ p < new + 1 /\ list.rows[p] \in ProxyRow
  BY <1>1, <1>2, <1>3
<1>6. IsList(u.proxies, ProxyRow)
  BY <1>2, <1>3, <1>4, <1>5 DEF IsList
<1>7. RowsTyped(u)
  BY <1>4, <1>6 DEF RowsTyped
<1>8. s.proxies.next <= u.proxies.next /\ Proxies(s) \subseteq Proxies(u)
  BY <1>2, <1>3, <1>4 DEF new, Proxies
<1>. QED
  BY <1>4, <1>7, <1>8 DEF Follows, BindingsResolved, ValidReference, Keys, u

\* Deleting proxies, which unbinds their keys.
LEMMA ProxiesDeleted ==
    ASSUME NEW s, RowsTyped(s), NEW ps PROVE Follows(s, DeleteProxyRows(s, ps))
<1>. DEFINE proxies == Without(s.proxies.rows, ps)
            keys == [k \in Keys(s) |-> IF s.api_keys.rows[k] \in ps THEN 0 ELSE s.api_keys.rows[k]]
            b == [s EXCEPT !.proxies.rows = proxies]
            u == [b EXCEPT !.api_keys.rows = keys]
<1>1. DeleteProxyRows(s, ps) = Unbind(b, ps)
  BY DEF DeleteProxyRows
<1>2. /\ DOMAIN proxies = Proxies(s) \ ps
      /\ \A p \in Proxies(s) \ ps : proxies[p] = s.proxies.rows[p]
  BY DEF Without, Restrict, Proxies
<1>. HIDE DEF proxies
<1>3. /\ DOMAIN b = DOMAIN s /\ b.system_config = s.system_config /\ b.api_keys = s.api_keys
      /\ b.core_profiles = s.core_profiles /\ b.proxies = [s.proxies EXCEPT !.rows = proxies]
      /\ \A f \in DOMAIN s \ DOMAIN DefaultRows : b[f] = s[f]
  BY DEF RowsTyped, DefaultRows
<1>4. Unbind(b, ps) = u
  BY <1>3 DEF Unbind, Keys
<1>. HIDE DEF b, keys
<1>5. /\ DOMAIN u = DOMAIN s /\ u.system_config = s.system_config
      /\ u.core_profiles = s.core_profiles /\ u.proxies = b.proxies
      /\ u.api_keys = [s.api_keys EXCEPT !.rows = keys]
      /\ \A f \in DOMAIN s \ DOMAIN DefaultRows : u[f] = s[f]
  BY <1>3 DEF RowsTyped, DefaultRows
<1>. HIDE DEF u
<1>6. IsList(u.proxies, ProxyRow) /\ u.proxies.rows = proxies /\ u.proxies.next = s.proxies.next
  BY <1>2, <1>3, <1>5 DEF IsList, RowsTyped, Proxies
<1>7. DOMAIN keys = Keys(s) /\ \A k \in Keys(s) :
        keys[k] = 0 \/ (keys[k] = s.api_keys.rows[k] /\ keys[k] \notin ps)
  BY DEF keys
<1>8. IsList(u.api_keys, Nat) /\ u.api_keys.rows = keys
  BY <1>5, <1>7 DEF IsList, RowsTyped, Keys
<1>9. RowsTyped(u)
  BY <1>5, <1>6, <1>8 DEF RowsTyped
<1>10. ASSUME BindingsResolved(s), NEW k \in Keys(u)
       PROVE  u.api_keys.rows[k] = 0 \/ u.api_keys.rows[k] \in Proxies(s) \cap Proxies(u)
  <2>1. k \in Keys(s) /\ u.api_keys.rows[k] = keys[k]
    BY <1>7, <1>8 DEF Keys
  <2>2. s.api_keys.rows[k] = 0 \/ s.api_keys.rows[k] \in Proxies(s)
    BY <1>10, <2>1 DEF BindingsResolved, ValidReference
  <2>3. Proxies(u) = Proxies(s) \ ps
    BY <1>2, <1>6 DEF Proxies
  <2>. QED
    BY <1>7, <2>1, <2>2, <2>3
<1>11. s.proxies.next \in Nat
  BY DEF RowsTyped, IsList
<1>. QED
  BY <1>1, <1>4, <1>5, <1>6, <1>9, <1>10, <1>11 DEF Follows, Unlisted
=============================================================================
