----------------------------- MODULE SnmpProofs -----------------------------
(***************************************************************************)
(* The SNMP collector, for every catalog the files may hold, and the       *)
(* translation tables, for any number of consumer threads.                 *)
(*                                                                         *)
(* First what the loops over lists collect (CollectedIs), then what        *)
(* SnmpMetricCatalog.load makes of the files (CatalogInv: PolledAsListed), *)
(* then what becomes of an answer (PollInv: MeasuredAsListed), and last    *)
(* the tables (CacheInv: MissOnlyAfterFailedLoad).                         *)
(***************************************************************************)
EXTENDS PropertyCache, SnmpCollector, FiniteSetTheorems, WellFoundedInduction, TLAPS

(***************************************************************************)
(* Elements of lists in their order.                                       *)
(***************************************************************************)
(* Each element of a finite set of places has a number of its own.         *)
LEMMA InOrderIs ==
  ASSUME NEW S, S \subseteq Nat \X Nat, IsFiniteSet(S)
  PROVE  /\ Cardinality(S) \in Nat /\ DOMAIN InOrder(S) = 1 .. Cardinality(S)
         /\ Range(InOrder(S)) = S /\ IsInjective(InOrder(S))
         /\ \A k, l \in 1 .. Cardinality(S) : k < l => Before(InOrder(S)[k], InOrder(S)[l])
<1> DEFINE n == Cardinality(S)
           Lower(p) == {q \in S : Before(q, p)}
           number == [p \in S |-> Cardinality(Lower(p)) + 1]
<1>1. n \in Nat
  BY FS_CardinalityType
<1>2. \A p, q \in S : p # q => Before(p, q) \/ Before(q, p)
  BY DEF Before
<1>3. \A p \in S : ~Before(p, p)
  BY DEF Before
<1>4. \A p, q, r \in S : Before(p, q) /\ Before(q, r) => Before(p, r)
  BY DEF Before
<1>5. ASSUME NEW p \in S
      PROVE  /\ IsFiniteSet(Lower(p)) /\ Cardinality(Lower(p)) \in Nat
             /\ number[p] \in 1 .. n
  <2>1. Lower(p) \subseteq S \ {p}
    BY <1>3
  <2>2. IsFiniteSet(S \ {p}) /\ Cardinality(S \ {p}) = n - 1
    BY FS_RemoveElement
  <2> HIDE DEF Lower, n
  <2>3. IsFiniteSet(Lower(p)) /\ Cardinality(Lower(p)) <= n - 1
    BY <2>1, <2>2, FS_Subset
  <2>4. Cardinality(Lower(p)) \in Nat
    BY <2>3, FS_CardinalityType
  <2>5. QED
    BY <1>1, <2>3, <2>4
<1>6. ASSUME NEW p \in S, NEW q \in S, Before(p, q) PROVE number[p] < number[q]
  <2>1. Lower(p) \cup {p} \subseteq Lower(q)
    BY <1>4, <1>6
  <2>2. p \notin Lower(p)
    BY <1>3
  <2> HIDE DEF Lower
  <2>3. /\ IsFiniteSet(Lower(p) \cup {p})
        /\ Cardinality(Lower(p) \cup {p}) = Cardinality(Lower(p)) + 1
    BY <1>5, <2>2, FS_AddElement
  <2>4. Cardinality(Lower(p) \cup {p}) <= Cardinality(Lower(q))
    BY <1>5, <2>1, FS_Subset
  <2>5. QED
    BY <1>5, <2>3, <2>4
<1> HIDE DEF Lower, n
<1>7. number \in Injection(S, 1 .. n)
  <2>1. number \in [S -> 1 .. n]
    BY <1>5
  <2> HIDE DEF number
  <2>2. \A p, q \in S : number[p] \in Nat /\ number[q] \in Nat
    BY <1>1, <2>1
  <2>3. \A p, q \in S : number[p] = number[q] => p = q
    BY <1>2, <1>6, <2>2
  <2>4. QED
    BY <2>1, <2>3 DEF Injection, IsInjective
<1>8. number \in Surjection(S, 1 .. n)
  <2>1. IsFiniteSet(1 .. n) /\ Cardinality(1 .. n) = n
    <3>1. 1 \in Int /\ n \in Int /\ (1 > n => n = 0) /\ n - 1 + 1 = n
      BY <1>1
    <3>2. IsFiniteSet(1 .. n) /\ Cardinality(1 .. n) = IF 1 > n THEN 0 ELSE n - 1 + 1
      BY <3>1, FS_Interval
    <3>3. QED
      BY <3>1, <3>2
  <2> HIDE DEF number
  <2>2. QED
    BY <1>7, <2>1, FS_Injection DEF n
<1>9. \A k \in 1 .. n : InOrder(S)[k] \in S /\ number[InOrder(S)[k]] = k
  <2>1. ASSUME NEW k \in 1 .. n PROVE InOrder(S)[k] \in S /\ number[InOrder(S)[k]] = k
    <3>1. PICK p \in S : number[p] = k
      BY <1>8 DEF Surjection
    <3>2. Cardinality(Lower(p)) = k - 1
      BY <1>5, <3>1
    <3> DEFINE e == CHOOSE q \in S : Cardinality(Lower(q)) = k - 1
    <3>3. e \in S /\ Cardinality(Lower(e)) = k - 1
      BY <3>2
    <3>4. InOrder(S)[k] = e
      BY DEF InOrder, n, Lower
    <3> HIDE DEF e
    <3>5. QED
      BY <1>1, <3>3, <3>4
  <2>2. QED
    BY <2>1
<1>10. DOMAIN InOrder(S) = 1 .. n
  BY DEF InOrder, n
<1>11. S \subseteq Range(InOrder(S))
  <2>1. ASSUME NEW p \in S PROVE p \in Range(InOrder(S))
    <3>1. number[p] \in 1 .. n /\ number[InOrder(S)[number[p]]] = number[p]
      BY <1>5, <1>9
    <3>2. InOrder(S)[number[p]] = p
      BY <1>7, <1>9, <3>1 DEF Injection, IsInjective
    <3>3. QED
      BY <1>10, <3>1, <3>2 DEF Range
  <2>2. QED
    BY <2>1
<1>12. Range(InOrder(S)) = S
  BY <1>9, <1>10, <1>11 DEF Range
<1>13. IsInjective(InOrder(S))
  <2> HIDE DEF number
  <2>1. \A k, l \in 1 .. n : InOrder(S)[k] = InOrder(S)[l] => k = l
    BY <1>9
  <2>2. QED
    BY <1>10, <2>1 DEF IsInjective
<1>14. ASSUME NEW k \in 1 .. n, NEW l \in 1 .. n, k < l PROVE Before(InOrder(S)[k], InOrder(S)[l])
  <2> DEFINE p == InOrder(S)[k]
             q == InOrder(S)[l]
  <2>1. p \in S /\ q \in S /\ number[p] = k /\ number[q] = l
    BY <1>9
  <2> HIDE DEF p, q, number
  <2>2. p # q /\ ~(number[q] < number[p])
    BY <1>1, <1>14, <2>1
  <2>3. Before(p, q)
    BY <1>2, <1>6, <2>1, <2>2
  <2>4. QED
    BY <2>3 DEF p, q
<1>15. QED
  BY <1>1, <1>10, <1>12, <1>13, <1>14 DEF n

(* Lists whose places are numbers, and not too many.                       *)
AreLists(lists) ==
  /\ DOMAIN lists \subseteq Nat /\ IsFiniteSet(DOMAIN lists)
  /\ \A i \in DOMAIN lists : DOMAIN lists[i] \subseteq Nat /\ IsFiniteSet(DOMAIN lists[i])

(* The element at a place.                                                 *)
Element(lists, p) == lists[p[1]][p[2]]

(* The places of a sequence.                                               *)
LEMMA SeqDomain ==
  ASSUME NEW s, IsSeq(s)
  PROVE  Len(s) \in Nat /\ DOMAIN s = 1 .. Len(s) /\ DOMAIN s \subseteq Nat /\ IsFiniteSet(DOMAIN s)
<1>1. Len(s) \in Nat /\ DOMAIN s = 1 .. Len(s)
  BY DEF IsSeq
<1>2. 1 \in Int /\ Len(s) \in Int /\ 1 .. Len(s) \subseteq Nat
  BY <1>1
<1>3. IsFiniteSet(1 .. Len(s))
  BY <1>2, FS_Interval
<1>4. QED
  BY <1>1, <1>2, <1>3

(* The places of lists are finitely many.                                  *)
LEMMA PlacesFinite ==
  ASSUME NEW lists, AreLists(lists)
  PROVE  IsFiniteSet(Enabled(lists)) /\ Enabled(lists) \subseteq Nat \X Nat
<1> DEFINE Row(i) == {i} \X {j \in DOMAIN lists[i] : lists[i][j].enabled}
           rows == {Row(i) : i \in DOMAIN lists}
           row == [i \in DOMAIN lists |-> Row(i)]
<1>1. ASSUME NEW i \in DOMAIN lists PROVE IsFiniteSet(Row(i)) /\ Row(i) \subseteq Nat \X Nat
  <2>1. {j \in DOMAIN lists[i] : lists[i][j].enabled} \in SUBSET DOMAIN lists[i]
    OBVIOUS
  <2>2. IsFiniteSet({j \in DOMAIN lists[i] : lists[i][j].enabled})
    BY <2>1, FS_Subset DEF AreLists
  <2>3. IsFiniteSet({i})
    BY FS_Singleton
  <2>4. IsFiniteSet(Row(i))
    BY <2>2, <2>3, FS_Product
  <2>5. QED
    BY <2>4 DEF AreLists
<1>2. IsFiniteSet(rows)
  <2>1. row \in Surjection(DOMAIN lists, rows)
    BY DEF Surjection
  <2>2. QED
    BY <2>1, FS_Surjection DEF AreLists
<1>3. \A r \in rows : IsFiniteSet(r)
  BY <1>1
<1>4. Enabled(lists) = UNION rows
  BY DEF Enabled
<1>5. IsFiniteSet(UNION rows)
  <2> HIDE DEF rows
  <2>1. QED
    BY <1>2, <1>3, FS_UNION
<1>6. QED
  BY <1>1, <1>4, <1>5

(* Every element has a first place.                                        *)
LEMMA FirstPlace ==
  ASSUME NEW lists, AreLists(lists), NEW p \in Enabled(lists)
  PROVE  \E q \in Distinct(lists) : Element(lists, q) = Element(lists, p)
<1> DEFINE S == {q \in Enabled(lists) : Element(lists, q) = Element(lists, p)}
<1>1. /\ S \subseteq Nat \X Nat /\ IsFiniteSet(S) /\ p \in S
      /\ \A q \in S : q \in Enabled(lists) /\ Element(lists, q) = Element(lists, p)
      /\ \A q \in Enabled(lists) : Element(lists, q) = Element(lists, p) => q \in S
  BY PlacesFinite, FS_Subset
<1> HIDE DEF S
<1>2. Cardinality(S) \in Nat /\ Cardinality(S) # 0
  BY <1>1, FS_CardinalityType, FS_EmptySet
<1> DEFINE order == InOrder(S)
           n == Cardinality(S)
           first == order[1]
<1>3. /\ n \in Nat /\ n # 0 /\ DOMAIN order = 1 .. n /\ Range(order) = S
      /\ \A k, l \in 1 .. n : k < l => Before(order[k], order[l])
  BY <1>1, <1>2, InOrderIs
<1> HIDE DEF order, n
<1>4. first \in S
  BY <1>3, 1 \in 1 .. n DEF Range
<1>5. ASSUME NEW r \in S PROVE ~Before(r, first)
  <2>1. PICK m \in 1 .. n : r = order[m]
    BY <1>3 DEF Range
  <2>2. m = 1 \/ Before(first, r)
    BY <1>3, <2>1, 1 \in 1 .. n
  <2>3. r \in Nat \X Nat /\ first \in Nat \X Nat
    BY <1>1, <1>4
  <2> HIDE DEF first
  <2>4. CASE r = first
    BY <2>3, <2>4 DEF Before
  <2>5. CASE Before(first, r)
    BY <2>3, <2>5 DEF Before
  <2>6. QED
    BY <2>1, <2>2, <2>4, <2>5 DEF first
<1> HIDE DEF first
<1>6. first \in Distinct(lists)
  BY <1>1, <1>4, <1>5 DEF Distinct, Element
<1>7. QED
  BY <1>1, <1>4, <1>6

(* The enabled elements of the lists, each once.                           *)
LEMMA CollectedIs ==
  ASSUME NEW lists, AreLists(lists)
  PROVE  /\ IsSeq(Collected(lists)) /\ IsInjective(Collected(lists))
         /\ Range(Collected(lists)) = {Element(lists, p) : p \in Enabled(lists)}
<1> DEFINE S == Distinct(lists)
           order == InOrder(S)
           n == Cardinality(S)
           all == Collected(lists)
<1>1. /\ IsFiniteSet(S) /\ S \subseteq Nat \X Nat /\ S \subseteq Enabled(lists)
      /\ \A p, q \in S : Before(q, p) => Element(lists, q) # Element(lists, p)
  BY PlacesFinite, FS_Subset DEF Distinct, Element
<1>2. all = [k \in DOMAIN order |-> Element(lists, order[k])]
  BY DEF Collected, Element
<1> HIDE DEF S, order, all
<1>3. /\ n \in Nat /\ DOMAIN order = 1 .. n /\ Range(order) = S
      /\ \A k, l \in 1 .. n : k < l => Before(order[k], order[l])
  BY <1>1, InOrderIs DEF order
<1> HIDE DEF n
<1>4. \A k \in 1 .. n : order[k] \in S /\ all[k] = Element(lists, order[k])
  BY <1>2, <1>3 DEF Range
<1>5. DOMAIN all = 1 .. n
  BY <1>2, <1>3
<1>6. Range(all) = {Element(lists, p) : p \in Enabled(lists)}
  <2>1. \A p \in S : \E k \in 1 .. n : order[k] = p
    BY <1>3 DEF Range
  <2>2. \A p \in S : Element(lists, p) \in Range(all)
    BY <1>4, <1>5, <2>1 DEF Range
  <2>3. \A p \in Enabled(lists) : Element(lists, p) \in Range(all)
    BY <2>2, FirstPlace DEF S
  <2>4. \A e \in Range(all) : \E p \in Enabled(lists) : e = Element(lists, p)
    BY <1>1, <1>4, <1>5 DEF Range
  <2>5. QED
    BY <2>3, <2>4
<1>7. IsInjective(all)
  <2>1. \A k, l \in 1 .. n : k < l => all[k] # all[l]
    BY <1>1, <1>3, <1>4
  <2>2. \A k, l \in 1 .. n : all[k] = all[l] => k = l
    BY <1>3, <2>1
  <2>3. QED
    BY <1>5, <2>2 DEF IsInjective
<1>8. IsSeq(all)
  <2>1. all = [k \in 1 .. n |-> all[k]] /\ \A k \in 1 .. n : all[k] \in Range(all)
    BY <1>2, <1>3, <1>5 DEF Range
  <2>2. QED
    BY <1>3, <2>1 DEF IsSeq
<1>9. QED
  BY <1>6, <1>7, <1>8 DEF all

(* Filling in a list leaves its own port, community and switches alone.    *)
LEMMA FilledListIs ==
  ASSUME NEW g, IsHostList(g), g.hosts # Null
  PROVE  /\ FilledList(g).id = g.id /\ FilledList(g).port = g.port
         /\ FilledList(g).community = g.community
         /\ FilledList(g).hosts = [j \in DOMAIN g.hosts |->
                                     IF g.hosts[j].enabled THEN Filled(g, g.hosts[j]) ELSE g.hosts[j]]
BY DEF IsHostList, FilledList

(* Filling in a host twice is filling it in once.                          *)
LEMMA FilledIs ==
  ASSUME NEW g, NEW h, IsHost(h)
  PROVE  /\ IsHost(Filled(g, h)) /\ Filled(g, h).enabled = h.enabled
         /\ Filled(g, h).host = h.host
         /\ Filled(g, Filled(g, h)) = Filled(g, h)
<1> DEFINE p(o) == IF o.port = Unknown THEN g.port ELSE o.port
           c(o) == IF o.community = Null THEN g.community ELSE o.community
           f == Filled(g, h)
<1>1. h = [host |-> h.host, port |-> h.port, community |-> h.community, enabled |-> h.enabled]
  BY DEF IsHost
<1>2. f = [host |-> h.host, port |-> p(h), community |-> c(h), enabled |-> h.enabled]
  <2>1. f = [h EXCEPT !.port = p(h), !.community = c(h)]
    BY DEF Filled
  <2> HIDE DEF p, c, f
  <2>2. QED
    BY <1>1, <2>1
<1>3. p(h) = Unknown => p(h) = g.port
  OBVIOUS
<1>4. c(h) = Null => c(h) = g.community
  OBVIOUS
<1> HIDE DEF p, c, f
<1>5. Filled(g, f) = [host |-> h.host, port |-> p(h), community |-> c(h), enabled |-> h.enabled]
  BY <1>2, <1>3, <1>4 DEF Filled
<1>6. IsHost(f)
  BY <1>2 DEF IsHost
<1>7. QED
  BY <1>2, <1>5, <1>6 DEF f

(* A list is filled in once and for all.                                   *)
LEMMA FilledTwice ==
  ASSUME NEW g, IsHostList(g), g.hosts # Null
  PROVE  FilledList(FilledList(g)) = FilledList(g) /\ IsHostList(FilledList(g))
<1> DEFINE f == FilledList(g)
           Full(h) == IF h.enabled THEN Filled(g, h) ELSE h
<1>1. /\ g = [id |-> g.id, port |-> g.port, community |-> g.community, hosts |-> g.hosts]
      /\ IsSeq(g.hosts) /\ \A h \in Range(g.hosts) : IsHost(h)
  BY DEF IsHostList
<1>2. f = [id |-> g.id, port |-> g.port, community |-> g.community,
           hosts |-> [j \in DOMAIN g.hosts |-> Full(g.hosts[j])]]
  BY <1>1 DEF FilledList
<1>3. \A h : IsHost(h) => IsHost(Full(h)) /\ Full(h).enabled = h.enabled /\ Full(Full(h)) = Full(h)
  BY FilledIs
<1> HIDE DEF f, Full
<1>4. \A h : Filled(f, h) = Filled(g, h)
  BY <1>2 DEF Filled
<1>5. FilledList(f) = [id |-> g.id, port |-> g.port, community |-> g.community,
           hosts |-> [j \in DOMAIN f.hosts |-> Full(f.hosts[j])]]
  <2>1. FilledList(f) = [f EXCEPT !.hosts = [j \in DOMAIN f.hosts |-> Full(f.hosts[j])]]
    BY <1>4 DEF FilledList, Full
  <2>2. QED
    BY <1>2, <2>1
<1>6. \A j \in DOMAIN g.hosts : IsHost(g.hosts[j])
  BY <1>1 DEF Range
<1>7. FilledList(f) = f
  BY <1>2, <1>3, <1>5, <1>6
<1>8. IsHostList(f)
  <2>1. Len(g.hosts) \in Nat /\ DOMAIN g.hosts = 1 .. Len(g.hosts)
    BY <1>1, SeqDomain
  <2>2. f.hosts = [j \in 1 .. Len(g.hosts) |-> Full(g.hosts[j])]
    BY <1>2, <2>1
  <2>3. \A h \in Range(f.hosts) : IsHost(h)
    BY <1>3, <1>6, <2>1, <2>2 DEF Range
  <2>4. \A j \in 1 .. Len(g.hosts) : Full(g.hosts[j]) \in Range(f.hosts)
    BY <2>2 DEF Range
  <2>5. IsSeq(f.hosts)
    BY <2>1, <2>2, <2>4 DEF IsSeq
  <2>6. QED
    BY <1>2, <2>3, <2>5 DEF IsHostList
<1>9. QED
  BY <1>7, <1>8 DEF f

(* The lists that are named.                                               *)
ListsIn(lists, ids) == {l \in Range(lists) : l.id \in ids}

(* The empty list has no places.                                           *)
LEMMA EmptyIs == DOMAIN <<>> = {} /\ IsFiniteSet(DOMAIN <<>>) /\ DOMAIN <<>> \subseteq Nat
BY FS_EmptySet

(* The hosts of filled lists.                                              *)
LEMMA GetHostsIs ==
  ASSUME NEW lists, IsSeq(lists), \A l \in Range(lists) : IsHostList(l), NEW ids,
         \A i \in DOMAIN lists : lists[i].id \in ids => lists[i].hosts # Null,
         NEW now, DOMAIN now = DOMAIN lists,
         \A i \in DOMAIN lists : /\ now[i].id = lists[i].id
                                 /\ lists[i].id \in ids => now[i] = FilledList(lists[i])
  PROVE  /\ IsSeq(GetHosts(now, ids)) /\ IsInjective(GetHosts(now, ids))
         /\ Range(GetHosts(now, ids)) =
              UNION {{Filled(l, h) : h \in {x \in Range(l.hosts) : x.enabled}} : l \in ListsIn(lists, ids)}
<1> DEFINE rows == [i \in DOMAIN now |-> IF now[i].id \in ids THEN now[i].hosts ELSE <<>>]
           all == UNION {{Filled(l, h) : h \in {x \in Range(l.hosts) : x.enabled}} : l \in ListsIn(lists, ids)}
           D == {i \in DOMAIN lists : lists[i].id \in ids}
<1>1. /\ DOMAIN rows = DOMAIN lists /\ D \subseteq DOMAIN lists
      /\ \A i \in DOMAIN lists : i \notin D => rows[i] = <<>>
      /\ \A i \in D : rows[i] = FilledList(lists[i]).hosts
  OBVIOUS
<1> HIDE DEF rows
<1>2. ASSUME NEW i \in D
      PROVE  /\ IsHostList(lists[i]) /\ IsSeq(lists[i].hosts)
             /\ \A h \in Range(lists[i].hosts) : IsHost(h)
             /\ DOMAIN rows[i] = DOMAIN lists[i].hosts
             /\ \A j \in DOMAIN lists[i].hosts :
                  rows[i][j] = IF lists[i].hosts[j].enabled THEN Filled(lists[i], lists[i].hosts[j])
                               ELSE lists[i].hosts[j]
  <2>1. lists[i] \in Range(lists) /\ lists[i].hosts # Null
    BY DEF Range
  <2>2. IsHostList(lists[i])
    BY <2>1
  <2> DEFINE g == lists[i]
  <2>3. IsHostList(g) /\ g.hosts # Null /\ rows[i] = FilledList(g).hosts
    BY <1>1, <2>1, <2>2
  <2> HIDE DEF g
  <2>4. rows[i] = [j \in DOMAIN g.hosts |-> IF g.hosts[j].enabled THEN Filled(g, g.hosts[j]) ELSE g.hosts[j]]
    BY <2>3, FilledListIs
  <2>5. IsSeq(g.hosts) /\ \A h \in Range(g.hosts) : IsHost(h)
    BY <2>3 DEF IsHostList
  <2>6. QED
    BY <2>2, <2>4, <2>5 DEF g
<1>3. AreLists(rows)
  <2>1. ASSUME NEW i \in DOMAIN lists PROVE DOMAIN rows[i] \subseteq Nat /\ IsFiniteSet(DOMAIN rows[i])
    <3>1. CASE i \in D
      <4>1. IsSeq(lists[i].hosts) /\ DOMAIN rows[i] = DOMAIN lists[i].hosts
        BY <1>2, <3>1
      <4>2. QED
        BY <4>1, SeqDomain
    <3>2. CASE i \notin D
      BY <1>1, <3>2, EmptyIs
    <3>3. QED
      BY <3>1, <3>2
  <2>2. DOMAIN lists \subseteq Nat /\ IsFiniteSet(DOMAIN lists)
    BY SeqDomain
  <2>3. QED
    BY <1>1, <2>1, <2>2 DEF AreLists
<1>4. GetHosts(now, ids) = Collected(rows)
  BY DEF GetHosts, rows
<1>5. /\ IsSeq(Collected(rows)) /\ IsInjective(Collected(rows))
      /\ Range(Collected(rows)) = {Element(rows, p) : p \in Enabled(rows)}
  BY <1>3, CollectedIs
<1>6. ASSUME NEW p \in Enabled(rows) PROVE Element(rows, p) \in all
  <2>8. PICK i \in DOMAIN rows : p \in {i} \X {j \in DOMAIN rows[i] : rows[i][j].enabled}
    BY DEF Enabled
  <2>1. PICK j \in DOMAIN rows[i] : p = <<i, j>> /\ rows[i][j].enabled
    BY <2>8
  <2>2. i \in D
    BY <1>1, <2>1, EmptyIs
  <2> DEFINE l == lists[i]
             h == l.hosts[j]
  <2>3. j \in DOMAIN l.hosts /\ h \in Range(l.hosts) /\ IsHost(h) /\ l \in ListsIn(lists, ids)
    BY <1>2, <2>1, <2>2 DEF Range, ListsIn
  <2>4. rows[i][j] = IF h.enabled THEN Filled(l, h) ELSE h
    BY <1>2, <2>2, <2>3
  <2>5. Element(rows, p) = rows[i][j]
    BY <2>1 DEF Element
  <2> HIDE DEF l, h
  <2>6. h.enabled /\ Element(rows, p) = Filled(l, h)
    BY <2>1, <2>3, <2>4, <2>5
  <2>7. QED
    BY <2>3, <2>6
<1>7. ASSUME NEW l \in ListsIn(lists, ids), NEW h \in Range(l.hosts), h.enabled
      PROVE  \E p \in Enabled(rows) : Element(rows, p) = Filled(l, h)
  <2>1. PICK i \in D : l = lists[i]
    BY DEF ListsIn, Range
  <2>2. PICK j \in DOMAIN l.hosts : h = l.hosts[j]
    BY DEF Range
  <2>3. i \in DOMAIN rows /\ j \in DOMAIN rows[i] /\ rows[i][j] = Filled(l, h) /\ IsHost(h)
    BY <1>1, <1>2, <1>7, <2>1, <2>2
  <2>4. rows[i][j].enabled
    BY <1>7, <2>3, FilledIs
  <2>5. <<i, j>> \in Enabled(rows) /\ Element(rows, <<i, j>>) = Filled(l, h)
    BY <2>3, <2>4 DEF Enabled, Element
  <2>6. QED
    BY <2>5
<1>8. {Element(rows, p) : p \in Enabled(rows)} = all
  <2>1. \A e \in all : \E l \in ListsIn(lists, ids) : \E h \in Range(l.hosts) : h.enabled /\ e = Filled(l, h)
    OBVIOUS
  <2> HIDE DEF all
  <2>2. QED
    BY <1>6, <1>7, <2>1
<1>9. QED
  BY <1>4, <1>5, <1>8

(* The OIDs of lists.                                                      *)
LEMMA GetOidsIs ==
  ASSUME IsSeq(oidLists), \A l \in Range(oidLists) : IsOidList(l), NEW ids,
         \A i \in DOMAIN oidLists : oidLists[i].id \in ids => oidLists[i].oids # Null
  PROVE  /\ IsSeq(GetOids(ids)) /\ IsInjective(GetOids(ids))
         /\ Range(GetOids(ids)) = {m \in UNION {Range(l.oids) : l \in ListsIn(oidLists, ids)} : m.enabled}
<1> DEFINE rows == [i \in DOMAIN oidLists |-> IF oidLists[i].id \in ids THEN oidLists[i].oids ELSE <<>>]
           all == {m \in UNION {Range(l.oids) : l \in ListsIn(oidLists, ids)} : m.enabled}
           D == {i \in DOMAIN oidLists : oidLists[i].id \in ids}
<1>1. /\ DOMAIN rows = DOMAIN oidLists /\ D \subseteq DOMAIN oidLists
      /\ \A i \in DOMAIN oidLists : i \notin D => rows[i] = <<>>
      /\ \A i \in D : rows[i] = oidLists[i].oids
  OBVIOUS
<1> HIDE DEF rows
<1>2. \A i \in D : IsSeq(oidLists[i].oids) /\ oidLists[i] \in Range(oidLists)
  BY DEF IsOidList, Range
<1>3. AreLists(rows)
  <2>1. ASSUME NEW i \in DOMAIN oidLists PROVE DOMAIN rows[i] \subseteq Nat /\ IsFiniteSet(DOMAIN rows[i])
    <3>1. CASE i \in D
      <4>1. IsSeq(rows[i])
        BY <1>1, <1>2, <3>1
      <4>2. QED
        BY <4>1, SeqDomain
    <3>2. CASE i \notin D
      BY <1>1, <3>2, EmptyIs
    <3>3. QED
      BY <3>1, <3>2
  <2>2. DOMAIN oidLists \subseteq Nat /\ IsFiniteSet(DOMAIN oidLists)
    BY SeqDomain
  <2>3. QED
    BY <1>1, <2>1, <2>2 DEF AreLists
<1>4. GetOids(ids) = Collected(rows)
  BY DEF GetOids, rows
<1>5. /\ IsSeq(Collected(rows)) /\ IsInjective(Collected(rows))
      /\ Range(Collected(rows)) = {Element(rows, p) : p \in Enabled(rows)}
  BY <1>3, CollectedIs
<1>6. ASSUME NEW p \in Enabled(rows) PROVE Element(rows, p) \in all
  <2>1. PICK i \in DOMAIN rows : p \in {i} \X {j \in DOMAIN rows[i] : rows[i][j].enabled}
    BY DEF Enabled
  <2>2. PICK j \in DOMAIN rows[i] : p = <<i, j>> /\ rows[i][j].enabled
    BY <2>1
  <2>3. i \in D
    BY <1>1, <2>2, EmptyIs
  <2>4. /\ Element(rows, p) = rows[i][j] /\ rows[i][j] \in Range(oidLists[i].oids)
        /\ oidLists[i] \in ListsIn(oidLists, ids)
    BY <1>1, <1>2, <2>2, <2>3 DEF Element, Range, ListsIn
  <2>5. QED
    BY <2>2, <2>4
<1>7. ASSUME NEW l \in ListsIn(oidLists, ids), NEW m \in Range(l.oids), m.enabled
      PROVE  \E p \in Enabled(rows) : Element(rows, p) = m
  <2>1. PICK i \in D : l = oidLists[i]
    BY DEF ListsIn, Range
  <2>2. PICK j \in DOMAIN l.oids : m = l.oids[j]
    BY DEF Range
  <2>3. i \in DOMAIN rows /\ j \in DOMAIN rows[i] /\ rows[i][j] = m
    BY <1>1, <2>1, <2>2
  <2>4. <<i, j>> \in Enabled(rows) /\ Element(rows, <<i, j>>) = m
    BY <1>7, <2>3 DEF Enabled, Element
  <2>5. QED
    BY <2>4
<1>8. {Element(rows, p) : p \in Enabled(rows)} = all
  <2>1. \A m \in all : m.enabled /\ \E l \in ListsIn(oidLists, ids) : m \in Range(l.oids)
    OBVIOUS
  <2> HIDE DEF all
  <2>2. QED
    BY <1>6, <1>7, <2>1
<1>9. QED
  BY <1>4, <1>5, <1>8

-----------------------------------------------------------------------------
(***************************************************************************)
(* The invariant of the catalog.                                           *)
(***************************************************************************)
(* Whom a configuration polls.                                             *)
Target(c) == [poller |-> c.poller, host |-> c.host, port |-> c.port, community |-> c.community]

(* A configuration asks for what its poller wants.                         *)
Known(c) == /\ IsSeq(c.oids) /\ IsInjective(c.oids) /\ Range(c.oids) = Wanted(c.poller)
            /\ \A m \in Range(c.oids) : m.oid \in DOMAIN DottedString

(* The configurations of the first n pollers are there, each once.         *)
Covers(cs, n) ==
  /\ {Target(cs[r]) : r \in DOMAIN cs} = UNION {HostsListed(p) : p \in 1..n}
  /\ \A r, s \in DOMAIN cs : Target(cs[r]) = Target(cs[s]) => r = s
  /\ \A r \in DOMAIN cs : Known(cs[r]) /\ cs[r].poller \in 1..n

(* Each list is as it was given or filled in.                              *)
MaybeFilled(lists) ==
  /\ DOMAIN lists = DOMAIN given.hosts
  /\ \A i \in DOMAIN lists : \/ lists[i] = given.hosts[i]
                             \/ given.hosts[i].hosts # Null /\ lists[i] = FilledList(given.hosts[i])

JoinInv ==
  /\ pollers = given.pollers /\ oidLists \in {given.oids, Null}
  /\ next \in Nat \ {0} /\ next - 1 <= Len(pollers)
  /\ phase = "building" => next - 1 = Len(pollers)
  /\ phase = "joining" => next <= Len(pollers)
  /\ \/ DOMAIN hostLists = {} /\ DOMAIN configs = {}
     \/ MaybeFilled(hostLists) /\ Covers(configs, next - 1)

CatalogInv ==
  /\ phase \in {"reading", "joining", "building", "built", "running", "refused"}
  /\ given \in Catalogs
  /\ IsSeq(configs)
  /\ routes \in {0, Len(configs)}
  /\ phase = "reading" => DOMAIN configs = {} /\ next = 1
  /\ phase \in {"reading", "joining", "building"} => routes = 0
  /\ phase \in {"joining", "building"} => JoinInv
  /\ phase \in {"built", "running", "refused"} => DOMAIN configs = {} \/ Covers(configs, Len(given.pollers))

(* What a poller wants is in the files, and they are read once.            *)
LEMMA SameGiven ==
  ASSUME given' = given
  PROVE  /\ \A p : HostsListed(p)' = HostsListed(p) /\ Wanted(p)' = Wanted(p)
         /\ \A c : Known(c)' = Known(c)
<1>1. \A p : HostsListed(p)' = HostsListed(p) /\ Wanted(p)' = Wanted(p)
  BY DEF HostsListed, Wanted, ListsOf, EnabledIds
<1>2. \A c : Known(c)' = Known(c)
  BY <1>1 DEF Known
<1>3. QED
  BY <1>1, <1>2

(* getHostListIds and getOidListIds: the enabled references.               *)
LEMMA ListIdsIs == \A refs : ListIds(refs) = EnabledIds(refs)
BY DEF ListIds, EnabledIds, Range

(* Filling in lists that are filled in already changes nothing more.       *)
LEMMA FilledListsIs ==
  ASSUME given \in Catalogs, MaybeFilled(hostLists), NEW ids,
         \A i \in DOMAIN hostLists : hostLists[i].id \in ids => hostLists[i].hosts # Null
  PROVE  LET now == FilledLists(ids) IN
         /\ MaybeFilled(now) /\ DOMAIN now = DOMAIN given.hosts
         /\ \A i \in DOMAIN given.hosts :
              /\ now[i].id = given.hosts[i].id
              /\ given.hosts[i].id \in ids => given.hosts[i].hosts # Null /\ now[i] = FilledList(given.hosts[i])
<1> DEFINE now == FilledLists(ids)
<1>1. DOMAIN now = DOMAIN given.hosts /\ DOMAIN hostLists = DOMAIN given.hosts
  BY DEF FilledLists, MaybeFilled
<1>2. ASSUME NEW i \in DOMAIN given.hosts
      PROVE  /\ now[i].id = given.hosts[i].id
             /\ given.hosts[i].id \in ids => given.hosts[i].hosts # Null /\ now[i] = FilledList(given.hosts[i])
             /\ \/ now[i] = given.hosts[i]
                \/ given.hosts[i].hosts # Null /\ now[i] = FilledList(given.hosts[i])
  <2> DEFINE g == given.hosts[i]
             was == hostLists[i]
  <2>1. IsHostList(g)
    BY CatalogsAssumption DEF Range
  <2>2. was = g \/ (g.hosts # Null /\ was = FilledList(g))
    BY <1>1 DEF MaybeFilled
  <2>3. now[i] = IF was.id \in ids THEN FilledList(was) ELSE was
    BY <1>1 DEF FilledLists
  <2>4. was.id \in ids => was.hosts # Null
    BY <1>1
  <2> HIDE DEF g, was, now
  <2>5. g.hosts # Null => FilledList(FilledList(g)) = FilledList(g) /\ FilledList(g).id = g.id
    BY <2>1, FilledTwice, FilledListIs
  <2>6. QED
    BY <2>2, <2>3, <2>4, <2>5 DEF g
<1>3. QED
  BY <1>1, <1>2 DEF MaybeFilled

(* The configurations of one more poller.                                  *)
LEMMA CoversMore ==
  ASSUME given \in Catalogs, NEW n \in Nat, NEW cs, IsSeq(cs), Covers(cs, n),
         NEW hosts, IsSeq(hosts), IsInjective(hosts),
         Range(hosts) = UNION {{Filled(l, h) : h \in {x \in Range(l.hosts) : x.enabled}} :
                                 l \in ListsIn(given.hosts, EnabledIds(given.pollers[n + 1].hosts))},
         \A l \in ListsIn(given.hosts, EnabledIds(given.pollers[n + 1].hosts)) : l.hosts # Null,
         NEW oids, hosts # <<>> => /\ IsSeq(oids) /\ IsInjective(oids)
                                   /\ Range(oids) = Wanted(n + 1)
                                   /\ \A o \in Range(oids) : o.oid \in DOMAIN DottedString
  PROVE  LET all == cs \o [i \in DOMAIN hosts |-> Configuration(n + 1, hosts[i], oids)]
         IN  IsSeq(all) /\ Covers(all, n + 1)
<1> DEFINE m == n + 1
           C(h) == Configuration(m, h, oids)
           new == [i \in DOMAIN hosts |-> C(hosts[i])]
           all == cs \o new
           k == Len(cs)
           l == Len(hosts)
           lists == ListsIn(given.hosts, EnabledIds(given.pollers[m].hosts))
<1>1. /\ k \in Nat /\ l \in Nat /\ DOMAIN cs = 1 .. k /\ DOMAIN hosts = 1 .. l
      /\ DOMAIN new = 1 .. l /\ m \in Nat /\ n < m
  BY SeqDomain
<1>2. cs \in Seq(Range(all) \cup Range(cs)) /\ new \in Seq(Range(new)) /\ Len(new) = l
  BY <1>1 DEF IsSeq, Range
<1>3. /\ DOMAIN all = 1 .. k + l
      /\ \A r \in 1 .. k : all[r] = cs[r]
      /\ \A i \in 1 .. l : all[k + i] = new[i]
  BY <1>1, <1>2
<1>4. \A r \in 1 .. k + l : r \in 1 .. k \/ (r - k \in 1 .. l /\ k + (r - k) = r)
  BY <1>1
<1>5. \A r \in 1 .. k : r \in 1 .. k + l
  BY <1>1
<1>6. \A i \in 1 .. l : k + i \in 1 .. k + l
  BY <1>1
<1>7. all \in Seq(Range(all))
  <2>1. all = [r \in 1 .. k + l |-> all[r]]
    BY <1>2, <1>3, SMTT(30)
  <2>2. \A r \in 1 .. k + l : all[r] \in Range(all)
    BY <1>3 DEF Range
  <2> HIDE DEF all
  <2>3. QED
    BY <1>1, <2>1, <2>2
<1> DEFINE T(e) == [poller |-> m, host |-> e.host, port |-> e.port, community |-> e.community]
<1>8. ASSUME NEW i \in 1 .. l
      PROVE  Target(new[i]) = T(hosts[i]) /\ new[i].poller = m /\ new[i].oids = oids
  <2>1. new[i] = Configuration(m, hosts[i], oids)
    BY <1>1
  <2> HIDE DEF new, m
  <2>2. QED
    BY <2>1 DEF Target, Configuration
<1>20. \A e, f : T(e) = T(f) => e.host = f.host /\ e.port = f.port /\ e.community = f.community
  <2>1. ASSUME NEW e, NEW f, T(e) = T(f) PROVE e.host = f.host /\ e.port = f.port /\ e.community = f.community
    <3>1. T(e).host = e.host /\ T(e).port = e.port /\ T(e).community = e.community
      OBVIOUS
    <3>2. T(f).host = f.host /\ T(f).port = f.port /\ T(f).community = f.community
      OBVIOUS
    <3> HIDE DEF T
    <3>3. QED
      BY <2>1, <3>1, <3>2
  <2>2. QED
    BY <2>1
<1>21. ASSUME NEW g, NEW h, IsHost(h)
       PROVE  T(Filled(g, h)) = [poller |-> m, host |-> h.host, port |-> Filled(g, h).port,
                                 community |-> Filled(g, h).community]
  BY <1>21, FilledIs
<1> HIDE DEF all, new, k, l, m, C, T, lists
<1>9. \A g \in lists : \A h \in Range(g.hosts) : IsHost(h)
  BY CatalogsAssumption DEF lists, ListsIn, IsHostList, m
<1>10. Range(hosts) = UNION {{Filled(g, h) : h \in {x \in Range(g.hosts) : x.enabled}} : g \in lists}
  BY DEF lists, m
<1>11. HostsListed(m) = UNION {{[poller |-> m, host |-> h.host, port |-> Filled(g, h).port,
                                 community |-> Filled(g, h).community] :
                                   h \in {x \in Range(g.hosts) : x.enabled}} : g \in lists}
  BY DEF HostsListed, lists, ListsOf, ListsIn
<1>12. \A e \in Range(hosts) : IsHost(e) /\ e.enabled
  BY <1>9, <1>10, FilledIs, SMTT(30)
<1>13. {Target(new[i]) : i \in 1 .. l} = HostsListed(m)
  <2>1. {Target(new[i]) : i \in 1 .. l} = {T(e) : e \in Range(hosts)}
    <3>1. {Target(new[i]) : i \in 1 .. l} = {T(hosts[i]) : i \in 1 .. l}
      BY <1>8
    <3>2. Range(hosts) = {hosts[i] : i \in 1 .. l}
      BY <1>1 DEF Range
    <3>3. QED
      BY <3>1, <3>2
  <2>2. ASSUME NEW e \in Range(hosts) PROVE T(e) \in HostsListed(m)
    <3>1. PICK g \in lists : e \in {Filled(g, h) : h \in {x \in Range(g.hosts) : x.enabled}}
      BY <1>10
    <3>2. PICK h \in Range(g.hosts) : h.enabled /\ e = Filled(g, h)
      BY <3>1
    <3>3. T(e) = [poller |-> m, host |-> h.host, port |-> Filled(g, h).port,
                  community |-> Filled(g, h).community]
      BY <1>9, <1>21, <3>2
    <3>4. T(e) \in {[poller |-> m, host |-> x.host, port |-> Filled(g, x).port, community |-> Filled(g, x).community] :
                     x \in {y \in Range(g.hosts) : y.enabled}}
      BY <3>2, <3>3
    <3>5. QED
      BY <1>11, <3>4
  <2>3. ASSUME NEW t \in HostsListed(m) PROVE \E e \in Range(hosts) : t = T(e)
    <3>1. PICK g \in lists : t \in {[poller |-> m, host |-> h.host, port |-> Filled(g, h).port,
                                     community |-> Filled(g, h).community] :
                                       h \in {x \in Range(g.hosts) : x.enabled}}
      BY <1>11
    <3>2. PICK h \in Range(g.hosts) : h.enabled /\ t = [poller |-> m, host |-> h.host, port |-> Filled(g, h).port,
                                                        community |-> Filled(g, h).community]
      BY <3>1
    <3>3. Filled(g, h) \in Range(hosts)
      <4>1. Filled(g, h) \in {Filled(g, x) : x \in {y \in Range(g.hosts) : y.enabled}}
        BY <3>2
      <4>2. QED
        BY <1>10, <4>1
    <3>4. QED
      BY <1>9, <1>21, <3>2, <3>3
  <2>4. QED
    BY <2>1, <2>2, <2>3
<1>14. \A i, j \in 1 .. l : Target(new[i]) = Target(new[j]) => i = j
  <2>1. ASSUME NEW i \in 1 .. l, NEW j \in 1 .. l, Target(new[i]) = Target(new[j]) PROVE i = j
    <3>1. hosts[i] \in Range(hosts) /\ hosts[j] \in Range(hosts)
      BY <1>1 DEF Range
    <3>2. hosts[i].host = hosts[j].host /\ hosts[i].port = hosts[j].port /\ hosts[i].community = hosts[j].community
      BY <1>8, <1>20, <2>1
    <3>3. hosts[i].enabled = hosts[j].enabled
      BY <1>12, <3>1 DEF IsHost
    <3>4. hosts[i] = hosts[j]
      BY <1>12, <3>1, <3>2, <3>3 DEF IsHost
    <3>5. QED
      BY <1>1, <3>4 DEF IsInjective
  <2>2. QED
    BY <2>1
<1>15. /\ {Target(cs[r]) : r \in 1 .. k} = UNION {HostsListed(p) : p \in 1 .. n}
       /\ \A r, s \in 1 .. k : Target(cs[r]) = Target(cs[s]) => r = s
       /\ \A r \in 1 .. k : Known(cs[r]) /\ cs[r].poller \in 1 .. n
  BY <1>1 DEF Covers
<1>16. {Target(all[r]) : r \in DOMAIN all} = UNION {HostsListed(p) : p \in 1 .. m}
  <2>1. 1 .. m = 1 .. n \cup {m}
    BY DEF m
  <2>2. {Target(all[r]) : r \in DOMAIN all} = {Target(cs[r]) : r \in 1 .. k} \cup {Target(new[i]) : i \in 1 .. l}
    BY <1>3, <1>4, <1>5, <1>6
  <2>3. QED
    BY <1>13, <1>15, <2>1, <2>2, ZenonT(30)
<1>17. \A r, s \in DOMAIN all : Target(all[r]) = Target(all[s]) => r = s
  <2>1. \A c : Target(c).poller = c.poller
    BY DEF Target
  <2>2. ASSUME NEW r \in 1 .. k, NEW i \in 1 .. l PROVE Target(cs[r]) # Target(new[i])
    <3>1. cs[r].poller \in 1 .. n /\ new[i].poller = m
      BY <1>8, <1>15
    <3>2. cs[r].poller # m
      BY <1>1, <3>1
    <3>3. QED
      BY <2>1, <3>1, <3>2
  <2>3. ASSUME NEW r \in 1 .. k + l, NEW s \in 1 .. k + l, Target(all[r]) = Target(all[s]) PROVE r = s
    <3>1. CASE r \in 1 .. k /\ s \in 1 .. k
      BY <1>3, <1>15, <2>3, <3>1
    <3>2. CASE r \in 1 .. k /\ s \notin 1 .. k
      <4>1. all[r] = cs[r] /\ s - k \in 1 .. l /\ all[s] = new[s - k]
        BY <1>3, <1>4, <3>2
      <4>2. QED
        BY <2>2, <2>3, <3>2, <4>1
    <3>3. CASE r \notin 1 .. k /\ s \in 1 .. k
      <4>1. all[s] = cs[s] /\ r - k \in 1 .. l /\ all[r] = new[r - k]
        BY <1>3, <1>4, <3>3
      <4>2. QED
        BY <2>2, <2>3, <3>3, <4>1
    <3>4. CASE r \notin 1 .. k /\ s \notin 1 .. k
      <4>1. r - k \in 1 .. l /\ all[r] = new[r - k] /\ s - k \in 1 .. l /\ all[s] = new[s - k]
        BY <1>3, <1>4, <3>4
      <4>2. r - k = s - k
        BY <1>14, <2>3, <4>1
      <4>3. QED
        BY <1>1, <4>2
    <3>5. QED
      BY <3>1, <3>2, <3>3, <3>4
  <2>4. QED
    BY <1>3, <2>3
<1>18. ASSUME NEW r \in DOMAIN all PROVE Known(all[r]) /\ all[r].poller \in 1 .. m
  <2>1. CASE r \in 1 .. k
    <3>1. Known(all[r]) /\ all[r].poller \in 1 .. n
      BY <1>3, <1>15, <2>1
    <3>2. QED
      BY <1>1, <3>1
  <2>2. CASE r \notin 1 .. k
    <3>1. r - k \in 1 .. l /\ all[r] = new[r - k]
      BY <1>3, <1>4, <2>2
    <3>2. all[r].poller = m /\ all[r].oids = oids
      BY <1>8, <3>1
    <3>3. hosts # <<>>
      BY <1>1, <3>1, EmptyIs
    <3>4. /\ IsSeq(oids) /\ IsInjective(oids) /\ Range(oids) = Wanted(m)
          /\ \A o \in Range(oids) : o.oid \in DOMAIN DottedString
      BY <3>3 DEF m
    <3>5. m \in 1 .. m
      BY <1>1 DEF m
    <3>6. QED
      BY <3>2, <3>4, <3>5 DEF Known
  <2>3. QED
    BY <2>1, <2>2
<1>19. QED
  BY <1>7, <1>16, <1>17, <1>18 DEF Covers, IsSeq, all, new, C, m

(* The empty list is a list.                                               *)
LEMMA EmptySeqIs == ASSUME NEW s, s = <<>> PROVE IsSeq(s) /\ DOMAIN s = {} /\ Len(s) = 0
BY EmptyIs DEF IsSeq, Range

(* The loop over the pollers throws, or adds what the next one lists.      *)
LEMMA ThrowKeeps == ASSUME CatalogInv, routes = 0, Throw PROVE CatalogInv'
<1>1. configs' = <<>> /\ routes' = 0 /\ given' = given /\ phase' = "built"
  BY DEF Throw, Give
<1>2. IsSeq(configs') /\ DOMAIN configs' = {}
  BY <1>1, EmptySeqIs
<1>3. QED
  BY <1>1, <1>2 DEF CatalogInv, IsSeq

(* A turn of that loop.                                                    *)
LEMMA JoinKeeps ==
  ASSUME CatalogInv, JoinPoller
  PROVE  CatalogInv'
<1> DEFINE hostIds == ListIds(pollers[next].hosts)
           oidIds == ListIds(pollers[next].oids)
           lists == FilledLists(hostIds)
           hosts == GetHosts(lists, hostIds)
           oids == GetOids(oidIds)
           new == [i \in DOMAIN hosts |-> Configuration(next, hosts[i], oids)]
           n == next - 1
<1>1. phase = "joining" /\ JoinInv /\ given \in Catalogs /\ routes = 0 /\ IsSeq(configs)
  BY DEF JoinPoller, CatalogInv
<1>2. n \in Nat /\ n + 1 = next /\ pollers = given.pollers
  BY <1>1 DEF JoinInv
<1>3. hostIds = EnabledIds(given.pollers[n + 1].hosts) /\ oidIds = EnabledIds(given.pollers[n + 1].oids)
  BY <1>2, ListIdsIs
<1>4. IF ThrowsNull(hosts, hostIds, oidIds) THEN Throw
      ELSE /\ hostLists' = lists /\ Give(configs \o new) /\ next' = next + 1
           /\ phase' = IF next = Len(pollers) THEN "building" ELSE "joining"
           /\ UNCHANGED <<files, given, pollers, oidLists, routes, pending, at, measure>>
  BY DEF JoinPoller
<1> HIDE DEF hostIds, oidIds, lists, hosts, oids, new, n
<1>5. CASE ThrowsNull(hosts, hostIds, oidIds)
  BY <1>1, <1>4, <1>5, ThrowKeeps
<1>6. CASE ~ThrowsNull(hosts, hostIds, oidIds)
  <2>1. /\ hostLists' = lists /\ configs' = configs \o new /\ next' = next + 1
        /\ phase' = IF next = Len(pollers) THEN "building" ELSE "joining"
        /\ given' = given /\ pollers' = pollers /\ oidLists' = oidLists /\ routes' = routes
    BY <1>4, <1>6 DEF Give
  <2>2. \A i \in DOMAIN hostLists : hostLists[i].id \in hostIds => hostLists[i].hosts # Null
    BY <1>6 DEF ThrowsNull
  <2>3. hosts # <<>> => oidLists = given.oids /\ \A i \in DOMAIN oidLists : oidLists[i].id \in oidIds => oidLists[i].oids # Null
    BY <1>1, <1>6 DEF ThrowsNull, JoinInv
  <2>4. IsSeq(given.hosts) /\ IsSeq(given.oids) /\ IsSeq(given.pollers)
        /\ (\A l \in Range(given.hosts) : IsHostList(l)) /\ (\A l \in Range(given.oids) : IsOidList(l))
    BY <1>1, CatalogsAssumption
  <2>5. next' - 1 = n + 1 /\ next' \in Nat \ {0} /\ next' - 1 <= Len(pollers')
        /\ (phase' = "building" => next' - 1 = Len(pollers')) /\ (phase' = "joining" => next' <= Len(pollers'))
    <3>1. next \in Nat /\ next <= Len(pollers) /\ Len(pollers) \in Nat
      BY <1>1, <1>2, <2>4, SeqDomain DEF JoinInv
    <3>2. QED
      BY <1>2, <2>1, <3>1
  <2>6. CASE DOMAIN hostLists = {} /\ DOMAIN configs = {}
    <3>1. DOMAIN lists = {}
      BY <2>6 DEF lists, FilledLists
    <3>2. DOMAIN hosts = {}
      <4> DEFINE rows == [i \in DOMAIN lists |-> IF lists[i].id \in hostIds THEN lists[i].hosts ELSE <<>>]
      <4>1. hosts = Collected(rows) /\ DOMAIN rows = {}
        BY <3>1 DEF hosts, GetHosts
      <4> HIDE DEF rows
      <4>2. AreLists(rows)
        BY <4>1, FS_EmptySet DEF AreLists
      <4>3. Enabled(rows) = {}
        BY <4>1 DEF Enabled
      <4>4. Range(hosts) = {}
        BY <4>1, <4>2, <4>3, CollectedIs
      <4>5. QED
        BY <4>4 DEF Range
    <3>3. DOMAIN new = {} /\ IsSeq(new)
      BY <3>2 DEF new, IsSeq
    <3>4. DOMAIN configs' = {} /\ IsSeq(configs')
      <4>1. Len(configs) = 0 /\ Len(new) = 0
        BY <1>1, <2>6, <3>3, SeqDomain
      <4>2. configs \in Seq({}) /\ new \in Seq({})
        BY <1>1, <2>6, <3>3 DEF IsSeq, Range
      <4>3. configs \o new \in Seq({}) /\ Len(configs \o new) = 0
        BY <4>1, <4>2
      <4>4. configs' = <<>>
        BY <2>1, <4>3
      <4>5. QED
        BY <4>4, EmptySeqIs
    <3>5. QED
      BY <1>1, <2>1, <2>5, <3>1, <3>4 DEF CatalogInv, JoinInv
  <2>7. CASE MaybeFilled(hostLists) /\ Covers(configs, n)
    <3>1. /\ MaybeFilled(lists) /\ DOMAIN lists = DOMAIN given.hosts
          /\ \A i \in DOMAIN given.hosts :
               /\ lists[i].id = given.hosts[i].id
               /\ given.hosts[i].id \in hostIds => given.hosts[i].hosts # Null /\ lists[i] = FilledList(given.hosts[i])
      BY <1>1, <2>2, <2>7, FilledListsIs DEF lists
    <3>2. /\ IsSeq(hosts) /\ IsInjective(hosts)
          /\ Range(hosts) = UNION {{Filled(l, h) : h \in {x \in Range(l.hosts) : x.enabled}} :
                                     l \in ListsIn(given.hosts, hostIds)}
      BY <2>4, <3>1, GetHostsIs DEF hosts
    <3>3. \A l \in ListsIn(given.hosts, hostIds) : l.hosts # Null
      BY <3>1 DEF ListsIn, Range
    <3>4. hosts # <<>> => /\ IsSeq(oids) /\ IsInjective(oids) /\ Range(oids) = Wanted(n + 1)
                          /\ \A o \in Range(oids) : o.oid \in DOMAIN DottedString
      <4>1. SUFFICES ASSUME hosts # <<>>
                     PROVE  /\ IsSeq(oids) /\ IsInjective(oids) /\ Range(oids) = Wanted(n + 1)
                            /\ \A o \in Range(oids) : o.oid \in DOMAIN DottedString
        OBVIOUS
      <4>2. /\ IsSeq(oids) /\ IsInjective(oids)
            /\ Range(oids) = {m \in UNION {Range(l.oids) : l \in ListsIn(given.oids, oidIds)} : m.enabled}
        BY <2>3, <2>4, <4>1, GetOidsIs DEF oids
      <4>3. ListsIn(given.oids, oidIds) = ListsOf(given.oids, given.pollers[n + 1].oids)
        BY <1>3 DEF ListsIn, ListsOf
      <4>4. ASSUME NEW l \in ListsIn(given.oids, oidIds) PROVE \A m \in Range(l.oids) : m.oid \in DOMAIN DottedString
        <5>1. l \in Range(given.oids) /\ l.oids # Null
          BY <2>3, <4>1 DEF ListsIn, Range
        <5>2. QED
          BY <2>4, <5>1 DEF IsOidList
      <4>5. \A o \in Range(oids) : \E l \in ListsIn(given.oids, oidIds) : o \in Range(l.oids)
        BY <4>2
      <4>6. \A o \in Range(oids) : o.oid \in DOMAIN DottedString
        BY <4>4, <4>5
      <4>7. QED
        BY <4>2, <4>3, <4>6 DEF Wanted
    <3>5. new = [i \in DOMAIN hosts |-> Configuration(n + 1, hosts[i], oids)]
      BY <1>2 DEF new
    <3>6. IsSeq(configs') /\ Covers(configs', n + 1)
      BY <1>1, <1>2, <1>3, <2>1, <2>7, <3>2, <3>3, <3>4, <3>5, CoversMore
    <3>7. Covers(configs, next - 1)' /\ MaybeFilled(hostLists)'
      <4>1. (\A p : HostsListed(p)' = HostsListed(p)) /\ \A c : Known(c)' = Known(c)
        BY <2>1, SameGiven
      <4>2. MaybeFilled(hostLists)'
        BY <2>1, <3>1 DEF MaybeFilled
      <4>3. /\ {Target(configs'[r]) : r \in DOMAIN configs'} = UNION {HostsListed(p) : p \in 1 .. n + 1}
            /\ \A r, s \in DOMAIN configs' : Target(configs'[r]) = Target(configs'[s]) => r = s
            /\ \A r \in DOMAIN configs' : Known(configs'[r]) /\ configs'[r].poller \in 1 .. n + 1
        BY <3>6 DEF Covers
      <4>4. UNION {HostsListed(p)' : p \in 1 .. n + 1} = UNION {HostsListed(p) : p \in 1 .. n + 1}
        BY <4>1
      <4>5. Covers(configs, next - 1)'
        BY <2>5, <4>1, <4>3, <4>4 DEF Covers
      <4>6. QED
        BY <4>2, <4>5
    <3>8. QED
      BY <1>1, <2>1, <2>5, <3>6, <3>7 DEF CatalogInv, JoinInv, IsSeq
  <2>8. QED
    BY <1>1, <2>6, <2>7 DEF JoinInv, n
<1>7. QED
  BY <1>5, <1>6

(* What covers the pollers goes on to, while the catalog stays.            *)
LEMMA CoversStays ==
  ASSUME given' = given, configs' = configs, NEW n, NEW m, m = n, Covers(configs, n)
  PROVE  Covers(configs, m)'
<1>1. (\A p : HostsListed(p)' = HostsListed(p)) /\ \A c : Known(c)' = Known(c)
  BY SameGiven
<1>2. UNION {HostsListed(p)' : p \in 1 .. n} = UNION {HostsListed(p) : p \in 1 .. n}
  BY <1>1
<1>3. QED
  BY <1>1, <1>2 DEF Covers

(* The three files are read.                                               *)
LEMMA ReadKeeps == ASSUME CatalogInv, ReadAndValidate PROVE CatalogInv'
<1>1. phase = "reading" /\ routes = 0 /\ DOMAIN configs = {} /\ next = 1 /\ given \in Catalogs /\ IsSeq(configs)
  BY DEF CatalogInv, ReadAndValidate
<1>2. CASE Throw
  BY <1>1, <1>2, ThrowKeeps
<1>3. CASE ~Throw
  <2>1. /\ pollers' = given.pollers
        /\ hostLists' = IF files["hosts"] = "good" THEN given.hosts ELSE <<>>
        /\ oidLists' = IF files["oids"] = "good" THEN given.oids ELSE Null
        /\ phase' = IF given.pollers = <<>> THEN "building" ELSE "joining"
        /\ given' = given /\ next' = next /\ configs' = configs /\ routes' = routes
    BY <1>3 DEF ReadAndValidate
  <2>2. IsSeq(given.pollers)
    BY <1>1, CatalogsAssumption
  <2>3. /\ Len(given.pollers) \in Nat
        /\ given.pollers = <<>> => Len(given.pollers) = 0
        /\ given.pollers # <<>> => 1 <= Len(given.pollers)
    <3>1. Len(given.pollers) \in Nat /\ (Len(given.pollers) = 0 => given.pollers = <<>>)
      BY <2>2 DEF IsSeq
    <3>2. QED
      BY <3>1, EmptySeqIs
  <2>4. Covers(configs, next - 1)'
    <3>1. DOMAIN configs' = {} /\ 1 .. next' - 1 = {}
      BY <1>1, <2>1
    <3>2. QED
      BY <3>1 DEF Covers
  <2>5. DOMAIN hostLists' = {} \/ MaybeFilled(hostLists)'
    BY <2>1, EmptyIs DEF MaybeFilled
  <2>6. JoinInv'
    BY <1>1, <2>1, <2>3, <2>4, <2>5 DEF JoinInv
  <2>7. QED
    BY <1>1, <2>1, <2>6 DEF CatalogInv, IsSeq
<1>4. QED
  BY <1>2, <1>3

(* The routes are built.                                                   *)
LEMMA ConfigureKeeps == ASSUME CatalogInv, Configure PROVE CatalogInv'
<1>1. /\ phase = "building" /\ JoinInv /\ given \in Catalogs /\ IsSeq(configs)
      /\ phase' = "built" /\ routes' \in {0, Len(configs')} /\ given' = given /\ configs' = configs
  BY DEF CatalogInv, Configure, catalogVars
<1>2. DOMAIN configs = {} \/ Covers(configs, Len(given.pollers))
  BY <1>1 DEF JoinInv
<1>3. DOMAIN configs' = {} \/ Covers(configs, Len(given.pollers))'
  BY <1>1, <1>2, CoversStays
<1>4. QED
  BY <1>1, <1>3 DEF CatalogInv, IsSeq

(* From then on the configurations stay as they are.                       *)
Made == phase \in {"built", "running", "refused"}

(* A step that leaves the catalog alone keeps what holds of it.            *)
LEMMA CatalogStays ==
  ASSUME CatalogInv, UNCHANGED catalogVars, phase' = phase \/ (Made /\ Made')
  PROVE  CatalogInv'
<1>1. /\ given' = given /\ pollers' = pollers /\ hostLists' = hostLists /\ oidLists' = oidLists
      /\ next' = next /\ configs' = configs /\ routes' = routes
  BY DEF catalogVars
<1>2. CASE Made /\ Made'
  <2>1. DOMAIN configs = {} \/ Covers(configs, Len(given.pollers))
    BY <1>2 DEF CatalogInv, Made
  <2>2. DOMAIN configs' = {} \/ Covers(configs, Len(given.pollers))'
    BY <1>1, <2>1, CoversStays
  <2>3. QED
    BY <1>1, <1>2, <2>2 DEF CatalogInv, IsSeq, Made
<1>3. CASE phase' = phase /\ phase \in {"joining", "building"}
  <2>1. JoinInv
    BY <1>3 DEF CatalogInv
  <2>2. MaybeFilled(hostLists) => MaybeFilled(hostLists)'
    BY <1>1 DEF MaybeFilled
  <2>3. Covers(configs, next - 1) => Covers(configs, next - 1)'
    BY <1>1, CoversStays
  <2>4. JoinInv'
    BY <1>1, <1>3, <2>1, <2>2, <2>3 DEF JoinInv
  <2>5. QED
    BY <1>1, <1>3, <2>4 DEF CatalogInv, IsSeq
<1>4. CASE phase' = phase /\ phase = "reading"
  BY <1>1, <1>4 DEF CatalogInv, IsSeq
<1>5. QED
  BY <1>2, <1>3, <1>4 DEF CatalogInv, Made

(* Nothing is loaded at first.                                             *)
LEMMA CatalogInit == Init => CatalogInv
<1> SUFFICES ASSUME Init PROVE CatalogInv
  OBVIOUS
<1>1. phase = "reading" /\ given \in Catalogs /\ configs = <<>> /\ next = 1 /\ routes = 0
  BY DEF Init
<1>2. QED
  BY <1>1, EmptySeqIs DEF CatalogInv

(* Every step keeps what holds of the catalog.                             *)
LEMMA CatalogNext == CatalogInv /\ [Next]_vars => CatalogInv'
<1> SUFFICES ASSUME CatalogInv, [Next]_vars PROVE CatalogInv'
  OBVIOUS
<1>1. CASE ReadAndValidate
  BY <1>1, ReadKeeps
<1>2. CASE JoinPoller
  BY <1>2, JoinKeeps
<1>3. CASE Configure
  BY <1>3, ConfigureKeeps
<1>4. CASE Start
  <2>1. Made /\ Made' /\ UNCHANGED catalogVars
    BY <1>4 DEF Start, Made
  <2>2. QED
    BY <2>1, CatalogStays
<1>5. ASSUME NEW r \in Routes, Poll(r) PROVE CatalogInv'
  BY <1>5, CatalogStays DEF Poll
<1>6. ASSUME NEW q \in pending, NoAnswer(q) PROVE CatalogInv'
  BY <1>6, CatalogStays DEF NoAnswer
<1>7. ASSUME NEW q \in pending, NEW absent \in SUBSET Range(Asked(q[1])), Answer(q, absent) PROVE CatalogInv'
  BY <1>7, CatalogStays DEF Answer
<1>8. ASSUME NEW item \in DOMAIN at, Transform(item) PROVE CatalogInv'
  BY <1>8, CatalogStays DEF Transform
<1>9. ASSUME NEW item \in DOMAIN at, Post(item) PROVE CatalogInv'
  BY <1>9, CatalogStays DEF Post
<1>10. CASE UNCHANGED vars
  <2>1. UNCHANGED catalogVars /\ phase' = phase
    BY <1>10 DEF vars
  <2>2. QED
    BY <2>1, CatalogStays
<1>11. QED
  BY <1>1, <1>2, <1>3, <1>4, <1>5, <1>6, <1>7, <1>8, <1>9, <1>10 DEF Next, Load

(* The polled hosts are those the files list, each polled once.            *)
LEMMA CatalogPolled == CatalogInv => PolledAsListed
<1> SUFFICES ASSUME CatalogInv, routes > 0 PROVE PolledAsListed
  BY DEF PolledAsListed
<1> DEFINE polled == [r \in Routes |-> [poller |-> configs[r].poller, host |-> configs[r].host,
                                        port |-> configs[r].port, community |-> configs[r].community]]
           n == Len(given.pollers)
<1>1. routes = Len(configs) /\ IsSeq(configs) /\ Made /\ given \in Catalogs
      /\ (DOMAIN configs = {} \/ Covers(configs, n))
  BY DEF CatalogInv, Made
<1>2. DOMAIN configs = Routes /\ 1 \in DOMAIN configs
  BY <1>1, SeqDomain DEF Routes
<1>3. DOMAIN given.pollers = 1 .. n
  BY <1>1, CatalogsAssumption, SeqDomain
<1>4. polled = [r \in Routes |-> Target(configs[r])]
  BY DEF Target
<1> HIDE DEF polled
<1>5. /\ {Target(configs[r]) : r \in Routes} = UNION {HostsListed(p) : p \in DOMAIN given.pollers}
      /\ \A r, s \in Routes : Target(configs[r]) = Target(configs[s]) => r = s
  BY <1>1, <1>2, <1>3 DEF Covers
<1>6. Range(polled) = UNION {HostsListed(p) : p \in DOMAIN given.pollers}
  BY <1>4, <1>5 DEF Range
<1>7. IsInjective(polled)
  BY <1>4, <1>5 DEF IsInjective
<1>8. QED
  BY <1>6, <1>7 DEF PolledAsListed, polled

(* Every enabled host of the enabled lists of a poller is polled for it, as *)
(* its list fills it in, and once (SnmpMetricCatalog.load).                *)
THEOREM PolledSound == Spec => []PolledAsListed
<1>1. QED
  BY CatalogInit, CatalogNext, CatalogPolled, PTL DEF Spec

Below == {p \in Nat \X Nat : p[1] < p[2]}

(* A set of numbers up to n that is not empty has a largest.               *)
LEMMA MaxIs ==
  ASSUME NEW n \in Nat, NEW S, S \subseteq 1 .. n, S # {}
  PROVE  Max(S) \in S
<1> DEFINE T == {n - x : x \in S}
<1>1. IsWellFoundedOn(Below, Nat)
  BY NatLessThanWellFounded DEF OpToRel, Below
<1>2. T \subseteq Nat /\ T # {}
  <2>1. \A x \in S : n - x \in Nat
    OBVIOUS
  <2>2. QED
    BY <2>1
<1>3. PICK m \in T : \A t \in T : ~(<<t, m>> \in Below)
  BY <1>1, <1>2, WFMin
<1>4. PICK x \in S : m = n - x
  OBVIOUS
<1>5. \A y \in S : x >= y
  <2>1. ASSUME NEW y \in S PROVE x >= y
    <3>1. n - y \in T /\ n - y \in Nat /\ m \in Nat /\ x \in Nat /\ y \in Nat
      BY <1>2, <1>3
    <3>2. ~(n - y < m)
      BY <1>3, <3>1 DEF Below
    <3>3. QED
      BY <1>4, <3>1, <3>2
  <2>2. QED
    BY <2>1
<1>6. QED
  BY <1>5 DEF Max

(***************************************************************************)
(* The invariant of polling.                                               *)
(***************************************************************************)
(* The OIDs of a configuration, as the file spells them.                   *)
Oids(c) == {c.oids[i].oid : i \in DOMAIN c.oids}

(* The last OidMap of an OID.                                              *)
LEMMA OidMapIs ==
  ASSUME NEW c, IsSeq(c.oids), NEW oid \in Oids(c)
  PROVE  \E j \in DOMAIN c.oids : OidMapOf(c)[oid] = c.oids[j] /\ c.oids[j].oid = oid
<1> DEFINE S == {i \in DOMAIN c.oids : c.oids[i].oid = oid}
<1>1. S \subseteq DOMAIN c.oids /\ S # {} /\ \A i \in S : c.oids[i].oid = oid
  BY DEF Oids
<1>2. OidMapOf(c)[oid] = c.oids[Max(S)]
  BY DEF OidMapOf, Oids
<1> HIDE DEF S
<1>3. Max(S) \in S
  BY <1>1, SeqDomain, MaxIs
<1>4. QED
  BY <1>1, <1>2, <1>3

(* An item of a route, with its OidMap and the OID it asked for.           *)
IsItem(item) ==
  /\ item = <<item[1], item[2], item[3]>>
  /\ item[1] \in Routes /\ item[3] \in DOMAIN configs[item[1]].oids

OidOf(item) == DottedString[configs[item[1]].oids[item[3]].oid]

(* What the script makes of an item.                                       *)
MeasureOf(item) ==
  LET c == configs[item[1]]
  IN  [source |-> c.host, metric |-> OidMapOf(c)[OidOf(item)].metric]

PollInv ==
  /\ phase # "running" => pending = {} /\ DOMAIN at = {} /\ DOMAIN measure = {}
  /\ \A q \in pending : q[1] \in Routes
  /\ \A item \in DOMAIN at : IsItem(item)
  /\ DOMAIN measure \subseteq DOMAIN at
  /\ \A item \in DOMAIN measure :
       OidOf(item) \in Oids(configs[item[1]]) /\ measure[item] = MeasureOf(item)
  /\ \A item \in DOMAIN at :
       at[item] = "unlisted" => OidOf(item) \notin Oids(configs[item[1]])

(* The OID of an item is the one that was asked for in its place.          *)
LEMMA AskedIs ==
  ASSUME NEW item, IsItem(item)
  PROVE  item[3] \in DOMAIN Asked(item[1]) /\ Asked(item[1])[item[3]] = OidOf(item)
BY DEF IsItem, Asked, OidOf

(* getOidMap has every OID of the configuration, as the file spells it.    *)
LEMMA OidMapDomain == \A c : DOMAIN OidMapOf(c) = Oids(c)
BY DEF OidMapOf, Oids

(* What is said of an item goes on to be true.                             *)
LEMMA ItemStays ==
  ASSUME configs' = configs
  PROVE  /\ Routes' = Routes
         /\ \A item : /\ IsItem(item)' <=> IsItem(item)
                      /\ OidOf(item)' = OidOf(item) /\ MeasureOf(item)' = MeasureOf(item)
<1>1. Routes' = Routes
  BY DEF Routes
<1>2. \A item : OidOf(item)' = OidOf(item)
  BY DEF OidOf
<1>3. \A item : MeasureOf(item)' = MeasureOf(item)
  BY <1>2 DEF MeasureOf
<1>4. QED
  BY <1>1, <1>2, <1>3 DEF IsItem

(* Nothing is polled at first.                                             *)
LEMMA PollInit == Init => PollInv
<1>1. DOMAIN <<>> = {}
  BY EmptyIs
<1>2. QED
  BY <1>1 DEF Init, PollInv

(* Nothing is polled while the catalog is loaded.                          *)
LEMMA LoadPolls ==
  ASSUME PollInv, Load
  PROVE  PollInv'
<1>1. phase # "running" /\ UNCHANGED <<pending, at, measure>>
  BY DEF Load, ReadAndValidate, Throw, JoinPoller, Configure, Start, pollVars
<1>2. pending = {} /\ DOMAIN at = {} /\ DOMAIN measure = {}
  BY <1>1 DEF PollInv
<1>3. QED
  BY <1>1, <1>2 DEF PollInv

(* The bindings of an answer are items.                                    *)
LEMMA AnswerKeeps ==
  ASSUME PollInv, NEW q \in pending, NEW absent, Answer(q, absent)
  PROVE  PollInv'
<1> DEFINE r == q[1]
           items == IF SplitFails(Asked(r), absent) THEN {} ELSE {<<r, q[2], i>> : i \in DOMAIN Asked(r)}
<1>1. /\ pending' = pending \ {q} /\ phase' = phase /\ measure' = measure /\ configs' = configs
      /\ at' = [item \in DOMAIN at \cup items |->
                  IF item \in DOMAIN at THEN at[item] ELSE HandleException(Asked(r)[item[3]], absent)]
  BY DEF Answer, catalogVars
<1>2. r \in Routes /\ phase = "running"
  BY DEF PollInv
<1>3. DOMAIN Asked(r) = DOMAIN configs[r].oids
  BY DEF Asked
<1>4. \A item \in items : \E i \in DOMAIN Asked(r) : item = <<r, q[2], i>>
  OBVIOUS
<1> HIDE DEF items, r
<1>5. \A item \in items : IsItem(item)
  BY <1>2, <1>3, <1>4 DEF IsItem
<1>6. \A item \in DOMAIN at' : IsItem(item)'
  BY <1>1, <1>5, ItemStays DEF PollInv
<1>7. \A item \in DOMAIN at' : at'[item] = "unlisted" => item \in DOMAIN at /\ at[item] = "unlisted"
  BY <1>1 DEF HandleException
<1>8. QED
  BY <1>1, <1>2, <1>6, <1>7, ItemStays DEF PollInv

(* The script makes a measure of an item, or fails.                        *)
LEMMA TransformKeeps ==
  ASSUME PollInv, NEW item \in DOMAIN at, Transform(item)
  PROVE  PollInv'
<1> DEFINE c == configs[item[1]]
           made == [source |-> c.host, metric |-> OidMapOf(c)[OidOf(item)].metric]
<1>1. IsItem(item) /\ phase = "running"
  BY DEF PollInv
<1>2. /\ phase' = phase /\ pending' = pending /\ configs' = configs
      /\ IF OidOf(item) \in Oids(c)
         THEN /\ measure' = [m \in DOMAIN measure \cup {item} |-> IF m = item THEN made ELSE measure[m]]
              /\ at' = [at EXCEPT ![item] = "measure"]
         ELSE at' = [at EXCEPT ![item] = "unlisted"] /\ UNCHANGED measure
  BY <1>1, AskedIs, OidMapDomain DEF Transform, HeaderConfig, catalogVars
<1>3. made = MeasureOf(item)
  BY DEF MeasureOf
<1> HIDE DEF c, made
<1>4. DOMAIN at' = DOMAIN at
  BY <1>2
<1>5. Routes' = Routes /\ \A i \in DOMAIN at' : IsItem(i)'
  BY <1>2, <1>4, ItemStays DEF PollInv
<1>6. CASE OidOf(item) \in Oids(c)
  <2>1. /\ measure' = [m \in DOMAIN measure \cup {item} |-> IF m = item THEN made ELSE measure[m]]
        /\ at' = [at EXCEPT ![item] = "measure"]
    BY <1>2, <1>6
  <2>2. \A i \in DOMAIN at : at'[i] = "unlisted" => at[i] = "unlisted"
    BY <2>1
  <2>3. DOMAIN measure' \subseteq DOMAIN at'
    BY <1>4, <2>1 DEF PollInv
  <2>4. \A i \in DOMAIN measure' : OidOf(i) \in Oids(configs[i[1]]) /\ measure'[i] = MeasureOf(i)
    BY <1>3, <1>6, <2>1 DEF PollInv, c
  <2>5. QED
    BY <1>1, <1>2, <1>4, <1>5, <2>2, <2>3, <2>4, ItemStays DEF PollInv
<1>7. CASE OidOf(item) \notin Oids(c)
  <2>1. at' = [at EXCEPT ![item] = "unlisted"] /\ measure' = measure
    BY <1>2, <1>7
  <2>2. \A i \in DOMAIN at : at'[i] = "unlisted" => OidOf(i) \notin Oids(configs[i[1]])
    BY <1>7, <2>1 DEF PollInv, c
  <2>3. QED
    BY <1>1, <1>2, <1>4, <1>5, <2>1, <2>2, ItemStays DEF PollInv
<1>8. QED
  BY <1>6, <1>7

(* Every step keeps what holds of the items.                               *)
LEMMA PollNext == PollInv /\ [Next]_vars => PollInv'
<1> SUFFICES ASSUME PollInv, [Next]_vars PROVE PollInv'
  OBVIOUS
<1>1. CASE Load
  BY <1>1, LoadPolls
<1>2. ASSUME NEW r \in Routes, Poll(r) PROVE PollInv'
  <2>1. /\ phase = "running" /\ phase' = phase /\ configs' = configs /\ at' = at /\ measure' = measure
        /\ pending' = pending \cup {<<r, sent[r] + 1>>}
    BY <1>2 DEF Poll, catalogVars
  <2>2. \A q \in pending' : q[1] \in Routes
    BY <2>1 DEF PollInv
  <2>3. QED
    BY <2>1, <2>2, ItemStays DEF PollInv
<1>3. ASSUME NEW q \in pending, NoAnswer(q) PROVE PollInv'
  BY <1>3, ItemStays DEF NoAnswer, PollInv, catalogVars
<1>4. ASSUME NEW q \in pending, NEW absent \in SUBSET Range(Asked(q[1])), Answer(q, absent) PROVE PollInv'
  BY <1>4, AnswerKeeps
<1>5. ASSUME NEW item \in DOMAIN at, Transform(item) PROVE PollInv'
  BY <1>5, TransformKeeps
<1>6. ASSUME NEW item \in DOMAIN at, Post(item) PROVE PollInv'
  <2>1. /\ phase' = phase /\ configs' = configs /\ pending' = pending /\ measure' = measure
    BY <1>6 DEF Post, catalogVars
  <2>2. DOMAIN at' = DOMAIN at /\ \A i \in DOMAIN at : at'[i] = "unlisted" => at[i] = "unlisted"
    BY <1>6 DEF Post
  <2>3. QED
    BY <2>1, <2>2, ItemStays DEF PollInv
<1>7. CASE UNCHANGED vars
  BY <1>7, ItemStays DEF vars, catalogVars, pollVars, PollInv
<1>8. QED
  BY <1>1, <1>2, <1>3, <1>4, <1>5, <1>6, <1>7 DEF Next

(* The OidMap a measure is made with is one the poller wants.              *)
LEMMA MadeFrom ==
  ASSUME NEW c, Known(c), NEW i \in DOMAIN c.oids, DottedString[c.oids[i].oid] \in Oids(c)
  PROVE  \E m \in Wanted(c.poller) :
           /\ OidMapOf(c)[DottedString[c.oids[i].oid]] = m
           /\ DottedString[m.oid] = DottedString[c.oids[i].oid]
<1> DEFINE oid == DottedString[c.oids[i].oid]
<1>1. PICK j \in DOMAIN c.oids : OidMapOf(c)[oid] = c.oids[j] /\ c.oids[j].oid = oid
  BY OidMapIs DEF Known
<1>2. c.oids[i] \in Range(c.oids) /\ c.oids[j] \in Wanted(c.poller)
  BY DEF Known, Range
<1>3. DottedString[oid] = oid
  BY <1>2, DottedStringAssumption DEF Known
<1>4. QED
  BY <1>1, <1>2, <1>3

(* What the invariants say of measures and of items the script misses.     *)
LEMMA PollsMeasured == CatalogInv /\ PollInv => MeasuredAsListed
<1> SUFFICES ASSUME CatalogInv, PollInv PROVE MeasuredAsListed
  OBVIOUS
<1>1. ASSUME NEW item \in DOMAIN at
      PROVE  IsItem(item) /\ Known(configs[item[1]]) /\ Asked(item[1])[item[3]] = OidOf(item)
  <2>1. IsItem(item) /\ phase = "running"
    BY DEF PollInv
  <2>2. item[1] \in DOMAIN configs
    BY <2>1, SeqDomain DEF CatalogInv, IsItem, Routes
  <2>3. Known(configs[item[1]])
    BY <2>1, <2>2 DEF CatalogInv, Covers
  <2>4. QED
    BY <2>1, <2>3, AskedIs
<1>2. ASSUME NEW item \in DOMAIN measure
      PROVE  /\ item \in DOMAIN at /\ measure[item].source = configs[item[1]].host
             /\ \E m \in Wanted(configs[item[1]].poller) :
                  m.metric = measure[item].metric /\ DottedString[m.oid] = OidOf(item)
  <2> DEFINE c == configs[item[1]]
  <2>1. item \in DOMAIN at /\ measure[item] = MeasureOf(item) /\ OidOf(item) \in Oids(c)
    BY DEF PollInv
  <2>2. measure[item].source = c.host /\ measure[item].metric = OidMapOf(c)[OidOf(item)].metric
    BY <2>1 DEF MeasureOf
  <2>3. item[3] \in DOMAIN c.oids /\ Known(c)
    BY <1>1, <2>1 DEF IsItem
  <2>4. \E m \in Wanted(c.poller) : OidMapOf(c)[OidOf(item)] = m /\ DottedString[m.oid] = OidOf(item)
    BY <2>1, <2>3, MadeFrom DEF OidOf
  <2>5. QED
    BY <2>1, <2>2, <2>4
<1>3. ASSUME NEW item \in DOMAIN measure
      PROVE  LET config == configs[item[1]]
                 oidMap == config.oids[item[3]]
                 value == measure[item]
             IN  /\ value.source = config.host
                 /\ \E m \in Wanted(config.poller) : /\ m.metric = value.metric
                                                    /\ DottedString[m.oid] = Asked(item[1])[item[3]]
                 /\ (\A m \in Wanted(config.poller) \ {oidMap} :
                       DottedString[m.oid] # DottedString[oidMap.oid] /\ m.metric # oidMap.metric)
                    => /\ value.metric = oidMap.metric
                       /\ \A other \in DOMAIN measure \ {item} :
                            other[1] = item[1] /\ other[2] = item[2] => measure[other].metric # oidMap.metric
  <2> DEFINE c == configs[item[1]]
             o == c.oids[item[3]]
             W == Wanted(c.poller)
  <2>1. /\ item \in DOMAIN at /\ IsItem(item) /\ Known(c) /\ Asked(item[1])[item[3]] = OidOf(item)
        /\ OidOf(item) = DottedString[o.oid]
    BY <1>1, <1>2 DEF OidOf
  <2>2. /\ measure[item].source = c.host
        /\ \E m \in W : m.metric = measure[item].metric /\ DottedString[m.oid] = OidOf(item)
    BY <1>2
  <2>3. ASSUME \A m \in W \ {o} : DottedString[m.oid] # DottedString[o.oid] /\ m.metric # o.metric,
               NEW other \in DOMAIN measure \ {item}, other[1] = item[1], other[2] = item[2],
               measure[other].metric = o.metric
        PROVE  FALSE
    <3>1. PICK m \in W : m.metric = measure[other].metric /\ DottedString[m.oid] = OidOf(other)
      BY <1>2, <2>3
    <3>2. m = o
      BY <2>3, <3>1
    <3>3. /\ IsItem(other) /\ other[3] \in DOMAIN c.oids /\ item[3] \in DOMAIN c.oids
      BY <1>1, <1>2, <2>1, <2>3 DEF IsItem
    <3>4. c.oids[other[3]] \in W
      BY <2>1, <3>3 DEF Known, Range
    <3>5. DottedString[c.oids[other[3]].oid] = DottedString[o.oid]
      BY <2>3, <3>1, <3>2 DEF OidOf
    <3>6. c.oids[other[3]] = o
      BY <2>3, <3>4, <3>5
    <3>7. other[3] = item[3]
      BY <2>1, <3>3, <3>6 DEF Known, IsInjective
    <3>8. other = item
      BY <2>1, <2>3, <3>3, <3>7 DEF IsItem
    <3>9. QED
      BY <2>3, <3>8
  <2>4. ASSUME \A m \in W \ {o} : DottedString[m.oid] # DottedString[o.oid] /\ m.metric # o.metric
        PROVE  measure[item].metric = o.metric
    BY <2>1, <2>2, <2>4
  <2> HIDE DEF c, o, W
  <2>5. (\A m \in W \ {o} : DottedString[m.oid] # DottedString[o.oid] /\ m.metric # o.metric)
        => /\ measure[item].metric = o.metric
           /\ \A other \in DOMAIN measure \ {item} :
                other[1] = item[1] /\ other[2] = item[2] => measure[other].metric # o.metric
    BY <2>3, <2>4
  <2>6. QED
    BY <2>1, <2>2, <2>5 DEF c, o, W
<1>4. ASSUME NEW item \in DOMAIN at, at[item] = "unlisted"
      PROVE  Asked(item[1])[item[3]] # configs[item[1]].oids[item[3]].oid
  <2>1. IsItem(item) /\ Asked(item[1])[item[3]] = OidOf(item) /\ OidOf(item) \notin Oids(configs[item[1]])
    BY <1>1, <1>4 DEF PollInv
  <2>2. configs[item[1]].oids[item[3]].oid \in Oids(configs[item[1]])
    BY <2>1 DEF IsItem, Oids
  <2>3. QED
    BY <2>1, <2>2
<1>5. QED
  BY <1>3, <1>4 DEF MeasuredAsListed

(* A value is sent as a measure of the host that was polled, under a       *)
(* metric that a list of its poller gives the OID, and from its own OID    *)
(* alone unless the lists disagree (snmp-to-measure.js, getOidMap).        *)
THEOREM MeasuredSound == Spec => []MeasuredAsListed
<1>1. QED
  BY CatalogInit, CatalogNext, PollInit, PollNext, PollsMeasured, PTL DEF Spec

-----------------------------------------------------------------------------
(***************************************************************************)
(* The translation tables.                                                 *)
(***************************************************************************)
(* The monitor is held by the one thread inside load().                    *)
MonitorHeld == \A t \in Threads : pc[t] = "loading" <=> monitor = t

(* Outside load() the table is empty or complete.                          *)
AllOrNothing == failures = 0 /\ monitor = NoThread => table \in {{}, Keys}

(* A thread that is about to read has seen the table complete.             *)
LookupAfterLoad ==
    \A t \in Threads : failures = 0 /\ pc[t] = "lookup" => table = Keys

CacheInv == /\ CacheTypeOK
        /\ MonitorHeld
        /\ AllOrNothing
        /\ LookupAfterLoad
        /\ MissOnlyAfterFailedLoad

USE DEF MonitorHeld, AllOrNothing, LookupAfterLoad, MissOnlyAfterFailedLoad

(* The invariant holds in every initial state: nothing is loaded, nobody   *)
(* is inside load().                                                       *)
LEMMA InitCacheInv == CacheInit => CacheInv
BY NoThreadAssumption, MaxFailuresAssumption DEF CacheInit, CacheInv, CacheTypeOK

(* Every step of every thread preserves the invariant.                     *)
LEMMA NextCacheInv == CacheInv /\ [CacheNext]_cacheVars => CacheInv'
<1> SUFFICES ASSUME CacheInv, [CacheNext]_cacheVars PROVE CacheInv'
  OBVIOUS
<1> USE NoThreadAssumption, MaxFailuresAssumption
<1>1. ASSUME NEW t \in Threads, Call(t) PROVE CacheInv'
  BY <1>1 DEF Call, CacheInv, CacheTypeOK
<1>2. ASSUME NEW t \in Threads, TestEmpty(t) PROVE CacheInv'
  BY <1>2 DEF TestEmpty, CacheInv, CacheTypeOK
<1>3. ASSUME NEW t \in Threads, BeginLoad(t) PROVE CacheInv'
  BY <1>3 DEF BeginLoad, CacheInv, CacheTypeOK
<1>4. ASSUME NEW t \in Threads, LoadLine(t) PROVE CacheInv'
  BY <1>4 DEF LoadLine, CacheInv, CacheTypeOK
<1>5. ASSUME NEW t \in Threads, EndLoad(t) PROVE CacheInv'
  BY <1>5 DEF EndLoad, CacheInv, CacheTypeOK
<1>6. ASSUME NEW t \in Threads, FailLoad(t) PROVE CacheInv'
  BY <1>6 DEF FailLoad, CacheInv, CacheTypeOK
<1>7. ASSUME NEW t \in Threads, Lookup(t) PROVE CacheInv'
  BY <1>7 DEF Lookup, CacheInv, CacheTypeOK
<1>8. ASSUME NEW t \in Threads, Return(t) PROVE CacheInv'
  BY <1>8 DEF Return, CacheInv, CacheTypeOK
<1>9. CASE UNCHANGED cacheVars
  BY <1>9 DEF cacheVars, CacheInv, CacheTypeOK
<1>10. QED
  BY <1>1, <1>2, <1>3, <1>4, <1>5, <1>6, <1>7, <1>8, <1>9 DEF CacheNext, Step

(* A translation that misses a key of the resource is always preceded by a *)
(* failed read (getMetricName, getEventSeverity, getEventStatus).          *)
THEOREM MissesAreFailures == CacheSpec => []MissOnlyAfterFailedLoad
<1>1. CacheInv => MissOnlyAfterFailedLoad
  BY DEF CacheInv
<1>2. QED
  BY InitCacheInv, NextCacheInv, <1>1, PTL DEF CacheSpec
=============================================================================
