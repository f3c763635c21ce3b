---------------------------- MODULE BstTableProofs ----------------------------
(***************************************************************************)
(* What holds of BstTable for every number of ports, indices, levels and   *)
(* requests: the addresses of a counter agree, the cache follows the       *)
(* database, and an answer shows what the rows have held.                  *)
(***************************************************************************)
EXTENDS BstTable, SequenceTheorems, WellFoundedInduction, TLAPS

-----------------------------------------------------------------------------
(* Addresses *)

CounterNames ==
  {"data", "um-share-buffer-count", "um-headroom-buffer-count", "uc-share-buffer-count",
   "mc-share-buffer-count", "uc-buffer-count", "mc-buffer-count", "cpu-buffer-count",
   "rqe-buffer-count"}

\* one counter or two
CounterLists == {c \in Seq(CounterNames) : Len(c) \in {1, 2}}

\* A tuple is a sequence.
LEMMA Tuples ==
  ASSUME NEW S, NEW c \in S, NEW d \in S
  PROVE  /\ <<c>> \in Seq(S) /\ Len(<<c>>) = 1
         /\ <<c, d>> \in Seq(S) /\ Len(<<c, d>>) = 2
  OBVIOUS

\* bid_tab_params lists one counter or two of every realm.
LEMMA CountersType == \A r \in Realms : Counters[r] \in CounterLists
<1> SUFFICES ASSUME NEW r \in RealmNames PROVE Counters[r] \in CounterLists
    BY TableAssumption
<1>1. \A c, d \in CounterNames : <<c>> \in CounterLists /\ <<c, d>> \in CounterLists
  <2> HIDE DEF CounterNames
  <2> QED
    BY Tuples DEF CounterLists
<1>2. \/ \E c \in CounterNames : Counters[r] = <<c>>
      \/ \E c, d \in CounterNames : Counters[r] = <<c, d>>
  <2>1. CASE r = "device"
    BY <2>1 DEF Counters, CounterNames
  <2>2. CASE r = "ingress-port-priority-group"
    BY <2>2 DEF Counters, CounterNames
  <2>3. CASE r = "egress-port-service-pool"
    BY <2>3 DEF Counters, CounterNames
  <2>4. CASE r = "egress-service-pool"
    BY <2>4 DEF Counters, CounterNames
  <2>5. CASE r \in {"egress-uc-queue", "egress-uc-queue-group"}
    BY <2>5 DEF Counters, CounterNames
  <2>6. CASE r \in {"egress-mc-queue", "egress-cpu-queue", "egress-rqe-queue"}
    BY <2>6 DEF Counters, CounterNames
  <2>7. CASE r \in {"ingress-port-service-pool", "ingress-service-pool"}
    BY <2>7 DEF Counters, CounterNames
  <2> QED
    BY <2>1, <2>2, <2>3, <2>4, <2>5, <2>6, <2>7 DEF RealmNames
<1> QED
  BY <1>1, <1>2

\* An offset in an array of rows of NumIndex entries tells its row and its
\* place in it.
LEMMA OffsetUnique ==
  ASSUME NEW n \in Nat, NEW a \in Nat, NEW b \in Nat,
         NEW x \in 0 .. n - 1, NEW y \in 0 .. n - 1,
         a * n + x = b * n + y
  PROVE  a = b /\ x = y
<1>1. ASSUME NEW c \in Nat, NEW d \in Nat, NEW u \in 0 .. n - 1, NEW v \in 0 .. n - 1,
             c * n + u = d * n + v
      PROVE  ~(c < d)
  <2> SUFFICES ASSUME c < d PROVE FALSE
      OBVIOUS
  <2>1. PICK k \in Nat : d = c + 1 + k
    <3>1. d - c - 1 \in Nat /\ d = c + 1 + (d - c - 1)
      OBVIOUS
    <3> QED
      BY <3>1
  <2>2. d * n = c * n + n + k * n
    BY <2>1
  <2>3. k * n \in Nat /\ c * n \in Nat
    OBVIOUS
  <2> QED
    BY <1>1, <2>2, <2>3
<1>2. a = b
  BY <1>1
<1> QED
  BY <1>2

\* An offset stays within the array.
LEMMA OffsetBound ==
  ASSUME NEW n \in Nat, NEW p \in Nat, NEW a \in 1 .. p, NEW x \in 0 .. n - 1
  PROVE  (a - 1) * n + x \in 0 .. p * n - 1
<1>1. PICK k \in Nat : p = a + k
  <2>1. p - a \in Nat /\ p = a + (p - a)
    OBVIOUS
  <2> QED
    BY <2>1
<1>2. p * n = (a - 1) * n + n + k * n
  BY <1>1
<1>3. k * n \in Nat /\ (a - 1) * n \in Nat /\ p * n \in Nat
  <2>1. \A i, j \in Nat : i * j \in Nat
    OBVIOUS
  <2>2. a - 1 \in Nat
    OBVIOUS
  <2> QED
    BY <2>1, <2>2
<1> QED
  BY <1>2, <1>3

\* What a target's fields may be.
LEMMA TargetFields ==
  ASSUME NEW t \in Targets
  PROVE  /\ t = [realm |-> t.realm, counter |-> t.counter, port |-> t.port, index |-> t.index]
         /\ t.realm \in Realms /\ t.counter \in ToSet(Counters[t.realm])
         /\ t.port \in IF t.realm \in PortRealms THEN 1 .. NumPorts ELSE {0}
         /\ t.index \in IF t.realm = DeviceRealm THEN {0} ELSE 0 .. NumIndex - 1
<1> DEFINE Of(r) == [realm : {r},
                     counter : ToSet(Counters[r]),
                     port : IF r \in PortRealms THEN 1 .. NumPorts ELSE {0},
                     index : IF r = DeviceRealm THEN {0} ELSE 0 .. NumIndex - 1]
<1>1. PICK r \in Realms : t \in Of(r)
  BY DEF Targets
<1> QED
  BY <1>1

\* What a row's fields may be.
LEMMA RowFields ==
  ASSUME NEW k \in Rows
  PROVE  /\ k = [realm |-> k.realm, counter |-> k.counter,
                 index1 |-> k.index1, index2 |-> k.index2]
         /\ k.realm \in Realms /\ k.counter \in ToSet(Counters[k.realm])
         /\ k.index1 \in CASE k.realm = DeviceRealm -> {0}
                           [] k.realm \in PortRealms -> 1 .. NumPorts
                           [] OTHER -> 1 .. NumIndex
         /\ k.index2 \in IF k.realm \in PortRealms THEN 1 .. NumIndex ELSE {0}
<1> DEFINE Of(r) == [realm : {r},
                     counter : ToSet(Counters[r]),
                     index1 : CASE r = DeviceRealm -> {0}
                                [] r \in PortRealms -> 1 .. NumPorts
                                [] OTHER -> 1 .. NumIndex,
                     index2 : IF r \in PortRealms THEN 1 .. NumIndex ELSE {0}]
<1>1. PICK r \in Realms : k \in Of(r)
  BY DEF Rows
<1> QED
  BY <1>1

\* A record is a slot when its offset is in its realm's array.
LEMMA SlotIntro ==
  ASSUME NEW r \in Realms, NEW c \in ToSet(Counters[r]), NEW n \in 0 .. Size(r) - 1
  PROVE  [realm |-> r, counter |-> c, at |-> n] \in Slots
  BY DEF Slots

\* The device realm belongs to no port.
LEMMA NoDevicePort == DeviceRealm \notin PortRealms
  BY DEF DeviceRealm, PortRealms

\* bst_ovsdb_row_info_get finds every row a place in its array.
LEMMA RowSlot ==
  ASSUME NEW k \in Rows
  PROVE  CacheSlot(k) \in Slots /\ ~(CacheSlot(k).at >= Size(CacheSlot(k).realm))
<1> USE TableAssumption, RowFields
<1>1. CacheSlot(k).at \in 0 .. Size(k.realm) - 1
  <2>1. CASE k.realm = DeviceRealm
    BY <2>1, NoDevicePort DEF CacheSlot, Size
  <2>2. CASE k.realm \in PortRealms
    <3>1. /\ k.realm # DeviceRealm
          /\ k.index1 \in 1 .. MaxPorts /\ k.index2 - 1 \in 0 .. NumIndex - 1
      BY <2>2, NoDevicePort
    <3>2. (k.index1 - 1) * NumIndex + (k.index2 - 1) \in 0 .. MaxPorts * NumIndex - 1
      BY <3>1, OffsetBound
    <3> QED
      BY <2>2, <3>1, <3>2 DEF CacheSlot, Size
  <2>3. CASE k.realm # DeviceRealm /\ k.realm \notin PortRealms
    BY <2>3 DEF CacheSlot, Size
  <2> QED
    BY <2>1, <2>2, <2>3
<1>2. CacheSlot(k) = [realm |-> k.realm, counter |-> k.counter, at |-> CacheSlot(k).at]
  BY DEF CacheSlot
<1>3. CacheSlot(k).realm = k.realm
  BY DEF CacheSlot
<1>4. Size(k.realm) \in Nat
  <2>1. MaxPorts * NumIndex \in Nat
    OBVIOUS
  <2> QED
    BY <2>1 DEF Size
<1> HIDE DEF CacheSlot
<1> QED
  BY <1>1, <1>2, <1>3, <1>4, SlotIntro

\* No two rows have the same place in the cache.
LEMMA RowsApart ==
  ASSUME NEW k \in Rows, NEW l \in Rows, CacheSlot(k) = CacheSlot(l)
  PROVE  k = l
<1> USE TableAssumption, RowFields
<1>1. k.realm = l.realm /\ k.counter = l.counter /\ CacheSlot(k).at = CacheSlot(l).at
  BY DEF CacheSlot
<1>2. k.index1 = l.index1 /\ k.index2 = l.index2
  <2>1. CASE k.realm = DeviceRealm
    BY <1>1, <2>1, NoDevicePort
  <2>2. CASE k.realm \in PortRealms
    <3>1. /\ k.index1 - 1 \in Nat /\ l.index1 - 1 \in Nat
          /\ k.index2 - 1 \in 0 .. NumIndex - 1 /\ l.index2 - 1 \in 0 .. NumIndex - 1
          /\ k.realm # DeviceRealm
      BY <1>1, <2>2, NoDevicePort
    <3>2. (k.index1 - 1) * NumIndex + (k.index2 - 1)
            = (l.index1 - 1) * NumIndex + (l.index2 - 1)
      BY <1>1, <2>2, <3>1 DEF CacheSlot
    <3>3. k.index1 - 1 = l.index1 - 1 /\ k.index2 - 1 = l.index2 - 1
      BY <3>1, <3>2, OffsetUnique
    <3> QED
      BY <1>1, <2>2, <3>1, <3>3
  <2>3. CASE k.realm # DeviceRealm /\ k.realm \notin PortRealms
    BY <1>1, <2>3 DEF CacheSlot
  <2> QED
    BY <2>1, <2>2, <2>3
<1> QED
  BY <1>1, <1>2

\* The two ways from REST's address to the cache are one: through the name of
\* the row, counted from 1, and directly, counted from 0.
LEMMA AddressesAgree ==
  ASSUME NEW t \in Targets
  PROVE  KeyOf(t) \in Rows /\ SlotOf(t) = CacheSlot(KeyOf(t)) /\ SlotOf(t) \in Slots
<1> USE TableAssumption, TargetFields
<1>1. /\ KeyOf(t) = [realm |-> t.realm, counter |-> t.counter,
                    index1 |-> KeyOf(t).index1, index2 |-> KeyOf(t).index2]
      /\ KeyOf(t).realm = t.realm /\ KeyOf(t).counter = t.counter
  BY DEF KeyOf, Key
<1>2. CASE t.realm = DeviceRealm
  <2>1. KeyOf(t).index1 = 0 /\ KeyOf(t).index2 = 0
    BY <1>2, NoDevicePort DEF KeyOf, Key
  <2>2. KeyOf(t) \in Rows
    BY <1>1, <1>2, <2>1, NoDevicePort DEF Rows
  <2>3. SlotOf(t) = CacheSlot(KeyOf(t))
    BY <1>1, <1>2, NoDevicePort DEF SlotOf, CacheSlot, Resolve
  <2> QED
    BY <2>2, <2>3, RowSlot
<1>3. CASE t.realm \in PortRealms
  <2>1. /\ t.realm # DeviceRealm
        /\ KeyOf(t).index1 = t.port /\ KeyOf(t).index2 = t.index + 1
        /\ t.port \in 1 .. NumPorts /\ t.index \in 0 .. NumIndex - 1
    BY <1>3, NoDevicePort DEF KeyOf, Key
  <2>2. t.index + 1 \in 1 .. NumIndex
    BY <2>1
  <2>3. KeyOf(t) \in Rows
    BY <1>1, <1>3, <2>1, <2>2 DEF Rows
  <2>4. SlotOf(t) = CacheSlot(KeyOf(t))
    <3>1. t.index + 1 - 1 = t.index
      BY <2>1
    <3> QED
      BY <1>1, <1>3, <2>1, <3>1 DEF SlotOf, CacheSlot, Resolve
  <2> QED
    BY <2>3, <2>4, RowSlot
<1>4. CASE t.realm # DeviceRealm /\ t.realm \notin PortRealms
  <2>1. /\ KeyOf(t).index1 = t.index + 1 /\ KeyOf(t).index2 = 0
        /\ t.index \in 0 .. NumIndex - 1
    BY <1>4 DEF KeyOf, Key
  <2>2. t.index + 1 \in 1 .. NumIndex /\ t.index + 1 - 1 = t.index
    BY <2>1
  <2>3. KeyOf(t) \in Rows
    BY <1>1, <1>4, <2>1, <2>2 DEF Rows
  <2>4. SlotOf(t) = CacheSlot(KeyOf(t))
    BY <1>1, <1>4, <2>1, <2>2 DEF SlotOf, CacheSlot, Resolve
  <2> QED
    BY <2>3, <2>4, RowSlot
<1> QED
  BY <1>2, <1>3, <1>4

-----------------------------------------------------------------------------
(* The orders in which an answer is read *)

\* A set of numbers has a least one.
LEMMA Least ==
  ASSUME NEW S \in SUBSET Nat, S # {}
  PROVE  \E s \in S : \A t \in S : s <= t
<1> DEFINE Before == {p \in Nat \X Nat : p[1] < p[2]}
<1>1. IsWellFoundedOn(Before, Nat)
  BY NatLessThanWellFounded, Zenon DEF OpToRel
<1>2. PICK s \in S : \A t \in S : <<t, s>> \notin Before
  BY <1>1, WFMin
<1>3. ASSUME NEW t \in S PROVE s <= t
  <2>1. <<t, s>> \in Before <=> t < s
    OBVIOUS
  <2> QED
    BY <1>2, <2>1
<1> QED
  BY <1>3

\* What the recursion of FlattenSeq asks of a function on 1 .. n.
Flattens(f, ss, n) == f = [i \in 1 .. n |-> IF i = 1 THEN ss[i] ELSE f[i - 1] \o ss[i]]

\* There is such a function.
LEMMA FlattensExists ==
  ASSUME NEW ss, NEW m \in Nat
  PROVE  \E f : Flattens(f, ss, m)
<1> DEFINE Bad == {n \in Nat : ~ \E f : Flattens(f, ss, n)}
<1> SUFFICES ASSUME Bad # {} PROVE FALSE
    OBVIOUS
<1>1. PICK n \in Bad : \A t \in Bad : n <= t
  BY Least
<1>2. CASE n = 0
  <2>1. Flattens([i \in 1 .. 0 |-> 0], ss, 0)
    BY DEF Flattens
  <2> QED
    BY <1>1, <1>2, <2>1
<1>3. CASE n # 0
  <2>1. n \in Nat /\ n - 1 \in Nat /\ n - 1 < n
    BY <1>1, <1>3
  <2>2. PICK f : Flattens(f, ss, n - 1)
    BY <1>1, <2>1
  <2> DEFINE g == [i \in 1 .. n |-> IF i = n
                                    THEN IF n = 1 THEN ss[n] ELSE f[n - 1] \o ss[n]
                                    ELSE f[i]]
  <2>3. ASSUME NEW i \in 1 .. n
        PROVE  g[i] = IF i = 1 THEN ss[i] ELSE g[i - 1] \o ss[i]
    <3>1. CASE i = n
      BY <2>1, <3>1
    <3>2. CASE i # n
      <4>1. i \in 1 .. n - 1 /\ (i # 1 => i - 1 \in 1 .. n - 1)
        BY <2>1, <3>2
      <4>2. f[i] = IF i = 1 THEN ss[i] ELSE f[i - 1] \o ss[i]
        BY <2>2, <4>1 DEF Flattens
      <4> QED
        BY <2>1, <3>2, <4>1, <4>2
    <3> QED
      BY <3>1, <3>2
  <2>4. Flattens(g, ss, n)
    BY <2>3 DEF Flattens
  <2> QED
    BY <1>1, <2>4
<1> QED
  BY <1>2, <1>3

\* FlattenSeq loses nothing of a sequence of sequences.
LEMMA FlattenProperties ==
  ASSUME NEW S, NEW ss \in Seq(Seq(S))
  PROVE  /\ FlattenSeq(ss) \in Seq(S)
         /\ \A i \in 1 .. Len(ss) : \A n \in 1 .. Len(ss[i]) :
              \E k \in 1 .. Len(FlattenSeq(ss)) : FlattenSeq(ss)[k] = ss[i][n]
<1>1. CASE Len(ss) = 0
  <2>1. FlattenSeq(ss) = ss /\ ss = <<>>
    BY <1>1 DEF FlattenSeq
  <2> QED
    BY <1>1, <2>1
<1>2. CASE Len(ss) # 0
  <2>1. Len(ss) \in Nat \ {0}
    BY <1>2
  <2> DEFINE f == CHOOSE g : Flattens(g, ss, Len(ss))
  <2>2. FlattenSeq(ss) = f[Len(ss)]
    BY <1>2, Zenon DEF FlattenSeq, Flattens
  <2>3. Flattens(f, ss, Len(ss))
    BY <2>1, FlattensExists, Zenon
  <2>4. \A i \in 1 .. Len(ss) : f[i] = IF i = 1 THEN ss[i] ELSE f[i - 1] \o ss[i]
    BY <2>3 DEF Flattens
  <2> HIDE DEF f
  <2> DEFINE Keeps(j) == /\ f[j] \in Seq(S)
                         /\ \A i \in 1 .. j : \A n \in 1 .. Len(ss[i]) :
                              \E k \in 1 .. Len(f[j]) : f[j][k] = ss[i][n]
             Bad == {j \in 1 .. Len(ss) : ~Keeps(j)}
  <2>5. ASSUME NEW j \in 1 .. Len(ss), j # 1 => Keeps(j - 1)
        PROVE  Keeps(j)
    <3>1. ss[j] \in Seq(S)
      OBVIOUS
    <3>2. CASE j = 1
      BY <2>4, <3>1, <3>2
    <3>3. CASE j # 1
      <4> DEFINE a == f[j - 1]
                 b == ss[j]
      <4>1. j - 1 \in 1 .. j /\ f[j] = a \o b /\ a \in Seq(S)
        <5>1. j - 1 \in 1 .. j
          BY <2>1, <3>3
        <5>2. f[j] = a \o b
          BY <2>4, <3>3
        <5> QED
          BY <2>5, <3>3, <5>1, <5>2
      <4>2. \A i \in 1 .. j - 1 : \A n \in 1 .. Len(ss[i]) :
              \E k \in 1 .. Len(a) : a[k] = ss[i][n]
        BY <2>5, <3>3
      <4> HIDE DEF a, b
      <4>3. /\ a \o b \in Seq(S) /\ Len(a \o b) = Len(a) + Len(b)
            /\ Len(a) \in Nat /\ Len(b) \in Nat
            /\ \A k \in 1 .. Len(a) : (a \o b)[k] = a[k]
            /\ \A k \in 1 .. Len(b) : (a \o b)[Len(a) + k] = b[k]
        BY <3>1, <4>1 DEF b
      <4>4. ASSUME NEW i \in 1 .. j, NEW n \in 1 .. Len(ss[i])
            PROVE  \E k \in 1 .. Len(f[j]) : f[j][k] = ss[i][n]
        <5>1. CASE i = j
          <6>1. n \in 1 .. Len(b) /\ Len(a) + n \in 1 .. Len(a \o b)
            BY <4>3, <4>4, <5>1 DEF b
          <6>2. (a \o b)[Len(a) + n] = b[n]
            BY <4>3, <6>1
          <6> QED
            BY <4>1, <5>1, <6>1, <6>2 DEF b
        <5>2. CASE i # j
          <6>1. PICK k \in 1 .. Len(a) : a[k] = ss[i][n]
            <7>1. i \in 1 .. j - 1
              BY <2>1, <4>4, <5>2
            <7> QED
              BY <4>2, <4>4, <7>1
          <6>2. k \in 1 .. Len(a \o b) /\ (a \o b)[k] = a[k]
            BY <4>3
          <6> QED
            BY <4>1, <6>1, <6>2
        <5> QED
          BY <5>1, <5>2
      <4> QED
        BY <4>1, <4>3, <4>4
    <3> QED
      BY <3>2, <3>3
  <2> HIDE DEF Keeps
  <2>6. Bad = {}
    <3> SUFFICES ASSUME Bad # {} PROVE FALSE
        OBVIOUS
    <3>1. PICK j \in Bad : \A t \in Bad : j <= t
      <4>1. Bad \in SUBSET Nat
        BY <2>1
      <4> QED
        BY <4>1, Least
    <3>2. j # 1 => j - 1 \in 1 .. Len(ss) /\ j - 1 \notin Bad
      BY <2>1, <3>1
    <3> QED
      BY <2>5, <3>1, <3>2
  <2>7. Keeps(Len(ss))
    BY <2>1, <2>6
  <2> QED
    BY <2>2, <2>7 DEF Keeps
<1> QED
  BY <1>1, <1>2

\* An element of a sequence.
In(x, q) == \E n \in 1 .. Len(q) : q[n] = x

\* A concatenation has the elements of both sequences.
LEMMA ConcatIn ==
  ASSUME NEW S, NEW a \in Seq(S), NEW b \in Seq(S)
  PROVE  a \o b \in Seq(S) /\ \A x : In(x, a) \/ In(x, b) => In(x, a \o b)
<1>1. /\ a \o b \in Seq(S) /\ Len(a \o b) = Len(a) + Len(b)
      /\ Len(a) \in Nat /\ Len(b) \in Nat
      /\ \A k \in 1 .. Len(a) : (a \o b)[k] = a[k]
      /\ \A k \in 1 .. Len(b) : (a \o b)[Len(a) + k] = b[k]
  OBVIOUS
<1>2. ASSUME NEW n \in 1 .. Len(a) PROVE n \in 1 .. Len(a \o b)
  BY <1>1
<1>3. ASSUME NEW n \in 1 .. Len(b) PROVE Len(a) + n \in 1 .. Len(a \o b)
  BY <1>1
<1> QED
  BY <1>1, <1>2, <1>3 DEF In

\* The ports that a realm's counters have.
PortOf(r, p) == p \in IF r \in PortRealms THEN 1 .. NumPorts ELSE {0}

\* The counters of a realm on a port are read, every one of them.
LEMMA RealmOrderFits ==
  ASSUME NEW r, NEW p, PortOf(r, p)
  PROVE  /\ RealmOrder(r, p) \in Seq(Targets)
         /\ \A t \in Targets : t.realm = r /\ t.port = p => In(t, RealmOrder(r, p))
<1>1. CASE r \notin Realms
  BY <1>1, TargetFields DEF RealmOrder
<1>2. CASE r \in Realms
  <2> DEFINE c    == Counters[r]
             size == IF r = DeviceRealm THEN 1 ELSE NumIndex
             At(n) == [realm |-> r, counter |-> c[1 + ((n - 1) % Len(c))],
                       port |-> p, index |-> (n - 1) \div Len(c)]
  <2>1. c \in Seq(CounterNames) /\ Len(c) \in {1, 2} /\ size \in Nat \ {0}
    BY <1>2, CountersType, TableAssumption DEF CounterLists
  <2>2. RealmOrder(r, p) = [n \in 1 .. size * Len(c) |-> At(n)]
    BY <1>2 DEF RealmOrder
  <2>3. \A d \in ToSet(c), x \in 0 .. size - 1 :
          [realm |-> r, counter |-> d, port |-> p, index |-> x] \in Targets
    BY <1>2 DEF PortOf, Targets
  <2> HIDE DEF c, size
  <2>4. size * Len(c) \in Nat
    BY <2>1
  <2>5. ASSUME NEW n \in 1 .. size * Len(c)
        PROVE  At(n) \in Targets
    <3>1. (n - 1) \div Len(c) \in 0 .. size - 1 /\ 1 + ((n - 1) % Len(c)) \in 1 .. Len(c)
      <4>1. CASE Len(c) = 1
        BY <2>1, <4>1
      <4>2. CASE Len(c) = 2
        BY <2>1, <4>2
      <4> QED
        BY <2>1, <4>1, <4>2
    <3>2. c[1 + ((n - 1) % Len(c))] \in ToSet(c)
      BY <2>1, <3>1 DEF ToSet
    <3> QED
      BY <2>3, <3>1, <3>2
  <2>6. RealmOrder(r, p) \in Seq(Targets) /\ Len(RealmOrder(r, p)) = size * Len(c)
    BY <2>2, <2>4, <2>5
  <2>7. ASSUME NEW t \in Targets, t.realm = r, t.port = p
        PROVE  In(t, RealmOrder(r, p))
    <3>1. t.index \in 0 .. size - 1 /\ t.counter \in ToSet(c)
      <4>1. /\ t.counter \in ToSet(Counters[r])
            /\ t.index \in IF r = DeviceRealm THEN {0} ELSE 0 .. NumIndex - 1
        BY <2>7, TargetFields
      <4>2. CASE r = DeviceRealm
        BY <4>1, <4>2 DEF c, size
      <4>3. CASE r # DeviceRealm
        BY <4>1, <4>3 DEF c, size
      <4> QED
        BY <4>2, <4>3
    <3>2. PICK m \in 1 .. Len(c) : c[m] = t.counter
      BY <2>1, <3>1 DEF ToSet
    <3> DEFINE n == t.index * Len(c) + m
    <3>3. n \in 1 .. size * Len(c) /\ (n - 1) \div Len(c) = t.index
            /\ 1 + ((n - 1) % Len(c)) = m
      <4>1. CASE Len(c) = 1
        BY <2>1, <3>1, <3>2, <4>1
      <4>2. CASE Len(c) = 2
        <5>1. t.index \in Nat /\ t.index <= size - 1 /\ m \in {1, 2}
          BY <2>1, <3>1, <3>2, <4>2
        <5>2. n = 2 * t.index + m
          BY <4>2, <5>1
        <5> HIDE DEF n
        <5>3. n - 1 = 2 * t.index + (m - 1) /\ n \in 1 .. 2 * size
          BY <2>1, <5>1, <5>2
        <5>4. (n - 1) \div 2 = t.index /\ (n - 1) % 2 = m - 1
          BY <5>1, <5>3
        <5> QED
          BY <2>1, <4>2, <5>1, <5>3, <5>4
      <4> QED
        BY <2>1, <4>1, <4>2
    <3> HIDE DEF n
    <3>4. At(n) = t
      <4>1. t = [realm |-> r, counter |-> t.counter, port |-> p, index |-> t.index]
        BY <2>7, TargetFields
      <4> QED
        BY <3>2, <3>3, <4>1
    <3> QED
      BY <2>2, <2>6, <3>3, <3>4 DEF In
  <2> QED
    BY <2>6, <2>7
<1> QED
  BY <1>1, <1>2

\* What sbplugin_ovsdb_bst_threshold_get reads of a port.
PortOrder(p) ==
  RealmOrder("ingress-port-priority-group", p) \o
  RealmOrder("ingress-port-service-pool", p) \o
  RealmOrder("egress-port-service-pool", p)

\* A port's rows are targets, and no target of the port is left out.
LEMMA PortOrderFits ==
  ASSUME NEW p \in 1 .. NumPorts
  PROVE  /\ PortOrder(p) \in Seq(Targets)
         /\ \A t \in Targets : t.realm \in PortRealms /\ t.port = p => In(t, PortOrder(p))
<1> DEFINE a == RealmOrder("ingress-port-priority-group", p)
           b == RealmOrder("ingress-port-service-pool", p)
           c == RealmOrder("egress-port-service-pool", p)
<1>1. \A r \in PortRealms : PortOf(r, p)
  BY DEF PortOf
<1>2. {"ingress-port-priority-group", "ingress-port-service-pool",
       "egress-port-service-pool"} = PortRealms
  BY DEF PortRealms
<1>3. a \in Seq(Targets) /\ b \in Seq(Targets) /\ c \in Seq(Targets)
  BY <1>1, <1>2, RealmOrderFits
<1>4. \A t \in Targets : t.realm \in PortRealms /\ t.port = p =>
        In(t, a) \/ In(t, b) \/ In(t, c)
  BY <1>1, <1>2, RealmOrderFits
<1>5. PortOrder(p) = (a \o b) \o c
  BY DEF PortOrder
<1> HIDE DEF a, b, c
<1>6. a \o b \in Seq(Targets) /\ \A t : In(t, a) \/ In(t, b) => In(t, a \o b)
  BY <1>3, ConcatIn
<1>7. (a \o b) \o c \in Seq(Targets)
        /\ \A t : In(t, a \o b) \/ In(t, c) => In(t, (a \o b) \o c)
  BY <1>3, <1>6, ConcatIn
<1> QED
  BY <1>4, <1>5, <1>6, <1>7

\* Nor is one left out when the ports follow one another.
LEMMA PortsOrderFits ==
  LET ports == FlattenSeq([p \in 1 .. NumPorts |-> PortOrder(p)])
  IN  /\ ports \in Seq(Targets)
      /\ \A t \in Targets : t.realm \in PortRealms => In(t, ports)
<1> DEFINE ss == [p \in 1 .. NumPorts |-> PortOrder(p)]
<1>1. ss \in Seq(Seq(Targets)) /\ Len(ss) = NumPorts
  BY PortOrderFits, TableAssumption
<1>2. /\ FlattenSeq(ss) \in Seq(Targets)
      /\ \A i \in 1 .. Len(ss) : \A n \in 1 .. Len(ss[i]) :
           \E k \in 1 .. Len(FlattenSeq(ss)) : FlattenSeq(ss)[k] = ss[i][n]
  <2> HIDE DEF ss
  <2> QED
    BY <1>1, FlattenProperties
<1>3. ASSUME NEW t \in Targets, t.realm \in PortRealms
      PROVE  In(t, FlattenSeq(ss))
  <2>1. t.port \in 1 .. NumPorts
    BY <1>3, TargetFields
  <2>2. In(t, PortOrder(t.port)) /\ ss[t.port] = PortOrder(t.port)
    BY <1>3, <2>1, PortOrderFits
  <2>3. PICK n \in 1 .. Len(ss[t.port]) : ss[t.port][n] = t
    BY <2>2 DEF In
  <2> HIDE DEF ss
  <2>4. t.port \in 1 .. Len(ss)
    BY <1>1, <2>1
  <2>5. PICK k \in 1 .. Len(FlattenSeq(ss)) : FlattenSeq(ss)[k] = ss[t.port][n]
    BY <1>2, <2>4, Zenon
  <2> QED
    BY <2>3, <2>5, Zenon DEF In
<1> QED
  BY <1>2, <1>3

\* sbplugin_ovsdb_bst_threshold_get reads every counter that a report shows.
LEMMA ThresholdOrderFits ==
  /\ ThresholdOrder \in Seq(Targets)
  /\ \A t \in Targets : In(t, ThresholdOrder)
<1> DEFINE Part(r) == RealmOrder(r, 0)
           ports == FlattenSeq([p \in 1 .. NumPorts |-> PortOrder(p)])
           All(q, R) == /\ q \in Seq(Targets)
                        /\ \A t \in Targets : t.realm \in R => In(t, q)
<1>1. ThresholdOrder =
        Part("device") \o ports \o Part("egress-mc-queue") \o Part("egress-uc-queue") \o
        Part("egress-service-pool") \o Part("ingress-service-pool") \o
        Part("egress-cpu-queue") \o Part("egress-rqe-queue") \o Part("egress-uc-queue-group")
  BY Zenon DEF ThresholdOrder, PortOrder
<1>2. All(ports, PortRealms)
  BY PortsOrderFits
<1>3. ASSUME NEW r, r \notin PortRealms
      PROVE  All(Part(r), {r})
  <2>1. PortOf(r, 0)
    BY <1>3 DEF PortOf
  <2>2. \A t \in Targets : t.realm = r => t.port = 0
    BY <1>3, TargetFields
  <2> QED
    BY <2>1, <2>2, RealmOrderFits
<1>4. ASSUME NEW a, NEW b, NEW R, NEW S, All(a, R), All(b, S)
      PROVE  All(a \o b, R \cup S)
  BY <1>4, ConcatIn
<1>5. /\ "device" \notin PortRealms /\ "egress-mc-queue" \notin PortRealms
      /\ "egress-uc-queue" \notin PortRealms /\ "egress-service-pool" \notin PortRealms
      /\ "ingress-service-pool" \notin PortRealms /\ "egress-cpu-queue" \notin PortRealms
      /\ "egress-rqe-queue" \notin PortRealms /\ "egress-uc-queue-group" \notin PortRealms
  BY DEF PortRealms
<1> HIDE DEF All, Part, ports
<1>6. PICK R : All(ThresholdOrder, R) /\ RealmNames \subseteq R
  <2> DEFINE R1 == {"device"} \cup PortRealms
             R2 == R1 \cup {"egress-mc-queue"}
             R3 == R2 \cup {"egress-uc-queue"}
             R4 == R3 \cup {"egress-service-pool"}
             R5 == R4 \cup {"ingress-service-pool"}
             R6 == R5 \cup {"egress-cpu-queue"}
             R7 == R6 \cup {"egress-rqe-queue"}
             R8 == R7 \cup {"egress-uc-queue-group"}
             q1 == Part("device") \o ports
             q2 == q1 \o Part("egress-mc-queue")
             q3 == q2 \o Part("egress-uc-queue")
             q4 == q3 \o Part("egress-service-pool")
             q5 == q4 \o Part("ingress-service-pool")
             q6 == q5 \o Part("egress-cpu-queue")
             q7 == q6 \o Part("egress-rqe-queue")
             q8 == q7 \o Part("egress-uc-queue-group")
  <2>1. RealmNames \subseteq R8
    BY DEF RealmNames, PortRealms
  <2>2. ThresholdOrder = q8
    BY <1>1, Zenon
  <2>3. All(q1, R1)
    BY <1>2, <1>3, <1>4, <1>5, Zenon
  <2>4. All(q2, R2)
    BY <2>3, <1>3, <1>4, <1>5, Zenon
  <2>5. All(q3, R3)
    BY <2>4, <1>3, <1>4, <1>5, Zenon
  <2>6. All(q4, R4)
    BY <2>5, <1>3, <1>4, <1>5, Zenon
  <2>7. All(q5, R5)
    BY <2>6, <1>3, <1>4, <1>5, Zenon
  <2>8. All(q6, R6)
    BY <2>7, <1>3, <1>4, <1>5, Zenon
  <2>9. All(q7, R7)
    BY <2>8, <1>3, <1>4, <1>5, Zenon
  <2>10. All(q8, R8)
    BY <2>9, <1>3, <1>4, <1>5, Zenon
  <2> QED
    BY <2>1, <2>2, <2>10, Zenon
<1>7. \A t \in Targets : t.realm \in R
  BY <1>6, TargetFields, TableAssumption
<1> QED
  BY <1>6, <1>7 DEF All

\* sbplugin_ovsdb_bst_snapshot_get reads every realm.
LEMMA SnapshotOrderFits ==
  /\ SnapshotOrder \in Seq(Realms)
  /\ \A r \in Realms : In(r, SnapshotOrder)
<1> DEFINE All(q, R) == /\ q \in Seq(Realms)
                        /\ \A r \in Realms : r \in R => In(r, q)
<1>1. ASSUME NEW r
      PROVE  All(Listed(r), {r})
  <2>1. CASE r \in Realms
    <3>1. <<r>> \in Seq(Realms) /\ Len(<<r>>) = 1 /\ <<r>>[1] = r
      BY <2>1
    <3> QED
      BY <2>1, <3>1 DEF Listed, In
  <2>2. CASE r \notin Realms
    BY <2>2 DEF Listed
  <2> QED
    BY <2>1, <2>2
<1>2. ASSUME NEW a, NEW b, NEW R, NEW S, All(a, R), All(b, S)
      PROVE  All(a \o b, R \cup S)
  BY <1>2, ConcatIn
<1> HIDE DEF All
<1>3. PICK R : All(SnapshotOrder, R) /\ RealmNames \subseteq R
  <2> DEFINE R1 == {"device"} \cup {"ingress-port-priority-group"}
             R2 == R1 \cup {"ingress-port-service-pool"}
             R3 == R2 \cup {"ingress-service-pool"}
             R4 == R3 \cup {"egress-port-service-pool"}
             R5 == R4 \cup {"egress-service-pool"}
             R6 == R5 \cup {"egress-uc-queue"}
             R7 == R6 \cup {"egress-uc-queue-group"}
             R8 == R7 \cup {"egress-mc-queue"}
             R9 == R8 \cup {"egress-cpu-queue"}
             R10 == R9 \cup {"egress-rqe-queue"}
             q1 == Listed("device") \o Listed("ingress-port-priority-group")
             q2 == q1 \o Listed("ingress-port-service-pool")
             q3 == q2 \o Listed("ingress-service-pool")
             q4 == q3 \o Listed("egress-port-service-pool")
             q5 == q4 \o Listed("egress-service-pool")
             q6 == q5 \o Listed("egress-uc-queue")
             q7 == q6 \o Listed("egress-uc-queue-group")
             q8 == q7 \o Listed("egress-mc-queue")
             q9 == q8 \o Listed("egress-cpu-queue")
             q10 == q9 \o Listed("egress-rqe-queue")
  <2>1. RealmNames \subseteq R10
    BY DEF RealmNames
  <2>2. SnapshotOrder = q10
    BY Zenon DEF SnapshotOrder
  <2>3. All(q1, R1)
    BY <1>1, <1>2, Zenon
  <2>4. All(q2, R2)
    BY <1>1, <1>2, <2>3, Zenon
  <2>5. All(q3, R3)
    BY <1>1, <1>2, <2>4, Zenon
  <2>6. All(q4, R4)
    BY <1>1, <1>2, <2>5, Zenon
  <2>7. All(q5, R5)
    BY <1>1, <1>2, <2>6, Zenon
  <2>8. All(q6, R6)
    BY <1>1, <1>2, <2>7, Zenon
  <2>9. All(q7, R7)
    BY <1>1, <1>2, <2>8, Zenon
  <2>10. All(q8, R8)
    BY <1>1, <1>2, <2>9, Zenon
  <2>11. All(q9, R9)
    BY <1>1, <1>2, <2>10, Zenon
  <2>12. All(q10, R10)
    BY <1>1, <1>2, <2>11, Zenon
  <2> QED
    BY <2>1, <2>2, <2>12, Zenon
<1> QED
  BY <1>3, TableAssumption DEF All

-----------------------------------------------------------------------------
(* The invariant *)

\* what the cache keeps of a row
Cached(row) == [stat |-> row.stat, threshold |-> Effective(row.threshold)]

Notices == UNION {[K -> Row] : K \in SUBSET Rows}

Keys == {Key(r, c, p, n) : r \in Realms, c \in CounterNames, p \in Nat, n \in Nat}

\* the transactions that set a threshold
Messages == [key : Keys, level : Levels]

\* The types of the variables, and what TypeOK leaves open of the sequences.
DbType ==
  /\ db \in [Rows -> Row]
  /\ net \in Seq(Notices)
  /\ applied # {} => net # <<>> /\ applied \subseteq DOMAIN Head(net)
  /\ had \in [Rows -> SUBSET Row]

CacheType == cache \in [Slots -> [stat : Counts, threshold : Levels \cup {0}]]

SendType ==
  /\ rpc \in {"none", "open", "dead"}
  /\ sent \in Seq(Messages)
  /\ wanted \in [Targets -> Levels \cup {Unknown}]

\* the place of a row's news in the notifications that are on their way
News(k, i) ==
  /\ i \in 1 .. Len(net) /\ k \in DOMAIN net[i]
  /\ ~(i = 1 /\ k \in applied)

\* The last news of a row is what the database has; a row without news has
\* been applied.
NewsFollow ==
  \A k \in Rows :
    /\ \A i \in Nat : News(k, i) => net[i][k] = db[k] \/ \E j \in Nat : j > i /\ News(k, j)
    /\ (\A i \in Nat : ~News(k, i)) => cache[CacheSlot(k)] = Cached(db[k])

\* Whatever is in the database, on its way or in the cache, its row has had.
HadAll ==
  \A k \in Rows :
    /\ db[k] \in had[k]
    /\ \A i \in Nat : News(k, i) => net[i][k] \in had[k]
    /\ \E r \in had[k] : cache[CacheSlot(k)] = Cached(r)

\* What the bst thread has read so far is a value its row has had.
ReadFits ==
  /\ bpc \in {"read", "answer"} => req.type \in {"GET_REPORT", "GET_THRESHOLD"}
  /\ bpc = "read" /\ req.type = "GET_THRESHOLD" => left \in Seq(Targets)
  /\ bpc = "read" /\ req.type = "GET_REPORT" => left \in Seq(Realms)
  /\ bpc = "read" => left # <<>>
  /\ bpc \in {"read", "answer"} =>
       \A t \in Targets :
         IF req.type = "GET_REPORT"
         THEN (bpc = "answer" \/ ~In(t.realm, left)) =>
                \E r \in had[KeyOf(t)] : record[t] = r.stat
         ELSE (bpc = "answer" \/ ~In(t, left)) =>
                \E r \in had[KeyOf(t)] : record[t] = Effective(r.threshold)

\* The request that is being sent was checked, and what is left are the last
\* counters of its realm.
SendFits ==
  bpc = "send" =>
    /\ req \in SetRequests /\ ValidAddress(req) /\ ValidLevels(req) /\ PluginAccepts(req)
    /\ left \in Seq(CounterNames)
    /\ Len(left) \in 1 .. Len(Counters[req.realm])

ReadType ==
  /\ bpc \in {"recv", "send", "read", "answer"}
  /\ record \in [Targets -> Levels \cup Counts]
  /\ events \in 0 .. MaxEvents

TableInv ==
  /\ DbType /\ CacheType /\ SendType /\ ReadType
  /\ NewsFollow /\ HadAll /\ ReadFits /\ SendFits

\* An unset column stands for a threshold.
LEMMA EffectiveLevel == \A l \in Levels \cup {Unset} : Effective(l) \in Levels
  BY TableAssumption DEF Effective, Levels

\* What the monitor writes fits the arrays.
LEMMA CachedType ==
  \A r \in Row : /\ Cached(r) \in [stat : Counts, threshold : Levels \cup {0}]
                 /\ r.stat \in Counts /\ Effective(r.threshold) \in Levels
  BY EffectiveLevel DEF Cached, Row

\* The start: every column is empty, and the cache has the default.
LEMMA TableInit == Init => TableInv
<1> SUFFICES ASSUME Init PROVE TableInv
    OBVIOUS
<1> USE TableAssumption
<1>1. MaxLevel \in Levels /\ 0 \in Counts /\ Effective(Unset) = MaxLevel
  BY DEF Levels, Counts, Effective
<1>2. \A k \in Rows : db[k] = [stat |-> 0, threshold |-> Unset] /\ db[k] \in Row
  BY <1>1 DEF Init, Row
<1>3. DbType
  BY <1>1, <1>2 DEF Init, DbType, Row
<1>4. CacheType
  BY <1>1 DEF Init, CacheType
<1>5. SendType
  BY <1>1 DEF Init, SendType
<1>6. ReadType
  BY <1>1 DEF Init, ReadType, Zeroed
<1>7. \A k \in Rows : cache[CacheSlot(k)] = Cached(db[k]) /\ had[k] = {db[k]}
  BY <1>1, <1>2, RowSlot DEF Init, Cached
<1>8. \A k, i : ~News(k, i)
  BY DEF Init, News
<1>9. NewsFollow /\ HadAll
  BY <1>7, <1>8 DEF NewsFollow, HadAll
<1>10. ReadFits /\ SendFits
  BY DEF Init, ReadFits, SendFits
<1> QED
  BY <1>3, <1>4, <1>5, <1>6, <1>9, <1>10 DEF TableInv

-----------------------------------------------------------------------------
(* The database and the monitor *)

\* A transaction and its notification: the news of a row that changes are the
\* last ones, and those of the others stay where they are.
LEMMA CommitStep ==
  ASSUME DbType, NewsFollow, HadAll,
         NEW new \in [Rows -> Row], Commit(new), UNCHANGED <<applied, cache>>
  PROVE  /\ DbType' /\ NewsFollow' /\ HadAll'
         /\ \A k \in Rows : had[k] \subseteq had'[k]
<1> DEFINE changed == {k \in Rows : new[k] # db[k]}
           update  == [k \in changed |-> new[k]]
<1>1. /\ db' = new
      /\ net' = IF changed = {} THEN net ELSE Append(net, update)
      /\ had' = [k \in Rows |-> had[k] \cup {new[k]}]
  BY DEF Commit
<1>2. \A k \in Rows : had'[k] = had[k] \cup {new[k]} /\ new[k] \in Row
  BY <1>1
<1>3. update \in Notices /\ DOMAIN update = changed
  <2>1. changed \in SUBSET Rows /\ update \in [changed -> Row]
    OBVIOUS
  <2> HIDE DEF changed, update
  <2> QED
    BY <2>1 DEF Notices
<1>4. /\ net' \in Seq(Notices)
      /\ Len(net) \in Nat /\ Len(net') \in Nat /\ Len(net) <= Len(net')
      /\ \A i \in 1 .. Len(net) : net'[i] = net[i]
      /\ changed # {} => Len(net') = Len(net) + 1 /\ net'[Len(net) + 1] = update
      /\ changed = {} => net' = net
      /\ net # <<>> => net' # <<>> /\ Head(net') = Head(net)
  <2> HIDE DEF changed, update
  <2> QED
    BY <1>1, <1>3 DEF DbType
<1>5. DbType'
  BY <1>1, <1>2, <1>4 DEF DbType
<1>6. \A k \in Rows : \A i \in 1 .. Len(net) : News(k, i)' <=> News(k, i)
  BY <1>4 DEF News
<1>7. PICK n \in Nat : n = Len(net) + 1
  BY <1>4
<1>8. ASSUME NEW k \in changed
      PROVE  News(k, n)' /\ net'[n][k] = new[k]
  <2>1. n \in 1 .. Len(net') /\ net'[n] = update /\ k \in DOMAIN update
    BY <1>3, <1>4, <1>7
  <2>2. n = 1 => applied = {}
    BY <1>4, <1>7 DEF DbType
  <2> QED
    BY <2>1, <2>2 DEF News
<1>9. ASSUME NEW k \in Rows, k \notin changed, NEW i \in Nat
      PROVE  /\ News(k, i)' <=> News(k, i)
             /\ News(k, i) => net'[i][k] = net[i][k]
  <2>1. CASE i \in 1 .. Len(net)
    BY <1>4, <1>6, <2>1
  <2>2. CASE i \notin 1 .. Len(net)
    <3>1. ~News(k, i)
      BY <2>2 DEF News
    <3>2. News(k, i)' => i = n /\ changed # {}
      BY <1>4, <1>7, <2>2 DEF News
    <3>3. News(k, i)' => k \in changed
      BY <1>3, <1>4, <1>7, <3>2 DEF News
    <3> QED
      BY <1>9, <3>1, <3>3
  <2> QED
    BY <2>1, <2>2
<1>10. \A k \in Rows : k \notin changed => db'[k] = db[k]
  BY <1>1
<1> HIDE DEF changed, update
<1>11. NewsFollow'
  <2> SUFFICES ASSUME NEW k \in Rows
               PROVE  /\ \A i \in Nat : News(k, i)' =>
                           \/ net'[i][k] = db'[k]
                           \/ \E j \in Nat : j > i /\ News(k, j)'
                      /\ (\A i \in Nat : ~News(k, i)') => cache[CacheSlot(k)] = Cached(db'[k])
      BY DEF NewsFollow, Cached, Effective, CacheSlot
  <2>1. CASE k \in changed
    <3>1. ASSUME NEW i \in Nat, News(k, i)'
          PROVE  i <= n
      <4>1. i \in 1 .. Len(net')
        BY <3>1 DEF News
      <4> QED
        BY <1>4, <1>7, <2>1, <4>1
    <3>2. ASSUME NEW i \in Nat, News(k, i)', i # n
          PROVE  n > i
      BY <1>7, <3>1, <3>2
    <3> QED
      BY <1>1, <1>8, <2>1, <3>2
  <2>2. CASE k \notin changed
    BY <1>9, <1>10, <2>2 DEF NewsFollow
  <2> QED
    BY <2>1, <2>2
<1>12. HadAll'
  <2> SUFFICES ASSUME NEW k \in Rows
               PROVE  /\ db'[k] \in had'[k]
                      /\ \A i \in Nat : News(k, i)' => net'[i][k] \in had'[k]
                      /\ \E r \in had'[k] : cache[CacheSlot(k)] = Cached(r)
      BY DEF HadAll, Cached, Effective, CacheSlot
  <2>1. \E r \in had'[k] : cache[CacheSlot(k)] = Cached(r)
    BY <1>2 DEF HadAll
  <2>2. db'[k] \in had'[k]
    BY <1>1, <1>2
  <2>3. ASSUME NEW i \in Nat, News(k, i)'
        PROVE  net'[i][k] \in had'[k]
    <3>1. CASE News(k, i) /\ i \in 1 .. Len(net)
      BY <1>2, <1>4, <3>1 DEF HadAll
    <3>2. CASE ~(News(k, i) /\ i \in 1 .. Len(net))
      <4>1. k \in changed
        BY <1>6, <1>9, <2>3, <3>2 DEF News
      <4>2. i \in 1 .. Len(net')
        BY <2>3 DEF News
      <4>3. i = n
        BY <1>4, <1>6, <1>7, <2>3, <3>2, <4>1, <4>2
      <4> QED
        BY <1>2, <1>8, <4>1, <4>3
    <3> QED
      BY <3>1, <3>2
  <2> QED
    BY <2>1, <2>2, <2>3
<1> QED
  BY <1>2, <1>5, <1>11, <1>12

\* The monitor applies a row: it is then no news any more, and what is left of
\* the notifications is still in order.
LEMMA MonitorStep ==
  ASSUME DbType, CacheType, NewsFollow, HadAll, MonitorRow
  PROVE  DbType' /\ CacheType' /\ NewsFollow' /\ HadAll'
<1> DEFINE first == Head(net)
<1>1. /\ net \in Seq(Notices) /\ net # <<>>
      /\ first = net[1] /\ Len(net) \in Nat /\ 1 \in 1 .. Len(net)
      /\ applied # {} => applied \subseteq DOMAIN first
      /\ UNCHANGED <<db, had>>
  BY DEF MonitorRow, DbType
<1>2. PICK k \in DOMAIN first \ applied :
        /\ cache' = IF CacheSlot(k).at >= Size(CacheSlot(k).realm) THEN cache
                    ELSE [cache EXCEPT ![CacheSlot(k)] = Cached(first[k])]
        /\ applied' = IF applied \cup {k} = DOMAIN first THEN {} ELSE applied \cup {k}
        /\ net' = IF applied \cup {k} = DOMAIN first THEN Tail(net) ELSE net
  BY DEF MonitorRow, Cached
<1>3. k \in Rows /\ first[k] \in Row
  <2>1. first \in Notices
    BY <1>1
  <2>2. PICK K \in SUBSET Rows : first \in [K -> Row]
    BY <2>1 DEF Notices
  <2> QED
    BY <2>2
<1>4. /\ cache' = [cache EXCEPT ![CacheSlot(k)] = Cached(first[k])]
      /\ CacheSlot(k) \in Slots
  BY <1>2, <1>3, RowSlot
<1>5. CacheType'
  BY <1>3, <1>4, CachedType DEF CacheType
<1>6. cache'[CacheSlot(k)] = Cached(first[k])
  BY <1>4 DEF CacheType
<1>7. ASSUME NEW l \in Rows, l # k
      PROVE  cache'[CacheSlot(l)] = cache[CacheSlot(l)]
  <2>1. CacheSlot(l) \in Slots /\ CacheSlot(l) # CacheSlot(k)
    BY <1>3, <1>7, RowSlot, RowsApart
  <2> QED
    BY <1>4, <2>1 DEF CacheType
<1> HIDE DEF first
<1>8. PICK d \in {0, 1} :
        /\ \A l \in Rows, i \in Nat : News(l, i)' => News(l, i + d) /\ net'[i] = net[i + d]
        /\ \A l \in Rows, i \in Nat : News(l, i + d) /\ ~(l = k /\ i + d = 1) =>
             News(l, i)'
        /\ \A l \in Rows : d = 1 /\ News(l, 1) => l = k
        /\ net' \in Seq(Notices)
        /\ applied' # {} => net' # <<>> /\ applied' \subseteq DOMAIN Head(net')
  <2>1. CASE applied \cup {k} = DOMAIN first
    <3>1. applied' = {} /\ net' = Tail(net)
      BY <1>2, <2>1
    <3>2. /\ net' \in Seq(Notices) /\ Len(net') = Len(net) - 1
          /\ \A i \in 1 .. Len(net) - 1 : net'[i] = net[i + 1]
      BY <1>1, <3>1, HeadTailProperties
    <3>3. ASSUME NEW l \in Rows, NEW i \in Nat, News(l, i)'
          PROVE  News(l, i + 1) /\ net'[i] = net[i + 1]
      <4>1. i \in 1 .. Len(net) - 1 /\ l \in DOMAIN net'[i]
        BY <3>2, <3>3 DEF News
      <4>2. i + 1 \in 1 .. Len(net) /\ i + 1 # 1
        BY <1>1, <4>1
      <4> QED
        BY <3>2, <4>1, <4>2 DEF News
    <3>4. ASSUME NEW l \in Rows, NEW i \in Nat, News(l, i + 1), ~(l = k /\ i + 1 = 1)
          PROVE  News(l, i)'
      <4>1. i # 0
        <5>1. i = 0 => l \in DOMAIN first /\ l \notin applied
          BY <1>1, <3>4 DEF News
        <5> QED
          BY <2>1, <3>4, <5>1
      <4>2. i \in 1 .. Len(net) - 1 /\ l \in DOMAIN net[i + 1]
        BY <1>1, <3>4, <4>1 DEF News
      <4> QED
        BY <3>1, <3>2, <4>2 DEF News
    <3>5. \A l \in Rows : News(l, 1) => l = k
      BY <1>1, <2>1 DEF News
    <3> QED
      BY <3>1, <3>2, <3>3, <3>4, <3>5
  <2>2. CASE applied \cup {k} # DOMAIN first
    <3>1. applied' = applied \cup {k} /\ net' = net
      BY <1>2, <2>2
    <3>2. \A l \in Rows, i \in Nat : News(l, i)' <=> News(l, i) /\ ~(l = k /\ i = 1)
      BY <3>1 DEF News
    <3>3. applied' \subseteq DOMAIN Head(net')
      BY <1>1, <3>1 DEF first
    <3>4. \A i \in Nat : i + 0 = i
      OBVIOUS
    <3> QED
      BY <1>1, <3>1, <3>2, <3>3, <3>4
  <2> QED
    BY <2>1, <2>2
<1>9. DbType'
  BY <1>1, <1>8 DEF DbType
<1>10. News(k, 1)
  BY <1>1, <1>2 DEF News
<1>11. NewsFollow'
  <2> SUFFICES ASSUME NEW l \in Rows
               PROVE  /\ \A i \in Nat : News(l, i)' =>
                           \/ net'[i][l] = db[l]
                           \/ \E j \in Nat : j > i /\ News(l, j)'
                      /\ (\A i \in Nat : ~News(l, i)') => cache'[CacheSlot(l)] = Cached(db[l])
      BY <1>1 DEF NewsFollow, Cached, Effective, CacheSlot
  <2>1. ASSUME NEW i \in Nat, News(l, i)'
        PROVE  net'[i][l] = db[l] \/ \E j \in Nat : j > i /\ News(l, j)'
    <3>1. News(l, i + d) /\ net'[i] = net[i + d] /\ i + d \in Nat /\ i + d >= 1
      BY <1>8, <2>1 DEF News
    <3>2. CASE net[i + d][l] = db[l]
      BY <3>1, <3>2
    <3>3. ASSUME NEW j \in Nat, j > i + d, News(l, j)
          PROVE  j - d \in Nat /\ j - d > i /\ News(l, j - d)'
      <4>1. PICK h \in Nat : j = h + d
        <5>1. j - d \in Nat /\ j = (j - d) + d
          BY <3>3
        <5> QED
          BY <5>1
      <4>2. h > i /\ h + d # 1 /\ j - d = h
        BY <3>1, <3>3, <4>1
      <4> QED
        BY <1>8, <3>3, <4>1, <4>2
    <3> QED
      BY <3>1, <3>2, <3>3 DEF NewsFollow
  <2>2. ASSUME \A i \in Nat : ~News(l, i)'
        PROVE  cache'[CacheSlot(l)] = Cached(db[l])
    <3>1. ASSUME NEW j \in Nat, News(l, j)
          PROVE  l = k /\ j = 1
      <4>1. j >= 1
        BY <3>1 DEF News
      <4>2. PICK h \in Nat : j = h + d
        <5>1. j - d \in Nat /\ j = (j - d) + d
          BY <4>1
        <5> QED
          BY <5>1
      <4> QED
        BY <1>8, <2>2, <3>1, <4>2
    <3>2. CASE l = k
      <4>1. net[1][l] = db[l]
        BY <1>10, <3>1, <3>2 DEF NewsFollow
      <4> QED
        BY <1>1, <1>6, <3>2, <4>1
    <3>3. CASE l # k
      BY <1>7, <3>1, <3>3 DEF NewsFollow
    <3> QED
      BY <3>2, <3>3
  <2> QED
    BY <2>1, <2>2
<1>12. HadAll'
  <2> SUFFICES ASSUME NEW l \in Rows
               PROVE  /\ db[l] \in had[l]
                      /\ \A i \in Nat : News(l, i)' => net'[i][l] \in had[l]
                      /\ \E r \in had[l] : cache'[CacheSlot(l)] = Cached(r)
      BY <1>1 DEF HadAll, Cached, Effective, CacheSlot
  <2>1. \A i \in Nat : News(l, i)' => net'[i][l] \in had[l]
    <3>1. \A i \in Nat : i + d \in Nat
      OBVIOUS
    <3> QED
      BY <1>8, <3>1 DEF HadAll
  <2>2. CASE l = k
    <3>1. first[k] \in had[k]
      BY <1>1, <1>3, <1>10 DEF HadAll
    <3> QED
      BY <1>6, <2>1, <2>2, <3>1 DEF HadAll
  <2>3. CASE l # k
    BY <1>7, <2>1, <2>3 DEF HadAll
  <2> QED
    BY <2>2, <2>3
<1> QED
  BY <1>5, <1>9, <1>11, <1>12

\* What relates the database, the notifications and the cache.
FollowInv == DbType /\ CacheType /\ NewsFollow /\ HadAll

\* A step that leaves all of them alone preserves it.
LEMMA FollowKept ==
  ASSUME FollowInv, UNCHANGED <<db, net, applied, cache, had>>
  PROVE  FollowInv' /\ \A k \in Rows : had[k] \subseteq had'[k]
<1>1. DbType' /\ CacheType'
  BY DEF FollowInv, DbType, CacheType
<1>2. \A k, i : News(k, i)' <=> News(k, i)
  BY DEF News
<1>3. NewsFollow'
  BY <1>2 DEF FollowInv, NewsFollow, Cached, Effective, CacheSlot
<1>4. HadAll'
  BY <1>2 DEF FollowInv, HadAll, Cached, Effective, CacheSlot
<1> QED
  BY <1>1, <1>3, <1>4 DEF FollowInv

\* Whatever the requests, the driver and the monitor do, the cache goes on
\* following the database, and no row forgets what it has held.
LEMMA FollowStep ==
  ASSUME FollowInv, SendType, [Next]_vars
  PROVE  FollowInv' /\ \A k \in Rows : had[k] \subseteq had'[k]
<1> USE TableAssumption
<1>1. ASSUME NEW new \in [Rows -> Row], Commit(new), UNCHANGED <<applied, cache>>
      PROVE  FollowInv' /\ \A k \in Rows : had[k] \subseteq had'[k]
  <2>1. CacheType'
    BY <1>1 DEF FollowInv, CacheType
  <2> QED
    BY <1>1, <2>1, CommitStep DEF FollowInv
<1>2. db \in [Rows -> Row]
  BY DEF FollowInv, DbType
<1>3. CASE Execute
  <2> DEFINE m   == Head(sent)
             new == [k \in Rows |-> IF k = m.key THEN [db[k] EXCEPT !.threshold = m.level]
                                    ELSE db[k]]
  <2>1. m.level \in Levels
    <3>1. sent # <<>> /\ sent \in Seq(Messages)
      BY <1>3 DEF Execute, SendType
    <3>2. m \in Messages
      BY <3>1
    <3> QED
      BY <3>2 DEF Messages
  <2>2. new \in [Rows -> Row]
    <3> HIDE DEF m
    <3> QED
      BY <1>2, <2>1 DEF Row
  <2>3. Commit(new) /\ UNCHANGED <<applied, cache>>
    BY <1>3 DEF Execute
  <2> QED
    BY <1>1, <2>2, <2>3
<1>4. CASE Count
  <2>1. PICK k \in Rows, n \in Counts : Commit([db EXCEPT ![k].stat = n])
    BY <1>4 DEF Count
  <2>2. [db EXCEPT ![k].stat = n] \in [Rows -> Row]
    BY <1>2 DEF Row
  <2>3. UNCHANGED <<applied, cache>>
    BY <1>4 DEF Count
  <2> QED
    BY <1>1, <2>1, <2>2, <2>3
<1>5. CASE ClearThresholds
  <2> DEFINE new == [k \in Rows |-> [db[k] EXCEPT !.threshold = Unset]]
  <2>1. new \in [Rows -> Row]
    BY <1>2 DEF Row
  <2>2. Commit(new) \/ UNCHANGED <<db, net, had>>
    BY <1>5 DEF ClearThresholds
  <2>3. UNCHANGED <<applied, cache>>
    BY <1>5 DEF ClearThresholds
  <2> QED
    BY <1>1, <2>1, <2>2, <2>3, FollowKept
<1>6. CASE ClearStats
  <2> DEFINE new == [k \in Rows |-> [db[k] EXCEPT !.stat = 0]]
  <2>1. new \in [Rows -> Row]
    BY <1>2 DEF Row, Counts
  <2>2. Commit(new) \/ UNCHANGED <<db, net, had>>
    BY <1>6 DEF ClearStats
  <2>3. UNCHANGED <<applied, cache>>
    BY <1>6 DEF ClearStats
  <2> QED
    BY <1>1, <2>1, <2>2, <2>3, FollowKept
<1>7. CASE MonitorRow
  <2>1. had' = had
    BY <1>7 DEF MonitorRow
  <2> QED
    BY <1>7, <2>1, MonitorStep DEF FollowInv
<1>8. CASE \/ SetThreshold \/ SendThreshold \/ GetThresholds \/ ReadThreshold
           \/ GetStats \/ ReadRealm \/ Answer \/ Disconnect
  <2>1. UNCHANGED <<db, net, applied, cache, had>>
    BY <1>8 DEF SetThreshold, SendThreshold, GetThresholds, ReadThreshold, GetStats,
                ReadRealm, Answer, Disconnect
  <2> QED
    BY <2>1, FollowKept
<1>9. CASE UNCHANGED vars
  BY <1>9, FollowKept DEF vars
<1> QED
  BY <1>3, <1>4, <1>5, <1>6, <1>7, <1>8, <1>9 DEF Next, BstThread

-----------------------------------------------------------------------------
(* The thresholds that are sent *)

\* What a checked request may hold.
LEMMA RequestFields ==
  ASSUME NEW r \in SetRequests
  PROVE  /\ r.type = "SET_THRESHOLD" /\ r.realm \in Realms
         /\ r.port \in Nat /\ r.index \in Nat
         /\ r.levels \in [DOMAIN Counters[r.realm] -> 0 .. MaxLevel + 1]
<1> DEFINE Of(q) == [type : {"SET_THRESHOLD"}, realm : {q},
                     port : IF q \in PortRealms THEN 0 .. MaxPorts + 1 ELSE {0},
                     index : IF q = DeviceRealm THEN {0} ELSE 0 .. NumIndex,
                     levels : [DOMAIN Counters[q] -> 0 .. MaxLevel + 1]]
<1>1. PICK q \in Realms : r \in Of(q)
  BY DEF SetRequests
<1>2. r.port \in Nat /\ r.index \in Nat
  BY <1>1, TableAssumption
<1> QED
  BY <1>1, <1>2

\* Every threshold of a request that passed both checks is a level.
LEMMA NextLevelFits ==
  ASSUME SendFits, bpc = "send"
  PROVE  /\ NextLevel \in Levels
         /\ Key(req.realm, Head(left), req.port, req.index) \in Keys
         /\ Tail(left) \in Seq(CounterNames) /\ Len(Tail(left)) = Len(left) - 1
<1> USE TableAssumption
<1> DEFINE c == Counters[req.realm]
           n == 1 + Len(c) - Len(left)
<1>1. /\ req \in SetRequests /\ ValidLevels(req) /\ PluginAccepts(req)
      /\ left \in Seq(CounterNames) /\ Len(left) \in 1 .. Len(c)
  BY DEF SendFits
<1>2. /\ req.realm \in Realms /\ req.port \in Nat /\ req.index \in Nat
      /\ req.levels \in [DOMAIN c -> 0 .. MaxLevel + 1]
  BY <1>1, RequestFields
<1>3. c \in Seq(CounterNames)
  BY <1>2, CountersType DEF CounterLists
<1> HIDE DEF c
<1>4. n \in DOMAIN c /\ DOMAIN req.levels = DOMAIN c
  BY <1>1, <1>2, <1>3
<1>5. req.levels[n] \in Levels
  BY <1>1, <1>2, <1>4 DEF ValidLevels, PluginAccepts, Levels
<1>6. left # <<>> /\ Head(left) \in CounterNames /\ Tail(left) \in Seq(CounterNames)
        /\ Len(Tail(left)) = Len(left) - 1
  BY <1>1, HeadTailProperties
<1> QED
  BY <1>2, <1>5, <1>6 DEF NextLevel, Keys, c

\* Only checked thresholds are sent, and the request is at most sent to its end.
LEMMA SendStep ==
  ASSUME SendType, SendFits, [Next]_vars
  PROVE  SendType' /\ SendFits'
<1> USE TableAssumption
<1>1. MaxLevel \in Levels
  BY DEF Levels
<1>2. CASE SetThreshold
  <2>1. /\ req' \in SetRequests /\ ValidAddress(req') /\ ValidLevels(req')
        /\ PluginAccepts(req') /\ left' = Counters[req'.realm]
        /\ UNCHANGED <<rpc, sent, wanted>>
    BY <1>2 DEF SetThreshold
  <2>2. Counters[req'.realm] \in CounterLists
    BY <2>1, RequestFields, CountersType
  <2>3. /\ left' \in Seq(CounterNames)
        /\ Len(left') \in 1 .. Len(Counters[req'.realm])
    <3>1. \A c \in CounterLists : c \in Seq(CounterNames) /\ Len(c) \in 1 .. Len(c)
      BY DEF CounterLists
    <3> QED
      BY <2>1, <2>2, <3>1
  <2>4. SendFits'
    BY <2>1, <2>3 DEF SendFits
  <2> QED
    BY <2>1, <2>4 DEF SendType
<1>3. CASE SendThreshold
  <2> DEFINE key == Key(req.realm, Head(left), req.port, req.index)
  <2>1. /\ bpc = "send" /\ bpc' \in {"recv", "send"} /\ req' = req /\ left' = Tail(left)
        /\ bpc' = "send" => Len(left) # 1
    BY <1>3 DEF SendThreshold
  <2>2. NextLevel \in Levels /\ key \in Keys /\ left' \in Seq(CounterNames)
          /\ Len(left') = Len(left) - 1
    BY <2>1, NextLevelFits
  <2>3. SendFits'
    <3>1. bpc' = "send" => Len(left') \in 1 .. Len(Counters[req.realm])
      BY <2>1, <2>2 DEF SendFits
    <3> QED
      BY <2>1, <2>2, <3>1 DEF SendFits
  <2>4. \/ /\ Transmit(key, NextLevel)
           /\ wanted' = Promise(Head(left), IF rpc = "dead" THEN Unknown ELSE NextLevel)
        \/ UNCHANGED <<sent, rpc, wanted>>
    BY <1>3 DEF SendThreshold
  <2> HIDE DEF key
  <2>5. CASE UNCHANGED <<sent, rpc, wanted>>
    BY <2>3, <2>5 DEF SendType
  <2>6. CASE /\ Transmit(key, NextLevel)
             /\ wanted' = Promise(Head(left), IF rpc = "dead" THEN Unknown ELSE NextLevel)
    <3>1. wanted' \in [Targets -> Levels \cup {Unknown}]
      BY <2>2, <2>6 DEF Promise, SendType
    <3>2. rpc' \in {"none", "open", "dead"}
      BY <2>6 DEF Transmit, SendType
    <3>3. [key |-> key, level |-> NextLevel] \in Messages
      BY <2>2 DEF Messages
    <3>4. sent' \in Seq(Messages)
      <4>1. sent \in Seq(Messages)
        BY DEF SendType
      <4> QED
        BY <2>6, <3>3, <4>1 DEF Transmit
    <3> QED
      BY <2>3, <3>1, <3>2, <3>4 DEF SendType
  <2> QED
    BY <2>4, <2>5, <2>6
<1>4. CASE Execute
  <2>1. /\ sent' \in Seq(Messages)
        /\ UNCHANGED <<rpc, bpc, req, left, wanted>>
    BY <1>4, HeadTailProperties DEF Execute, SendType
  <2> QED
    BY <2>1 DEF SendType, SendFits
<1>5. CASE Disconnect
  <2>1. sent' = <<>> /\ rpc' = "dead" /\ wanted' \in [Targets -> Levels \cup {Unknown}]
          /\ UNCHANGED <<bpc, req, left>>
    BY <1>5 DEF Disconnect, SendType
  <2> QED
    BY <2>1 DEF SendType, SendFits
<1>6. CASE ClearThresholds
  <2>1. wanted' \in [Targets -> Levels \cup {Unknown}] /\ UNCHANGED <<rpc, sent, bpc, req, left>>
    BY <1>1, <1>6 DEF ClearThresholds, SendType
  <2> QED
    BY <2>1 DEF SendType, SendFits
<1>7. CASE ClearStats \/ MonitorRow \/ Count \/ UNCHANGED vars
  <2>1. UNCHANGED <<rpc, sent, wanted, bpc, req, left>>
    BY <1>7 DEF ClearStats, MonitorRow, Count, vars
  <2> QED
    BY <2>1 DEF SendType, SendFits
<1>8. CASE GetThresholds \/ ReadThreshold \/ GetStats \/ ReadRealm \/ Answer
  <2>1. UNCHANGED <<rpc, sent, wanted>> /\ bpc' # "send"
    BY <1>8 DEF GetThresholds, GetStats, Get, ReadThreshold, ReadRealm, Answer
  <2> QED
    BY <2>1 DEF SendType, SendFits
<1> QED
  BY <1>2, <1>3, <1>4, <1>5, <1>6, <1>7, <1>8 DEF Next, BstThread

-----------------------------------------------------------------------------
(* The answers *)

\* What is left after a reading step.
LEMMA TailIn ==
  ASSUME NEW S, NEW q \in Seq(S), q # <<>>
  PROVE  /\ Head(q) \in S /\ Tail(q) \in Seq(S)
         /\ \A x : In(x, q) => x = Head(q) \/ In(x, Tail(q))
         /\ Len(q) # 1 => Tail(q) # <<>>
         /\ Len(q) = 1 => \A x : ~In(x, Tail(q))
<1>1. /\ Head(q) = q[1] /\ Head(q) \in S /\ Tail(q) \in Seq(S)
      /\ Len(q) \in Nat \ {0} /\ Len(Tail(q)) = Len(q) - 1
      /\ \A i \in 1 .. Len(q) - 1 : Tail(q)[i] = q[i + 1]
  BY HeadTailProperties
<1>2. ASSUME NEW x, In(x, q), x # Head(q)
      PROVE  In(x, Tail(q))
  <2>1. PICK n \in 1 .. Len(q) : q[n] = x
    BY <1>2 DEF In
  <2>2. n - 1 \in 1 .. Len(q) - 1 /\ n - 1 + 1 = n
    BY <1>1, <1>2, <2>1
  <2> QED
    BY <1>1, <2>1, <2>2 DEF In
<1>3. Len(q) # 1 => Tail(q) # <<>>
  <2>1. Len(<<>>) = 0
    OBVIOUS
  <2>2. Len(q) # 1 => Len(Tail(q)) # 0
    BY <1>1
  <2> QED
    BY <2>1, <2>2
<1>4. Len(q) = 1 => \A x : ~In(x, Tail(q))
  BY <1>1 DEF In
<1> QED
  BY <1>1, <1>2, <1>3, <1>4

\* A step that the bst thread does not take leaves what it has read honest.
LEMMA ReadKept ==
  ASSUME ReadFits, UNCHANGED <<bpc, req, left, record>>,
         \A k \in Rows : had[k] \subseteq had'[k]
  PROVE  ReadFits'
<1>1. \A t \in Targets : had[KeyOf(t)] \subseteq had'[KeyOf(t)]
  BY AddressesAgree
<1>2. \A t \in Targets :
        /\ (\E r \in had[KeyOf(t)] : record[t] = r.stat) =>
             \E r \in had'[KeyOf(t)] : record'[t] = r.stat
        /\ (\E r \in had[KeyOf(t)] : record[t] = Effective(r.threshold)) =>
             \E r \in had'[KeyOf(t)] : record'[t] = Effective(r.threshold)
  BY <1>1
<1>3. \A x : In(x, left)' <=> In(x, left)
  BY DEF In
<1> DEFINE Fits(t) ==
             IF req.type = "GET_REPORT"
             THEN (bpc = "answer" \/ ~In(t.realm, left)) =>
                    \E r \in had[KeyOf(t)] : record[t] = r.stat
             ELSE (bpc = "answer" \/ ~In(t, left)) =>
                    \E r \in had[KeyOf(t)] : record[t] = Effective(r.threshold)
<1>4. ASSUME NEW t \in Targets, Fits(t)
      PROVE  Fits(t)'
  BY <1>2, <1>3, <1>4 DEF Effective, KeyOf, Key
<1>5. bpc \in {"read", "answer"} => \A t \in Targets : Fits(t)
  BY Zenon DEF ReadFits
<1> QED
  BY <1>4, <1>5 DEF ReadFits

\* The place a counter is read from holds a value its row has had.
LEMMA SampleHad ==
  ASSUME FollowInv, NEW t \in Targets
  PROVE  /\ \E r \in had[KeyOf(t)] : cache[SlotOf(t)].stat = r.stat
         /\ \E r \in had[KeyOf(t)] : cache[SlotOf(t)].threshold = Effective(r.threshold)
         /\ cache[SlotOf(t)].stat \in Counts
         /\ cache[SlotOf(t)].threshold \in Levels \cup Counts
<1>1. KeyOf(t) \in Rows /\ SlotOf(t) = CacheSlot(KeyOf(t)) /\ SlotOf(t) \in Slots
  BY AddressesAgree
<1>2. PICK r \in had[KeyOf(t)] : cache[SlotOf(t)] = Cached(r)
  BY <1>1 DEF FollowInv, HadAll
<1>3. cache[SlotOf(t)].stat = r.stat /\ cache[SlotOf(t)].threshold = Effective(r.threshold)
  BY <1>2 DEF Cached
<1>4. cache[SlotOf(t)] \in [stat : Counts, threshold : Levels \cup {0}] /\ 0 \in Counts
  BY <1>1, TableAssumption DEF FollowInv, CacheType, Counts
<1> QED
  BY <1>2, <1>3, <1>4

\* A request to read starts with everything still to be read.
LEMMA OrdersFull ==
  /\ ThresholdOrder # <<>> /\ SnapshotOrder # <<>>
  /\ \A t \in Targets : In(t, ThresholdOrder) /\ In(t.realm, SnapshotOrder)
<1> USE TableAssumption
<1>1. PICK r \in Realms : TRUE
  OBVIOUS
<1>3. In(r, SnapshotOrder)
  BY <1>1, SnapshotOrderFits
<1>4. \E t : t \in Targets
  <2> DEFINE c == Counters[r][1]
             p == IF r \in PortRealms THEN 1 ELSE 0
  <2>1. c \in ToSet(Counters[r])
    <3>1. Counters[r] \in CounterLists
      BY <1>1, CountersType
    <3>2. \A q \in CounterLists : q[1] \in ToSet(q)
      BY DEF CounterLists, ToSet
    <3> QED
      BY <3>1, <3>2
  <2>2. p \in IF r \in PortRealms THEN 1 .. NumPorts ELSE {0}
    OBVIOUS
  <2>3. 0 \in IF r = DeviceRealm THEN {0} ELSE 0 .. NumIndex - 1
    OBVIOUS
  <2> HIDE DEF c, p
  <2>4. [realm |-> r, counter |-> c, port |-> p, index |-> 0] \in Targets
    BY <1>1, <2>1, <2>2, <2>3 DEF Targets
  <2> QED
    BY <2>4
<1>5. ASSUME NEW x, NEW q, In(x, q)
      PROVE  q # <<>>
  <2>1. Len(<<>>) = 0
    OBVIOUS
  <2>2. ~In(x, <<>>)
    BY <2>1 DEF In
  <2> QED
    BY <1>5, <2>2
<1>6. \A t \in Targets : t.realm \in Realms
  BY TargetFields
<1> QED
  BY <1>3, <1>4, <1>5, <1>6, ThresholdOrderFits, SnapshotOrderFits

\* A reading step adds a value that the row has had, and the answer comes when
\* there is one for every counter.
LEMMA ReadStep ==
  ASSUME FollowInv, ReadType, ReadFits, [Next]_vars,
         \A k \in Rows : had[k] \subseteq had'[k]
  PROVE  ReadType' /\ ReadFits'
<1> USE TableAssumption
<1>1. ASSUME events' \in {events, events + 1}, events' = events + 1 => events < MaxEvents
      PROVE  events' \in 0 .. MaxEvents
  BY <1>1 DEF ReadType
<1>2. CASE SetThreshold
  <2>1. bpc' = "send" /\ UNCHANGED record /\ Event
    BY <1>2 DEF SetThreshold
  <2> QED
    BY <1>1, <2>1 DEF ReadType, ReadFits, Event
<1>3. CASE SendThreshold
  <2>1. bpc' \in {"send", "recv"} /\ UNCHANGED <<record, events>>
    BY <1>3 DEF SendThreshold
  <2> QED
    BY <2>1 DEF ReadType, ReadFits
<1>4. CASE Answer
  <2>1. bpc' = "recv" /\ record' = Zeroed /\ UNCHANGED events
    BY <1>4 DEF Answer
  <2>2. 0 \in Counts
    BY DEF Counts
  <2> QED
    BY <2>1, <2>2 DEF ReadType, ReadFits, Zeroed
<1>5. CASE GetThresholds
  <2>1. /\ bpc' = "read" /\ req'.type = "GET_THRESHOLD" /\ left' = ThresholdOrder
        /\ UNCHANGED record /\ Event
    BY <1>5 DEF GetThresholds, Get
  <2>2. ReadType'
    BY <1>1, <2>1 DEF ReadType, Event
  <2>3. \A t \in Targets : In(t, left)'
    BY <2>1, OrdersFull DEF In
  <2>4. left' \in Seq(Targets) /\ left' # <<>>
    BY <2>1, OrdersFull, ThresholdOrderFits
  <2> QED
    BY <2>1, <2>2, <2>3, <2>4 DEF ReadFits
<1>6. CASE GetStats
  <2>1. /\ bpc' = "read" /\ req'.type = "GET_REPORT" /\ left' = SnapshotOrder
        /\ UNCHANGED record /\ Event
    BY <1>6 DEF GetStats, Get
  <2>2. ReadType'
    BY <1>1, <2>1 DEF ReadType, Event
  <2>3. \A t \in Targets : In(t.realm, left)'
    BY <2>1, OrdersFull DEF In
  <2>4. left' \in Seq(Realms) /\ left' # <<>>
    BY <2>1, OrdersFull, SnapshotOrderFits
  <2> QED
    BY <2>1, <2>2, <2>3, <2>4 DEF ReadFits
<1>7. CASE ReadThreshold
  <2>1. /\ bpc = "read" /\ req.type = "GET_THRESHOLD" /\ left \in Seq(Targets) /\ left # <<>>
        /\ record' = [record EXCEPT ![Head(left)] = cache[SlotOf(Head(left))].threshold]
        /\ left' = Tail(left) /\ bpc' = IF Len(left) = 1 THEN "answer" ELSE "read"
        /\ UNCHANGED <<req, had, events>>
    BY <1>7 DEF ReadThreshold, ReadFits
  <2>2. /\ Head(left) \in Targets /\ left' \in Seq(Targets)
        /\ \A x : In(x, left) => x = Head(left) \/ In(x, left')
        /\ bpc' = "read" => left' # <<>>
        /\ bpc' = "answer" => \A x : ~In(x, left')
    BY <2>1, TailIn
  <2>3. ReadType'
    BY <2>1, <2>2, SampleHad DEF ReadType
  <2>4. ASSUME NEW t \in Targets, bpc' = "answer" \/ ~In(t, left')
        PROVE  \E r \in had[KeyOf(t)] : record'[t] = Effective(r.threshold)
    <3>1. CASE t = Head(left)
      BY <2>1, <3>1, SampleHad DEF ReadType
    <3>2. CASE t # Head(left)
      <4>1. record'[t] = record[t]
        BY <2>1, <3>2 DEF ReadType
      <4>2. ~In(t, left)
        BY <2>2, <2>4, <3>2, <2>1
      <4> QED
        BY <2>1, <4>1, <4>2 DEF ReadFits
    <3> QED
      BY <3>1, <3>2
  <2>5. \A x : In(x, left)' <=> In(x, left')
    BY DEF In
  <2>6. req'.type = "GET_THRESHOLD" /\ bpc' \in {"read", "answer"}
    BY <2>1
  <2> QED
    BY <2>1, <2>2, <2>3, <2>4, <2>5, <2>6 DEF ReadFits, Effective, KeyOf, Key
<1>8. CASE ReadRealm
  <2>1. /\ bpc = "read" /\ req.type = "GET_REPORT" /\ left \in Seq(Realms) /\ left # <<>>
        /\ record' = [t \in Targets |-> IF t.realm = Head(left) THEN cache[SlotOf(t)].stat
                                        ELSE record[t]]
        /\ left' = Tail(left) /\ bpc' = IF Len(left) = 1 THEN "answer" ELSE "read"
        /\ UNCHANGED <<req, had, events>>
    BY <1>8 DEF ReadRealm, ReadFits, Sample
  <2>2. /\ left' \in Seq(Realms)
        /\ \A x : In(x, left) => x = Head(left) \/ In(x, left')
        /\ bpc' = "read" => left' # <<>>
        /\ bpc' = "answer" => \A x : ~In(x, left')
    BY <2>1, TailIn
  <2>3. ReadType'
    BY <2>1, <2>2, SampleHad DEF ReadType
  <2>4. ASSUME NEW t \in Targets, bpc' = "answer" \/ ~In(t.realm, left')
        PROVE  \E r \in had[KeyOf(t)] : record'[t] = r.stat
    <3>1. CASE t.realm = Head(left)
      BY <2>1, <3>1, SampleHad
    <3>2. CASE t.realm # Head(left)
      <4>1. record'[t] = record[t]
        BY <2>1, <3>2
      <4>2. ~In(t.realm, left)
        BY <2>2, <2>4, <3>2, <2>1
      <4> QED
        BY <2>1, <4>1, <4>2 DEF ReadFits
    <3> QED
      BY <3>1, <3>2
  <2>5. \A x : In(x, left)' <=> In(x, left')
    BY DEF In
  <2>6. req'.type = "GET_REPORT" /\ bpc' \in {"read", "answer"}
    BY <2>1
  <2> QED
    BY <2>1, <2>2, <2>3, <2>4, <2>5, <2>6 DEF ReadFits, KeyOf, Key
<1>9. CASE ClearThresholds \/ ClearStats \/ Count
  <2>1. UNCHANGED <<bpc, req, left, record>> /\ Event
    BY <1>9 DEF ClearThresholds, ClearStats, Count
  <2>2. ReadType'
    BY <1>1, <2>1 DEF ReadType, Event
  <2> QED
    BY <2>1, <2>2, ReadKept
<1>10. CASE MonitorRow \/ Execute \/ Disconnect \/ UNCHANGED vars
  <2>1. UNCHANGED <<bpc, req, left, record, events>>
    BY <1>10 DEF MonitorRow, Execute, Disconnect, vars
  <2> QED
    BY <2>1, ReadKept DEF ReadType
<1> QED
  BY <1>2, <1>3, <1>4, <1>5, <1>6, <1>7, <1>8, <1>9, <1>10 DEF Next, BstThread

-----------------------------------------------------------------------------
(* The theorems *)

\* Every step keeps TableInv.
LEMMA TableStep == TableInv /\ [Next]_vars => TableInv'
  BY FollowStep, SendStep, ReadStep DEF TableInv, FollowInv

\* The inductive invariant.
THEOREM TableInvariant == Spec => []TableInv
<1>1. Init => TableInv
  BY TableInit
<1>2. TableInv /\ [Next]_vars => TableInv'
  BY TableStep
<1> QED
  BY <1>1, <1>2, PTL DEF Spec

\* Every variable of the table has its type, and no row a threshold that REST
\* refuses.
THEOREM TableTypeCorrect == Spec => []TypeOK
<1>1. TableInv => TypeOK
  <2> SUFFICES ASSUME TableInv PROVE TypeOK
      OBVIOUS
  <2>1. \A m \in ToSet(sent) : m.level \in Levels
    <3>1. sent \in Seq(Messages)
      BY DEF TableInv, SendType
    <3>2. \A m \in ToSet(sent) : m \in Messages
      BY <3>1 DEF ToSet
    <3> QED
      BY <3>2 DEF Messages
  <2>2. \A n \in ToSet(net) : DOMAIN n \subseteq Rows /\ \A k \in DOMAIN n : n[k] \in Row
    <3>1. net \in Seq(Notices)
      BY DEF TableInv, DbType
    <3>2. \A n \in ToSet(net) : n \in Notices
      BY <3>1 DEF ToSet
    <3>3. ASSUME NEW n \in Notices
          PROVE  DOMAIN n \subseteq Rows /\ \A k \in DOMAIN n : n[k] \in Row
      <4>1. PICK K \in SUBSET Rows : n \in [K -> Row]
        BY DEF Notices
      <4> QED
        BY <4>1
    <3> QED
      BY <3>2, <3>3
  <2>3. bpc \in {"send", "read"} => left # <<>>
    <3>1. bpc = "send" => left # <<>>
      <4>1. Len(<<>>) = 0
        OBVIOUS
      <4> QED
        BY <4>1 DEF TableInv, SendFits
    <3> QED
      BY <3>1 DEF TableInv, ReadFits
  <2> QED
    BY <2>1, <2>2, <2>3 DEF TableInv, DbType, CacheType, SendType, ReadType, TypeOK
<1> QED
  BY <1>1, TableInvariant, PTL

\* When every notification has been applied, the database and the cache agree
\* on every counter that REST can name.
THEOREM CacheFollowsDatabase == Spec => []CacheFollows
<1>1. TableInv => CacheFollows
  <2> SUFFICES ASSUME TableInv, net = <<>>, NEW t \in Targets
               PROVE  /\ cache[SlotOf(t)].stat = db[KeyOf(t)].stat
                      /\ cache[SlotOf(t)].threshold = Effective(db[KeyOf(t)].threshold)
      BY DEF CacheFollows
  <2>1. \A k, i : ~News(k, i)
    BY DEF News
  <2>2. KeyOf(t) \in Rows /\ SlotOf(t) = CacheSlot(KeyOf(t))
    BY AddressesAgree
  <2>3. cache[SlotOf(t)] = Cached(db[KeyOf(t)])
    BY <2>1, <2>2 DEF TableInv, NewsFollow
  <2> QED
    BY <2>3 DEF Cached
<1> QED
  BY <1>1, TableInvariant, PTL

\* An answer shows of every counter a value that its row has had.
THEOREM ReportsAreHonest == Spec => []ReportHonest
<1>1. TableInv => ReportHonest
  BY DEF TableInv, ReadFits, ReportHonest
<1> QED
  BY <1>1, TableInvariant, PTL
=============================================================================
