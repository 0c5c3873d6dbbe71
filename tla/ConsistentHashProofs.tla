------------------------ MODULE ConsistentHashProofs ------------------------
(***************************************************************************)
(* Proofs about ConsistentHash, for any instances, addresses, hash values  *)
(* and number of replicas.                                                 *)
(***************************************************************************)
EXTENDS ConsistentHash, FiniteSetTheorems, TLAPS

----------------------------------------------------------------------------
(* The choice of the first virtual node *)

(* v is the node of V that a request with hash h meets first: the least hash *)
(* not below h, or the least of all where every hash is below h.             *)
IsFirst(V, h, v) ==
    /\ v \in V
    /\ \/ /\ v.hash >= h
          /\ \A w \in V : w.hash >= h => v.hash <= w.hash
       \/ /\ \A w \in V : w.hash < h
          /\ \A w \in V : v.hash <= w.hash

Nodes(r) == {r[i] : i \in DOMAIN r}

(* On a sorted ring, partition_point and the wrap-around find that node. *)
LEMMA FirstIndexIsFirst ==
  ASSUME NEW r \in Seq(VNodes), Sorted(r), NEW h \in Hashes,
         NEW i \in FirstIndex(r, h), i \in DOMAIN r
  PROVE  IsFirst(Nodes(r), h, r[i])
<1>1. PICK n \in 1 .. Len(r) + 1 : IsPartitionPoint(r, h, n) /\ i = Wrap(r, n)
  BY DEF FirstIndex
<1>2. /\ Len(r) \in Nat /\ DOMAIN r = 1 .. Len(r)
      /\ h \in Int
      /\ \A k \in DOMAIN r : r[k].hash \in Int
  <2>1. Hashes \subseteq Int
    BY ConsistentHashAssumption
  <2>2. \A k \in DOMAIN r : r[k] \in VNodes
    OBVIOUS
  <2>3. \A k \in DOMAIN r : r[k].hash \in Int
    BY <2>1, <2>2 DEF VNodes
  <2>4. Len(r) \in Nat /\ DOMAIN r = 1 .. Len(r)
    OBVIOUS
  <2> QED BY <2>1, <2>3, <2>4
<1>3. \A k \in DOMAIN r : r[k].hash < h <=> k < n
  BY <1>1 DEF IsPartitionPoint
<1>4. CASE n = Len(r) + 1
  <2>1. i = 1 /\ \A k \in DOMAIN r : r[k].hash < h /\ r[1].hash <= r[k].hash
    <3>1. i = 1
      BY <1>1, <1>4 DEF Wrap
    <3>2. \A k \in DOMAIN r : 1 < k => r[1].hash <= r[k].hash
      BY <3>1 DEF Sorted
    <3> QED BY <1>2, <1>3, <1>4, <3>1, <3>2
  <2> QED BY <2>1 DEF IsFirst, Nodes
<1>5. CASE n # Len(r) + 1
  <2>1. i = n
    BY <1>1, <1>5 DEF Wrap
  <2>2. r[i].hash >= h
    BY <1>2, <1>3, <2>1
  <2>3. \A k \in DOMAIN r : r[k].hash >= h => r[i].hash <= r[k].hash
    <3> SUFFICES ASSUME NEW k \in DOMAIN r, r[k].hash >= h
                 PROVE  r[i].hash <= r[k].hash
      OBVIOUS
    <3>1. k >= n
      BY <1>1, <1>2, <1>3
    <3>2. CASE k = n
      BY <1>2, <2>1, <3>2
    <3>3. CASE k > n
      BY <1>2, <2>1, <3>3 DEF Sorted
    <3> QED BY <1>1, <1>2, <3>1, <3>2, <3>3
  <2> QED BY <2>2, <2>3 DEF IsFirst, Nodes
<1> QED BY <1>4, <1>5

(* The index is inside a ring that has any node at all. *)
LEMMA FirstIndexInRing ==
  ASSUME NEW r \in Seq(VNodes), r # <<>>, NEW h, NEW i \in FirstIndex(r, h)
  PROVE  i \in DOMAIN r
<1>1. PICK n \in 1 .. Len(r) + 1 : i = Wrap(r, n)
  BY DEF FirstIndex
<1>2. Len(r) \in Nat /\ DOMAIN r = 1 .. Len(r) /\ Len(r) # 0
  OBVIOUS
<1> QED BY <1>1, <1>2 DEF Wrap

(* Without equal hashes there is one first node. *)
LEMMA FirstUnique ==
  ASSUME NEW V \in SUBSET VNodes, NEW h \in Hashes, NEW u, NEW v,
         \A x, y \in V : x.hash = y.hash => x = y,
         IsFirst(V, h, u), IsFirst(V, h, v)
  PROVE  u = v
<1>1. h \in Int /\ \A x \in V : x.hash \in Int
  <2>1. Hashes \subseteq Int
    BY ConsistentHashAssumption
  <2> QED BY <2>1 DEF VNodes
<1>2. u \in V /\ v \in V
  BY DEF IsFirst
<1>3. u.hash <= v.hash /\ v.hash <= u.hash
  BY <1>1, <1>2 DEF IsFirst
<1> QED BY <1>1, <1>2, <1>3

(* A node that is first among many is first among fewer. *)
LEMMA FirstOfFewer ==
  ASSUME NEW V, NEW W \in SUBSET V, NEW h, NEW v \in W, IsFirst(V, h, v)
  PROVE  IsFirst(W, h, v)
  BY DEF IsFirst

(***************************************************************************)
(* Consistent hashing, for every two rings that build_weighted_instances   *)
(* makes of a list and of the same list without the instance x: a request  *)
(* whose first choice is not x keeps it.                                   *)
(***************************************************************************)
THEOREM RemovalStable ==
  ASSUME NEW r \in Seq(VNodes), Sorted(r), NEW s \in Seq(VNodes), Sorted(s),
         NEW x, Nodes(s) = {v \in Nodes(r) : v.inst # x}, NoCollision(r),
         NEW h \in Hashes, NEW i \in FirstIndex(r, h), i \in DOMAIN r, r[i].inst # x,
         NEW j \in FirstIndex(s, h)
  PROVE  s[j] = r[i]
<1>1. r[i] \in Nodes(s)
  BY DEF Nodes
<1>2. s # <<>>
  BY <1>1 DEF Nodes
<1>3. IsFirst(Nodes(s), h, r[i])
  BY <1>1, FirstIndexIsFirst, FirstOfFewer
<1>4. IsFirst(Nodes(s), h, s[j])
  BY <1>2, FirstIndexInRing, FirstIndexIsFirst
<1>5. Nodes(s) \in SUBSET VNodes
  BY DEF Nodes
<1>6. \A u, v \in Nodes(s) : u.hash = v.hash => u = v
  BY DEF Nodes, NoCollision
<1> QED BY <1>3, <1>4, <1>5, <1>6, FirstUnique

----------------------------------------------------------------------------
(* The iterator *)

(***************************************************************************)
(* The inductive invariant: what next has given is what used remembers, so *)
(* the size of used, which next compares with replicas, counts the picks.  *)
(***************************************************************************)
IInv ==
    /\ TypeOK
    /\ IsFiniteSet(used)
    /\ used = {picks[i] : i \in DOMAIN picks}
    /\ Cardinality(used) = Len(picks)
    /\ Len(picks) <= Replicas
    /\ last = 0 => used = {}
    /\ \A i, j \in DOMAIN picks : picks[i] = picks[j] => i = j
    /\ PanicsOnlyWithoutVirtual

(* build_weighted_instances gives a finite sequence of virtual nodes. *)
LEMMA RingType ==
  ASSUME NEW R \in SUBSET Insts, NEW addr \in [R -> Addrs],
         NEW keys \in SUBSET (R \X Hashes),
         NEW r \in Rings({[inst |-> k[1], addr |-> addr[k[1]], hash |-> k[2]] : k \in keys})
  PROVE  r \in Seq(VNodes) /\ Sorted(r)
<1> DEFINE node == [k \in keys |-> [inst |-> k[1], addr |-> addr[k[1]], hash |-> k[2]]]
           S == {[inst |-> k[1], addr |-> addr[k[1]], hash |-> k[2]] : k \in keys}
<1>1. IsFiniteSet(keys)
  <2>1. IsFiniteSet(R)
    BY ConsistentHashAssumption, FS_Subset
  <2>2. IsFiniteSet(R \X Hashes)
    BY <2>1, ConsistentHashAssumption, FS_Product
  <2> QED BY <2>2, FS_Subset
<1>2. node \in Surjection(keys, S)
  BY DEF Surjection
<1>3. IsFiniteSet(S)
  BY <1>1, <1>2, FS_Surjection
<1>4. Cardinality(S) \in Nat
  BY <1>3, FS_CardinalityType
<1>5. S \subseteq VNodes
  BY DEF VNodes
<1>6. r \in [1 .. Cardinality(S) -> S] /\ Sorted(r)
  BY DEF Rings, SetToSeqs
<1>7. r \in Seq(S)
  <2> HIDE DEF S
  <2> QED BY <1>4, <1>6
<1> QED BY <1>5, <1>6, <1>7

LEMMA InitIInv == Init => IInv
<1> SUFFICES ASSUME Init PROVE IInv
  OBVIOUS
<1>1. PICK addr \in [realNodes -> Addrs], keys \in SUBSET (realNodes \X Hashes) :
        ring \in Rings({[inst |-> k[1], addr |-> addr[k[1]], hash |-> k[2]] : k \in keys})
  BY DEF Init
<1>2. realNodes \in SUBSET Insts
  BY DEF Init
<1>3. ring \in Seq(VNodes)
  BY <1>1, <1>2, RingType
<1>4. TypeOK
  BY <1>3, ConsistentHashAssumption DEF Init, TypeOK
<1>5. IsFiniteSet(used) /\ Cardinality(used) = 0
  BY FS_EmptySet DEF Init
<1>6. used = {picks[i] : i \in DOMAIN picks} /\ Len(picks) = 0
      /\ \A i, j \in DOMAIN picks : picks[i] = picks[j] => i = j
  BY DEF Init
<1> QED BY <1>4, <1>5, <1>6, ConsistentHashAssumption DEF IInv, Init, PanicsOnlyWithoutVirtual

(* Giving an unused address, with fewer than replicas given before, keeps the *)
(* record of the picks exact.                                                 *)
LEMMA GivePreserves ==
  ASSUME IInv, NEW i \in DOMAIN ring, ring[i].addr \notin used,
         Cardinality(used) < limit, ended = "open", limit' \in 0 .. Replicas, Give(i)
  PROVE  IInv'
<1> DEFINE a == ring[i].addr
<1>1. a \in Addrs /\ i \in 0 .. Len(ring)
  <2>1. ring[i] \in VNodes
    BY DEF IInv, TypeOK
  <2>2. Len(ring) \in Nat /\ DOMAIN ring = 1 .. Len(ring)
    BY DEF IInv, TypeOK
  <2> QED BY <2>1, <2>2 DEF VNodes
<1>2. /\ last' = i /\ used' = used \cup {a} /\ picks' = Append(picks, a)
      /\ UNCHANGED <<realNodes, ring, request, ended>>
  BY DEF Give, shared
<1>3. picks \in Seq(Addrs) /\ limit \in Nat /\ limit <= Replicas /\ Replicas \in Nat
  BY ConsistentHashAssumption DEF IInv, TypeOK
<1>4. TypeOK'
  BY <1>1, <1>2, <1>3 DEF IInv, TypeOK
<1>5. IsFiniteSet(used') /\ Cardinality(used') = Cardinality(used) + 1
  BY <1>2, FS_AddElement DEF IInv
<1> HIDE DEF a
<1>6. /\ Len(picks') = Len(picks) + 1 /\ Len(picks) \in Nat
      /\ DOMAIN picks' = 1 .. Len(picks) + 1
      /\ DOMAIN picks = 1 .. Len(picks)
      /\ \A k \in DOMAIN picks : picks'[k] = picks[k]
      /\ picks'[Len(picks) + 1] = a
  BY <1>1, <1>2, <1>3
<1>7. used' = {picks'[k] : k \in DOMAIN picks'}
  <2>1. used = {picks[k] : k \in DOMAIN picks}
    BY DEF IInv
  <2> QED BY <1>2, <1>6, <2>1
<1>8. \A k, m \in DOMAIN picks' : picks'[k] = picks'[m] => k = m
  <2>1. \A k \in DOMAIN picks : picks[k] # a
    BY DEF IInv, a
  <2>2. \A k, m \in DOMAIN picks : picks[k] = picks[m] => k = m
    BY DEF IInv
  <2> QED BY <1>6, <2>1, <2>2
<1>9. Cardinality(used') = Len(picks') /\ Len(picks') <= Replicas
  <2>1. Cardinality(used) = Len(picks)
    BY DEF IInv
  <2> QED BY <1>3, <1>5, <1>6, <2>1
<1>10. PanicsOnlyWithoutVirtual'
  BY <1>2 DEF PanicsOnlyWithoutVirtual
<1>11. last' # 0
  <2>1. DOMAIN ring = 1 .. Len(ring)
    BY DEF IInv, TypeOK
  <2> QED BY <1>2, <2>1
<1> QED BY <1>11, <1>4, <1>5, <1>7, <1>8, <1>9, <1>10 DEF IInv

LEMMA NextIInv == IInv /\ [Next]_vars => IInv'
<1> SUFFICES ASSUME IInv, [Next]_vars PROVE IInv'
  OBVIOUS
<1>1. /\ Replicas \in Nat /\ limit \in 0 .. Replicas
      /\ ring \in Seq(VNodes) /\ Len(ring) \in Nat /\ DOMAIN ring = 1 .. Len(ring)
  BY ConsistentHashAssumption DEF IInv, TypeOK
<1>2. CASE NextNone
  BY <1>1, <1>2 DEF IInv, TypeOK, NextNone, End, shared, PanicsOnlyWithoutVirtual
<1>3. CASE NextFirst
  <2>1. PICK i \in FirstIndex(ring, request) :
          IF i \in DOMAIN ring THEN Give(i) ELSE End("panic")
    BY <1>3 DEF NextFirst
  <2>2. limit' \in 0 .. Replicas
    <3>1. IsFiniteSet(realNodes)
      BY ConsistentHashAssumption, FS_Subset DEF IInv, TypeOK
    <3>2. Cardinality(realNodes) \in Nat
      BY <3>1, FS_CardinalityType
    <3> QED BY <1>1, <1>3, <3>2 DEF NextFirst
  <2>3. CASE i \in DOMAIN ring
    <3>1. used = {}
      BY <1>3 DEF IInv, NextFirst
    <3> QED BY <1>3, <2>1, <2>2, <2>3, <3>1, GivePreserves DEF NextFirst
  <2>4. CASE i \notin DOMAIN ring
    <3>1. ring = <<>>
      BY <1>1, <2>1, <2>4, FirstIndexInRing
    <3> QED BY <1>3, <2>1, <2>2, <2>4, <3>1
            DEF IInv, TypeOK, NextFirst, End, shared, PanicsOnlyWithoutVirtual
  <2> QED BY <2>3, <2>4
<1>4. CASE NextAnother
  <2>1. PICK i \in Unused : Give(i)
    BY <1>4 DEF NextAnother
  <2>2. i \in DOMAIN ring /\ ring[i].addr \notin used
    BY <2>1 DEF Unused
  <2> QED BY <1>1, <1>4, <2>1, <2>2, GivePreserves DEF NextAnother
<1>5. CASE NextExhausted
  BY <1>1, <1>5 DEF IInv, TypeOK, NextExhausted, End, shared, PanicsOnlyWithoutVirtual
<1>6. CASE UNCHANGED vars
  BY <1>6 DEF IInv, TypeOK, vars, shared, PanicsOnlyWithoutVirtual
<1> QED BY <1>2, <1>3, <1>4, <1>5, <1>6 DEF Next

(***************************************************************************)
(* The picker never gives an address twice, nor more than replicas.        *)
(***************************************************************************)
THEOREM PicksAreDistinct == Spec => []PicksDistinct
<1>1. IInv => PicksDistinct
  BY DEF IInv, PicksDistinct
<1> QED BY <1>1, InitIInv, NextIInv, PTL DEF Spec

(***************************************************************************)
(* unwrap in next fails for no ring that has a virtual node.               *)
(***************************************************************************)
THEOREM PanicNeedsEmptyRing == Spec => []PanicsOnlyWithoutVirtual
<1>1. IInv => PanicsOnlyWithoutVirtual
  BY DEF IInv
<1> QED BY <1>1, InitIInv, NextIInv, PTL DEF Spec
=============================================================================
