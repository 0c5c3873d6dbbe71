--------------------------- MODULE ConsistentHash ---------------------------
(***************************************************************************)
(* The consistent-hash picker (volo/src/loadbalance/consistent_hash.rs):   *)
(* the ring of virtual nodes built from an instance list, and the iterator *)
(* that walks it from the hash of a request.  Which hashes an instance     *)
(* gets is left open (MurmurHash of its address and a serial number), how  *)
(* many too (weight times virtual_factor): both are chosen in Init.        *)
(***************************************************************************)
EXTENDS Integers, Sequences, FiniteSets, SequencesExt

CONSTANTS
    Insts,      \* the instances of the discovery result
    Addrs,      \* addresses: two instances may have the same
    Hashes,     \* hash values
    MaxVirtual, \* bound on the virtual nodes of the ring
    Replicas    \* option.replicas

ASSUME ConsistentHashAssumption ==
    /\ Replicas \in Nat
    /\ IsFiniteSet(Insts)
    /\ IsFiniteSet(Hashes) /\ Hashes \subseteq Nat

VARIABLES
    realNodes, \* real_nodes
    ring,     \* virtual_nodes: a sequence of [inst, addr, hash]
    request,  \* request_hash
    last,     \* last_pick, 0 for None
    used,     \* the addresses already given
    limit,    \* the picker's replicas
    picks,    \* what next has returned so far, oldest first
    ended     \* "open": more calls of next may follow; "none", "panic": how they ended

shared == <<realNodes, ring, request>>
vars == <<shared, last, used, limit, picks, ended>>

VNodes == [inst : Insts, addr : Addrs, hash : Hashes]

TypeOK ==
    /\ realNodes \subseteq Insts
    /\ ring \in Seq(VNodes)
    /\ request \in Hashes
    /\ last \in 0 .. Len(ring)
    /\ used \subseteq Addrs
    /\ limit \in 0 .. Replicas
    /\ picks \in Seq(Addrs)
    /\ ended \in {"open", "none", "panic"}

Sorted(r) == \A i, j \in DOMAIN r : i < j => r[i].hash <= r[j].hash

\* build_weighted_instances: every virtual node of every instance, sorted by hash
\* alone (sort_unstable leaves equal ones in any order).
Rings(nodes) == {r \in SetToSeqs(nodes) : Sorted(r)}

Init ==
    /\ realNodes \in SUBSET Insts
    /\ \E addr \in [realNodes -> Addrs], keys \in SUBSET (realNodes \X Hashes) :
         /\ Cardinality(keys) <= MaxVirtual
         /\ ring \in Rings({[inst |-> k[1], addr |-> addr[k[1]], hash |-> k[2]] : k \in keys})
    /\ request \in Hashes
    /\ last = 0
    /\ used = {}
    /\ limit = Replicas
    /\ picks = <<>>
    /\ ended = "open"

----------------------------------------------------------------------------
(* InstancePicker::next *)

End(how) ==
    /\ ended' = how
    /\ UNCHANGED <<shared, last, used, picks>>

Give(i) ==
    /\ last' = i
    /\ used' = used \cup {ring[i].addr}
    /\ picks' = Append(picks, ring[i].addr)
    /\ UNCHANGED <<shared, ended>>

\* The contract of partition_point with |vn| vn.hash < h: n is the first index
\* that is not smaller, or one past the end.
IsPartitionPoint(r, h, n) ==
    /\ n \in 1 .. Len(r) + 1
    /\ \A i \in DOMAIN r : r[i].hash < h <=> i < n

Wrap(r, n) == IF n = Len(r) + 1 THEN 1 ELSE n

\* A plausible slip: the wrap-around is forgotten.
FirstIndexNoWrap(r, h) == {n \in 1 .. Len(r) + 1 : IsPartitionPoint(r, h, n)}

\* A plausible slip: the request is spread over the nodes by its remainder.
FirstIndexModulo(r, h) == {IF r = <<>> THEN 1 ELSE (h % Len(r)) + 1}

\* The index of the first virtual node for a request (1 where there is none).
FirstIndex(r, h) == {Wrap(r, n) : n \in {m \in 1 .. Len(r) + 1 : IsPartitionPoint(r, h, m)}}

\* No real nodes, or enough replicas given.
NextNone ==
    /\ ended = "open"
    /\ realNodes = {} \/ Cardinality(used) >= limit
    /\ limit' = limit
    /\ End("none")

\* The first call: replicas is cut to the number of real nodes, and the virtual
\* node is unwrapped: without virtual nodes there is none.
NextFirst ==
    /\ ended = "open"
    /\ realNodes # {} /\ Cardinality(used) < limit
    /\ last = 0
    /\ limit' = IF limit < Cardinality(realNodes) THEN limit ELSE Cardinality(realNodes)
    /\ \E i \in FirstIndex(ring, request) : IF i \in DOMAIN ring THEN Give(i) ELSE End("panic")

\* A plausible slip: every search starts at the beginning of the list.
AheadOfStart(i) == i

\* The distance of index i ahead of last_pick, 1 .. Len(ring).
Ahead(i) == IF i > last THEN i - last ELSE i - last + Len(ring)

\* The indices a later call may stop at: not yet used addresses.
Unused == {i \in DOMAIN ring : ring[i].addr \notin used}

\* A later call: the next virtual node along the ring with an unused address.
NextAnother ==
    /\ ended = "open"
    /\ realNodes # {} /\ Cardinality(used) < limit
    /\ last # 0
    /\ \E i \in Unused : (\A j \in Unused : Ahead(i) <= Ahead(j)) /\ Give(i)
    /\ limit' = limit

\* A later call that finds none on its way round.
NextExhausted ==
    /\ ended = "open"
    /\ realNodes # {} /\ Cardinality(used) < limit
    /\ last # 0
    /\ Unused = {}
    /\ limit' = limit
    /\ End("none")

Next == NextNone \/ NextFirst \/ NextAnother \/ NextExhausted

Spec == Init /\ [][Next]_vars

----------------------------------------------------------------------------
(* Properties *)

\* The virtual nodes a request with hash h meets, in order: those with its hash
\* or a greater one, then the others.
Walk(r, h) ==
    SelectSeq(r, LAMBDA v : v.hash >= h) \o SelectSeq(r, LAMBDA v : v.hash < h)

\* A sequence without the later occurrences of its elements.
Firsts(s) == FoldLeft(LAMBDA acc, a : IF Contains(acc, a) THEN acc ELSE Append(acc, a), <<>>, s)

AddrsOf(r) == [i \in DOMAIN r |-> r[i].addr]

\* The addresses next gives are the distinct ones of the ring in the order in
\* which the request's hash meets them, and all of them up to replicas.  A node with
\* the request's own hash is met first, where a comment in next says "greater than".
PicksFollowRing ==
    LET all == Firsts(AddrsOf(Walk(ring, request)))
    IN  /\ IsPrefix(picks, all)
        /\ ended = "none" /\ realNodes # {} =>
             Len(picks) = IF Len(all) < Replicas THEN Len(all) ELSE Replicas

\* next panics only where instances exist and none of them has a virtual node
\* (every weight 0, or virtual_factor 0).
PanicsOnlyWithoutVirtual == ended = "panic" => ring = <<>> /\ realNodes # {}

\* The iterator gives every address at most once and at most replicas of them,
\* and remembers exactly those it has given.
PicksDistinct ==
    /\ \A i, j \in DOMAIN picks : picks[i] = picks[j] => i = j
    /\ used = {picks[i] : i \in DOMAIN picks}
    /\ Len(picks) <= Replicas

NoCollision(r) == \A i, j \in DOMAIN r : r[i].hash = r[j].hash => i = j

Without(r, x) == SelectSeq(r, LAMBDA v : v.inst # x)

\* Consistent hashing: taking an instance out of the list moves only the requests
\* that were sent to it (read backwards: a new instance takes requests over, and
\* none moves between two others).  Equal hashes of two nodes are left out.
RemovalMovesOnlyItsOwn ==
    NoCollision(ring) =>
        \A x \in realNodes : \A i \in FirstIndex(ring, request) \cap DOMAIN ring :
            ring[i].inst # x =>
                \A j \in FirstIndex(Without(ring, x), request) : Without(ring, x)[j] = ring[i]
=============================================================================
