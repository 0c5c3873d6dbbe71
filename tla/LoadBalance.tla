----------------------------- MODULE LoadBalance -----------------------------
(***************************************************************************)
(* Client-side load balancing for one discovery key: the cache of weighted *)
(* instance lists (volo/src/loadbalance/random.rs) and its subscription to *)
(* discovery (volo/src/discovery/mod.rs), and the service that tries one   *)
(* instance after another (volo/src/loadbalance/layer.rs).  A list is a    *)
(* sequence of [addr, weight].  The cache and the subscription of the      *)
(* consistent-hash balancer are the same code with another list type,      *)
(* behind a check of the request's hash (MissHash); its picker is module   *)
(* ConsistentHash.                                                         *)
(***************************************************************************)
EXTENDS Integers, Sequences, FiniteSets, SequencesExt, FiniteSetsExt

CONSTANTS
    Calls,       \* concurrent calls of LoadBalanceService
    Lists,       \* the instance lists discovery may give
    Retry,       \* retry_count
    Capacity,    \* of the broadcast channel of discovery
    MaxChanges,  \* bound on the changes of the discovery result
    None         \* not a list

ASSUME LoadBalanceAssumption ==
    /\ Retry \in Nat /\ MaxChanges \in Nat /\ Capacity \in Nat \ {0}
    /\ \A l \in Lists : \A i \in DOMAIN l : l[i].weight \in Nat

VARIABLES
    current,  \* what discovery answers now
    changes,  \* how often that has changed
    events,   \* the Change events under way to the watch task, oldest first
    cache,    \* the entry of router, or None
    pc,       \* where each call is
    list,     \* the discovery result or the instances of the picker it holds
    tried     \* the offsets its picker gave: last_offset is the last of them,
              \* iter_times their number

vars == <<current, changes, events, cache, pc, list, tried>>

\* preset: the callee's address was set by the caller; unhashed: it was not, the
\* balancer is a consistent-hash one and the caller set no RequestHash.  ok, error:
\* that is what call returned; exhausted: it returned LoadBalanceError::Retry.
PCs == {"new", "preset", "unhashed", "discover", "insert", "next", "call", "ok", "error", "exhausted"}
Done == {"ok", "error", "exhausted"}

TypeOK ==
    /\ current \in Lists
    /\ changes \in 0 .. MaxChanges
    /\ events \in Seq(Lists) /\ Len(events) <= Capacity
    /\ cache \in Lists \cup {None}
    /\ pc \in [Calls -> PCs]
    /\ list \in [Calls -> Lists \cup {None}]
    /\ \A c \in Calls : tried[c] \in Seq(IF list[c] = None THEN {} ELSE DOMAIN list[c])

Init ==
    /\ current \in Lists
    /\ changes = 0
    /\ events = <<>>
    /\ cache = None
    /\ pc \in [Calls -> {"new", "preset", "unhashed"}]
    /\ list = [c \in Calls |-> None]
    /\ tried = [c \in Calls |-> <<>>]

----------------------------------------------------------------------------
(* Discovery and the watch task *)

Addrs(l) == {l[i].addr : i \in DOMAIN l}

\* The second component of diff_address: some address was added or removed.
Changed(prev, next) == SymDiff(Addrs(prev), Addrs(next)) # {}

\* The discovery result becomes l.  An event with the whole list is broadcast
\* when diff_address reports a difference; a full channel loses its oldest
\* event (the watch task then gets RecvError::Overflowed and goes on).
Change(l) ==
    /\ changes < MaxChanges
    /\ l # current
    /\ changes' = changes + 1
    /\ current' = l
    /\ events' = IF ~Changed(current, l) THEN events
                 ELSE IF Len(events) = Capacity THEN Append(Tail(events), l)
                 ELSE Append(events, l)
    /\ UNCHANGED <<cache, pc, list, tried>>

\* A plausible slip: the watch task ends at an overflow.
RebalanceStuck ==
    /\ Len(events) \in 1 .. Capacity - 1
    /\ events' = Tail(events)
    /\ cache' = IF cache = None THEN None ELSE Head(events)
    /\ UNCHANGED <<current, changes, pc, list, tried>>

\* channel.recv() gives an event and rebalance replaces an occupied entry.
Rebalance ==
    /\ events # <<>>
    /\ events' = Tail(events)
    /\ cache' = IF cache = None THEN None ELSE Head(events)
    /\ UNCHANGED <<current, changes, pc, list, tried>>

----------------------------------------------------------------------------
(* get_picker *)

Go(c, to) == pc' = [pc EXCEPT ![c] = to]

\* get_picker of the consistent-hash balancer finds no hash, in the metainfo or for
\* want of one: MissRequestHash is returned before router is looked at.
MissHash(c) ==
    /\ pc[c] = "unhashed"
    /\ Go(c, "error")
    /\ UNCHANGED <<current, changes, events, cache, list, tried>>

\* router.get finds an entry: the picker shares it.
GetCached(c) ==
    /\ pc[c] = "new"
    /\ cache # None
    /\ list' = [list EXCEPT ![c] = cache]
    /\ Go(c, "next")
    /\ UNCHANGED <<current, changes, events, cache, tried>>

\* router.get finds none: discover is called and awaited.
GetMissing(c) ==
    /\ pc[c] = "new"
    /\ cache = None
    /\ Go(c, "discover")
    /\ UNCHANGED <<current, changes, events, cache, list, tried>>

\* The discovery's answer is made; the task has not seen it yet.
Discovered(c) ==
    /\ pc[c] = "discover"
    /\ list' = [list EXCEPT ![c] = current]
    /\ Go(c, "insert")
    /\ UNCHANGED <<current, changes, events, cache, tried>>

\* The discovery fails: get_picker and call return its error.
DiscoverFails(c) ==
    /\ pc[c] = "discover"
    /\ Go(c, "error")
    /\ UNCHANGED <<current, changes, events, cache, list, tried>>

\* The task resumes with the answer and writes it over whatever router holds.
Insert(c) ==
    /\ pc[c] = "insert"
    /\ cache' = list[c]
    /\ Go(c, "next")
    /\ UNCHANGED <<current, changes, events, list, tried>>

----------------------------------------------------------------------------
(* InstancePicker::next and LoadBalanceService::call *)

\* prefix_sum_of_weights at i, and sum_of_weights.
PrefixSum(l, i) == MapThenSumSet(LAMBDA j : l[j].weight, 1 .. i)
SumOfWeights(l) == PrefixSum(l, Len(l))

\* A plausible slip: the random number is not moved to 1 .. sum.
SearchFromZero(l, w) == {Cardinality({i \in DOMAIN l : PrefixSum(l, i) < w - 1}) + 1}

\* The indices binary_search may give for w: any that matches, or else the one
\* where w would be inserted.
Search(l, w) ==
    LET match == {i \in DOMAIN l : PrefixSum(l, i) = w}
    IN  IF match # {} THEN match ELSE {Cardinality({i \in DOMAIN l : PrefixSum(l, i) < w}) + 1}

\* The offsets pick_one may give, one for each value of the random number.
PickOne(l) == UNION {Search(l, r + 1) : r \in 0 .. SumOfWeights(l) - 1}

\* A plausible slip: the bound is off by one.
NextOffsetsLonger(l, t) ==
    IF t = <<>> THEN PickOne(l)
    ELSE IF Len(t) > Len(l) THEN {} ELSE {(Last(t) % Len(l)) + 1}

\* The offsets next may give, none when the iterator ends.
NextOffsets(l, t) ==
    IF t = <<>> THEN PickOne(l)
    ELSE IF Len(t) + 1 > Len(l) THEN {}
    ELSE {(Last(t) % Len(l)) + 1}

\* A plausible slip: the range is closed.
AttemptsOneMore == Retry + 2

\* The length of 0..retry + 1.
Attempts == Retry + 1

\* The loop over picker.zip(0..retry + 1) has another instance: call it.
Try(c) ==
    /\ pc[c] = "next"
    /\ Len(tried[c]) < Attempts
    /\ \E o \in NextOffsets(list[c], tried[c]) : tried' = [tried EXCEPT ![c] = Append(@, o)]
    /\ Go(c, "call")
    /\ UNCHANGED <<current, changes, events, cache, list>>

\* The loop ends: Err(LoadBalanceError::Retry).
GiveUp(c) ==
    /\ pc[c] = "next"
    /\ Len(tried[c]) = Attempts \/ NextOffsets(list[c], tried[c]) = {}
    /\ Go(c, "exhausted")
    /\ UNCHANGED <<current, changes, events, cache, list, tried>>

\* The inner service answers: a retryable error leads to the next instance, any
\* other answer is returned.
Answer(c) ==
    /\ pc[c] = "call"
    /\ \E to \in {"ok", "error", "next"} : Go(c, to)
    /\ UNCHANGED <<current, changes, events, cache, list, tried>>

\* The address was set by the caller: one call, its answer returned as it is.
Direct(c) ==
    /\ pc[c] = "preset"
    /\ \E to \in {"ok", "error"} : Go(c, to)
    /\ UNCHANGED <<current, changes, events, cache, list, tried>>

CallStep(c) ==
    \/ MissHash(c) \/ GetCached(c) \/ GetMissing(c) \/ Discovered(c) \/ DiscoverFails(c) \/ Insert(c)
    \/ Try(c) \/ GiveUp(c) \/ Answer(c) \/ Direct(c)

Next ==
    \/ \E l \in Lists : Change(l)
    \/ Rebalance
    \/ \E c \in Calls : CallStep(c)

Spec == Init /\ [][Next]_vars

\* The watch task and the tasks of the calls are polled when they can go on;
\* discovery and the inner service answer (an assumption on them).
FairSpec == Spec /\ WF_vars(Rebalance) /\ \A c \in Calls : WF_vars(CallStep(c))

----------------------------------------------------------------------------
(* Properties *)

\* A call only calls entries of its list, and never one of them twice, however
\* often the attempts fail with a retryable error.
NoInstanceTwice ==
    \A c \in Calls : \A i, j \in DOMAIN tried[c] :
        tried[c][i] \in DOMAIN list[c] /\ (tried[c][i] = tried[c][j] => i = j)

\* LoadBalanceError::Retry is returned after exactly as many instances as there are,
\* or as retry_count allows beyond the first, have been called, wherever in the list
\* the random start was; a list without weight has none.
GivesUpAfterAll ==
    \A c \in Calls : pc[c] = "exhausted" =>
        Len(tried[c]) = IF SumOfWeights(list[c]) = 0 THEN 0
                        ELSE Min({Retry + 1, Len(list[c])})

\* Where every weight is positive, pick_one gives an instance for exactly as many
\* values of the random number as its weight: the first choice is proportional.
FirstPickProportional ==
    (\A i \in DOMAIN current : current[i].weight > 0) =>
        \A i \in DOMAIN current :
            Cardinality({r \in 0 .. SumOfWeights(current) - 1 : i \in Search(current, r + 1)})
              = current[i].weight

\* What the cache will be when the watch task has caught up.
Upcoming == IF events = <<>> THEN cache ELSE Last(events)

\* The cached addresses are, or are about to become, those of discovery.
InStep == cache # None /\ Addrs(Upcoming) = Addrs(current)

\* A cached list that is in step with discovery becomes the current one, through
\* changes, overflows of the channel and rebalances, unless an answer made before a
\* change is about to be inserted after it: only such an insert puts the cache behind
\* (and leaves it there until the next change).
CacheCatchesUp ==
    InStep ~> \/ cache # None /\ Addrs(cache) = Addrs(current)
              \/ \E c \in Calls : pc[c] = "insert" /\ Addrs(list[c]) # Addrs(current)

=============================================================================
