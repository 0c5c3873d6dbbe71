------------------------------ MODULE ThriftPool ------------------------------
(***************************************************************************)
(* The client connection pool of volo-thrift                               *)
(* (volo-thrift/src/transport/pool/mod.rs).                                *)
(*                                                                         *)
(* A pool serves one kind of transport for life.  ~shared is the ping-pong *)
(* transport (Reservation::Unique, Ver::PingPong): a connection has one    *)
(* user at a time.  shared is the multiplex transport                      *)
(* (Reservation::Shared, Ver::Multiplex): every user has a clone.          *)
(*                                                                         *)
(* Every caller runs Pool::get over and over.  get takes the pool's mutex  *)
(* in two separate sections (Lookup, then Reserve or Register), awaits in  *)
(* between, and ends in a select of its waiter and of a lazily started     *)
(* connect.  One action below is one critical section, or one poll that    *)
(* changes state.                                                          *)
(***************************************************************************)
EXTENDS Integers, Sequences

CONSTANTS
  Callers,   \* tasks that call Pool::get
  Keys,      \* addresses
  Conns,     \* identities of connections
  MaxIdle,   \* Config::max_idle_per_key
  Timeout,   \* Config::timeout
  MaxNow,    \* bound: last instant of the clock
  MaxGets    \* bound: calls of Pool::get in a behaviour

ASSUME PoolAssumption ==
  /\ "none" \notin Conns
  /\ MaxIdle \in Nat
  /\ Timeout \in Nat
  /\ MaxNow \in Nat
  /\ MaxGets \in Nat

VARIABLES
  shared,      \* TRUE: multiplex transport, FALSE: ping-pong transport
  now,         \* Instant::now()
  idleKeys,    \* keys that have an idle list, possibly an empty one
  idle,        \* Inner::idle, oldest entry first
  waiters,     \* Inner::waiters, the senders of all keys
  counter,     \* WaiterList::counter of the key's current list
  connecting,  \* Inner::connecting
  broken,      \* connections for which reusable() is false
  peer,        \* key a connection was made for
  pc,          \* where a caller is in get
  key,         \* key of the caller's current get
  conn,        \* entry or connection in the caller's hands
  token,       \* waiter_token of the caller's Checkout
  rx,          \* connection sent to the caller's waiter, not yet taken
  fut,         \* state of the caller's lazy connector
  gets,        \* number of calls of get (for the bound only)
  bgDial,      \* spawned connectors of a key that are still connecting
  bgStuck,     \* spawned connectors of a key that are future::pending()
  bgConn       \* connections owned by spawned connectors that finished

poolVars   == <<idleKeys, idle, waiters, counter, connecting>>
callerVars == <<pc, key, conn, token, rx, fut, gets>>
bgVars     == <<bgDial, bgStuck, bgConn>>
envVars    == <<shared, now, broken, peer>>
vars       == <<poolVars, callerVars, bgVars, envVars>>

-----------------------------------------------------------------------------
(* State space. *)

Idle   == [conn : Conns, at : Nat]
Waiter == [key : Keys, token : Nat, caller : Callers]

(* out: not in get; lookup: about to take the first lock; check: awaiting  *)
(* reusable(); reserve, register: about to take the second lock; select:   *)
(* awaiting waiter or connector; dropCheckout: select returned through the *)
(* connector, the Checkout is still to be dropped; dropConnecting: the     *)
(* Connecting guard is still to be dropped; lent: get returned Ok.         *)
PCs == {"out", "lookup", "check", "reserve", "register", "select",
        "dropCheckout", "dropConnecting", "lent"}

(* none: no connector; init: Lazy not polled yet; dial: mt.call in flight; *)
(* stuck: future::pending(), another task is connecting.                   *)
Futs == {"none", "init", "dial", "stuck"}

TypeOK ==
  /\ shared \in BOOLEAN
  /\ now \in Nat
  /\ idleKeys \subseteq Keys
  /\ idle \in [Keys -> Seq(Idle)]
  /\ waiters \subseteq Waiter
  /\ counter \in [Keys -> Nat]
  /\ connecting \subseteq Keys
  /\ broken \subseteq Conns
  /\ peer \in [Conns -> Keys]
  /\ pc \in [Callers -> PCs]
  /\ key \in [Callers -> Keys]
  /\ conn \in [Callers -> Conns \cup {"none"}]
  /\ token \in [Callers -> Nat]
  /\ rx \in [Callers -> Conns \cup {"none"}]
  /\ fut \in [Callers -> Futs]
  /\ gets \in Nat
  /\ bgDial \in [Keys -> Nat]
  /\ bgStuck \in [Keys -> Nat]
  /\ bgConn \subseteq Conns

Init ==
  /\ shared \in BOOLEAN
  /\ now = 0
  /\ idleKeys = {}
  /\ idle = [k \in Keys |-> <<>>]
  /\ waiters = {}
  /\ counter = [k \in Keys |-> 0]
  /\ connecting = {}
  /\ broken = {}
  /\ peer \in [Conns -> Keys]
  /\ \A c, d \in Conns : peer[c] = peer[d]
  /\ pc = [c \in Callers |-> "out"]
  /\ key \in [Callers -> Keys]
  /\ \A c, d \in Callers : key[c] = key[d]
  /\ conn = [c \in Callers |-> "none"]
  /\ token = [c \in Callers |-> 0]
  /\ rx = [c \in Callers |-> "none"]
  /\ fut = [c \in Callers |-> "none"]
  /\ gets = 0
  /\ bgDial = [k \in Keys |-> 0]
  /\ bgStuck = [k \in Keys |-> 0]
  /\ bgConn = {}

-----------------------------------------------------------------------------
(* Helpers. *)

(* Expiration::expires and the test of clear_expired. *)
Expired(e) == now - e.at > Timeout

(* The n first entries are what `while let Some(entry) = list.pop_front()` *)
(* (and the fast path's loop) drops before it meets a fresh entry.         *)
ExpiredPrefix(list, n) ==
  /\ \A i \in 1..n : Expired(list[i])
  /\ n < Len(list) => ~Expired(list[n + 1])

(* A sender whose receiver still exists (!Sender::is_closed()): the get    *)
(* that registered it has not dropped its Checkout.                        *)
Open(w) ==
  /\ pc[w.caller] \in {"select", "dropCheckout"}
  /\ key[w.caller] = w.key
  /\ token[w.caller] = w.token

(* Mutant: the waiters of every key are served. *)
AnyKeyWaiters(k) == {w \in waiters : Open(w)}

OpenWaiters(k) == {w \in waiters : w.key = k /\ Open(w)}

(* The caller's receiver will only ever yield RecvError. *)
SenderDropped(c) ==
  /\ rx[c] = "none"
  /\ \A w \in waiters : ~(w.caller = c /\ Open(w))

(* Connections somebody still has a handle on. *)
Held ==
  {conn[c] : c \in Callers} \cup {rx[c] : c \in Callers} \cup bgConn
    \cup UNION {{idle[k][i].conn : i \in 1..Len(idle[k])} : k \in Keys}

-----------------------------------------------------------------------------
(* Mutant: a connection given to a waiter is stored in the idle list too. *)
PutTwice(k, cn) ==
  /\ \/ \E w \in OpenWaiters(k) :
          /\ waiters' = waiters \ {w}
          /\ rx' = [rx EXCEPT ![w.caller] = cn]
     \/ OpenWaiters(k) = {} /\ UNCHANGED <<waiters, rx>>
  /\ idleKeys' = idleKeys \cup {k}
  /\ idle' = [idle EXCEPT ![k] = IF Len(@) < MaxIdle
                                   THEN Append(@, [conn |-> cn, at |-> now]) ELSE @]
  /\ UNCHANGED counter

(* Mutant: the connection is stored at the front of the idle list. *)
PutFront(k, cn) ==
  /\ idleKeys' = idleKeys \cup {k}
  /\ idle' = [idle EXCEPT ![k] = IF Len(@) < MaxIdle
                                   THEN <<[conn |-> cn, at |-> now]>> \o @ ELSE @]
  /\ UNCHANGED <<waiters, counter, rx>>

(* Inner::put for a ping-pong connection: the first open waiter takes it,  *)
(* closed ones in front of it are popped; without one it goes to the idle  *)
(* list, unless that is full.  An emptied waiter list is removed, which    *)
(* forgets its counter.                                                    *)
PutUnique(k, cn) ==
  /\ \/ \E w \in OpenWaiters(k) :
          /\ \A v \in OpenWaiters(k) : w.token <= v.token
          /\ waiters' = {v \in waiters : v.key = k => v.token > w.token}
          /\ rx' = [rx EXCEPT ![w.caller] = cn]
          /\ UNCHANGED <<idleKeys, idle>>
     \/ /\ OpenWaiters(k) = {}
        /\ waiters' = {v \in waiters : v.key # k}
        /\ idleKeys' = idleKeys \cup {k}
        /\ idle' = [idle EXCEPT ![k] =
                      IF Len(@) < MaxIdle THEN Append(@, [conn |-> cn, at |-> now])
                                          ELSE @]
        /\ UNCHANGED rx
  /\ counter' = [counter EXCEPT ![k] =
                   IF \E v \in waiters' : v.key = k THEN @ ELSE 0]

(* Inner::put for a multiplex connection: every open waiter gets a clone,  *)
(* and the idle list one more unless the key already has a list.           *)
PutShared(k, cn) ==
  /\ rx' = [c \in Callers |->
              IF \E w \in OpenWaiters(k) : w.caller = c THEN cn ELSE rx[c]]
  /\ waiters' = {v \in waiters : v.key # k}
  /\ counter' = [counter EXCEPT ![k] = 0]
  /\ IF k \in idleKeys
       THEN UNCHANGED <<idleKeys, idle>>
       ELSE /\ idleKeys' = idleKeys \cup {k}
            /\ idle' = [idle EXCEPT ![k] =
                          IF Len(@) < MaxIdle
                            THEN Append(@, [conn |-> cn, at |-> now]) ELSE @]

(* Mutant: the waiters are not cancelled. *)
ConnectedKeepsWaiters(k) ==
  /\ connecting' = connecting \ {k}
  /\ UNCHANGED <<waiters, counter>>

(* Inner::connected: the connecting mark and all the key's waiters go. *)
Connected(k) ==
  /\ connecting' = connecting \ {k}
  /\ waiters' = {v \in waiters : v.key # k}
  /\ counter' = [counter EXCEPT ![k] = 0]

(* Does the caller's connector own a Connecting guard with a pool in it? *)
Guarded(c) == shared /\ fut[c] = "dial"

-----------------------------------------------------------------------------
(* Pool::get, first critical section, entered by a new call or after a     *)
(* connection that was not reusable.                                       *)
Enter(c, k) ==
  /\ \/ /\ pc[c] = "out"
        /\ gets < MaxGets
        /\ gets' = gets + 1
     \/ /\ pc[c] = "lookup"
        /\ key[c] = k
        /\ UNCHANGED gets
  /\ key' = [key EXCEPT ![c] = k]

(* No idle list, or nothing left in it: an emptied list stays in the map. *)
LookupMiss(c, k) ==
  /\ Enter(c, k)
  /\ k \in idleKeys => ExpiredPrefix(idle[k], Len(idle[k]))
  /\ idle' = [idle EXCEPT ![k] = <<>>]
  /\ pc' = [pc EXCEPT ![c] = "register"]
  /\ UNCHANGED <<conn, idleKeys, waiters, counter, connecting, token, rx, fut,
                 bgVars, envVars>>

(* Fast path: a shared connection is cloned in place and its age reset. *)
LookupFast(c, k) ==
  /\ Enter(c, k)
  /\ shared
  /\ k \in idleKeys
  /\ \E n \in 0..(Len(idle[k]) - 1) :
       /\ ExpiredPrefix(idle[k], n)
       /\ idle[k][n + 1].conn \notin broken
       /\ idle' = [idle EXCEPT ![k] =
                     [SubSeq(@, n + 1, Len(@)) EXCEPT
                        ![1] = [conn |-> idle[k][n + 1].conn, at |-> now]]]
       /\ conn' = [conn EXCEPT ![c] = idle[k][n + 1].conn]
  /\ pc' = [pc EXCEPT ![c] = "lent"]
  /\ UNCHANGED <<idleKeys, waiters, counter, connecting, token, rx, fut,
                 bgVars, envVars>>

(* Slow path: the oldest fresh entry is popped, to be checked unlocked. *)
LookupPop(c, k) ==
  /\ Enter(c, k)
  /\ k \in idleKeys
  /\ \E n \in 0..(Len(idle[k]) - 1) :
       /\ ExpiredPrefix(idle[k], n)
       /\ shared => idle[k][n + 1].conn \in broken
       /\ idle' = [idle EXCEPT ![k] = SubSeq(@, n + 2, Len(@))]
       /\ conn' = [conn EXCEPT ![c] = idle[k][n + 1].conn]
  /\ pc' = [pc EXCEPT ![c] = "check"]
  /\ UNCHANGED <<idleKeys, waiters, counter, connecting, token, rx, fut,
                 bgVars, envVars>>

(* entry.inner.reusable().await: a dead connection is dropped, try again. *)
CheckReusable(c) ==
  /\ pc[c] = "check"
  /\ IF conn[c] \in broken
       THEN /\ pc' = [pc EXCEPT ![c] = "lookup"]
            /\ conn' = [conn EXCEPT ![c] = "none"]
       ELSE /\ pc' = [pc EXCEPT ![c] = "reserve"]
            /\ UNCHANGED conn
  /\ UNCHANGED <<poolVars, key, token, rx, fut, gets, bgVars, envVars>>

(* Second critical section with an entry: a shared one is put back only if *)
(* the key still has a list.                                               *)
Reserve(c) ==
  /\ pc[c] = "reserve"
  /\ idle' = IF shared /\ key[c] \in idleKeys
               THEN [idle EXCEPT ![key[c]] = Append(@, [conn |-> conn[c], at |-> now])]
               ELSE idle
  /\ pc' = [pc EXCEPT ![c] = "lent"]
  /\ UNCHANGED <<idleKeys, waiters, counter, connecting, key, conn, token, rx,
                 fut, gets, bgVars, envVars>>

(* Second critical section without an entry: WaiterList::insert. *)
Register(c) ==
  /\ pc[c] = "register"
  /\ LET k == key[c] IN
       /\ waiters' = waiters \cup {[key |-> k, token |-> counter[k], caller |-> c]}
       /\ token' = [token EXCEPT ![c] = counter[k]]
       /\ counter' = [counter EXCEPT ![k] = @ + 1]
  /\ pc' = [pc EXCEPT ![c] = "select"]
  /\ fut' = [fut EXCEPT ![c] = "init"]
  /\ UNCHANGED <<idleKeys, idle, connecting, key, conn, rx, gets, bgVars, envVars>>

(* Mutant: the ping-pong transport waits for other connects as well. *)
StartOnlyOne(c) ==
  /\ pc[c] = "select"
  /\ fut[c] = "init"
  /\ \/ /\ key[c] \in connecting
        /\ fut' = [fut EXCEPT ![c] = "stuck"]
        /\ UNCHANGED connecting
     \/ /\ key[c] \notin connecting
        /\ fut' = [fut EXCEPT ![c] = "dial"]
        /\ connecting' = connecting \cup {key[c]}
  /\ UNCHANGED <<idleKeys, idle, waiters, counter, pc, key, conn, token, rx,
                 gets, bgVars, envVars>>

(* First poll of the connector: Pool::connecting.  The waiter was polled   *)
(* just before, but may have been served since.                            *)
StartConnector(c) ==
  /\ pc[c] = "select"
  /\ fut[c] = "init"
  /\ \/ /\ shared /\ key[c] \in connecting
        /\ fut' = [fut EXCEPT ![c] = "stuck"]
        /\ UNCHANGED connecting
     \/ /\ shared /\ key[c] \notin connecting
        /\ fut' = [fut EXCEPT ![c] = "dial"]
        /\ connecting' = connecting \cup {key[c]}
     \/ /\ ~shared
        /\ fut' = [fut EXCEPT ![c] = "dial"]
        /\ UNCHANGED connecting
  /\ UNCHANGED <<idleKeys, idle, waiters, counter, pc, key, conn, token, rx,
                 gets, bgVars, envVars>>

(* Either::Left(Ok): the waiter was served; a connector that was started   *)
(* is spawned, the Checkout no longer needs cleaning.                      *)
WaiterServed(c) ==
  /\ pc[c] = "select"
  /\ rx[c] # "none"
  /\ conn' = [conn EXCEPT ![c] = rx[c]]
  /\ rx' = [rx EXCEPT ![c] = "none"]
  /\ pc' = [pc EXCEPT ![c] = "lent"]
  /\ bgDial' = [bgDial EXCEPT ![key[c]] = IF fut[c] = "dial" THEN @ + 1 ELSE @]
  /\ bgStuck' = [bgStuck EXCEPT ![key[c]] = IF fut[c] = "stuck" THEN @ + 1 ELSE @]
  /\ fut' = [fut EXCEPT ![c] = "none"]
  /\ UNCHANGED <<poolVars, key, token, gets, bgConn, envVars>>

(* Either::Left(Err): the sender is gone.  get fails; dropping a guarded   *)
(* connector is a critical section of its own.                             *)
WaiterFailed(c) ==
  /\ pc[c] = "select"
  /\ SenderDropped(c)
  /\ pc' = [pc EXCEPT ![c] = IF Guarded(c) THEN "dropConnecting" ELSE "out"]
  /\ fut' = [fut EXCEPT ![c] = "none"]
  /\ UNCHANGED <<poolVars, key, conn, token, rx, gets, bgVars, envVars>>

(* mt.call succeeded: Pool::pooled, then Either::Right(Ok). *)
DialOk(c, cn) ==
  /\ pc[c] = "select"
  /\ fut[c] = "dial"
  /\ cn \in Conns \ Held
  /\ peer' = [peer EXCEPT ![cn] = key[c]]
  /\ broken' = broken \ {cn}
  /\ IF shared THEN PutShared(key[c], cn) /\ connecting' = connecting \ {key[c]}
               ELSE UNCHANGED <<poolVars, rx>>
  /\ conn' = [conn EXCEPT ![c] = cn]
  /\ fut' = [fut EXCEPT ![c] = "none"]
  /\ pc' = [pc EXCEPT ![c] = "dropCheckout"]
  /\ UNCHANGED <<shared, now, key, token, gets, bgVars>>

(* Mutant: the guard is forgotten when the connect fails. *)
DialErrLeaksGuard(c) ==
  /\ pc[c] = "select"
  /\ fut[c] = "dial"
  /\ fut' = [fut EXCEPT ![c] = "none"]
  /\ pc' = [pc EXCEPT ![c] = "dropCheckout"]
  /\ UNCHANGED <<poolVars, key, conn, token, rx, gets, bgVars, envVars>>

(* mt.call failed: the guard is dropped with the connector's frame. *)
DialErr(c) ==
  /\ pc[c] = "select"
  /\ fut[c] = "dial"
  /\ IF shared THEN Connected(key[c]) ELSE UNCHANGED <<connecting, waiters, counter>>
  /\ fut' = [fut EXCEPT ![c] = "none"]
  /\ pc' = [pc EXCEPT ![c] = "dropCheckout"]
  /\ UNCHANGED <<idleKeys, idle, key, conn, token, rx, gets, bgVars, envVars>>

(* Mutant: the sender stays in the list. *)
KeepToken(c) ==
  /\ rx' = [rx EXCEPT ![c] = "none"]
  /\ UNCHANGED waiters

(* Checkout::drop with clean = true: whatever sender the key's list has    *)
(* under the token is removed; a connection already received is dropped.   *)
RemoveToken(c) ==
  /\ waiters' = {w \in waiters : ~(w.key = key[c] /\ w.token = token[c])}
  /\ rx' = [rx EXCEPT ![c] = "none"]

DropCheckout(c) ==
  /\ pc[c] = "dropCheckout"
  /\ RemoveToken(c)
  /\ pc' = [pc EXCEPT ![c] = IF conn[c] = "none" THEN "out" ELSE "lent"]
  /\ UNCHANGED <<idleKeys, idle, counter, connecting, key, conn, token, fut, gets,
                 bgVars, envVars>>

(* Connecting::drop of a connector that was dropped before it finished. *)
DropConnecting(c) ==
  /\ pc[c] = "dropConnecting"
  /\ Connected(key[c])
  /\ pc' = [pc EXCEPT ![c] = "out"]
  /\ UNCHANGED <<idleKeys, idle, key, conn, token, rx, fut, gets, bgVars, envVars>>

(* The future of get is dropped (a timeout, a cancelled task) at one of    *)
(* its awaits.  Dropping the select drops the Checkout, then the connector.*)
CancelCheck(c) ==
  /\ pc[c] = "check"
  /\ pc' = [pc EXCEPT ![c] = "out"]
  /\ conn' = [conn EXCEPT ![c] = "none"]
  /\ UNCHANGED <<poolVars, key, token, rx, fut, gets, bgVars, envVars>>

CancelSelect(c) ==
  /\ pc[c] = "select"
  /\ RemoveToken(c)
  /\ pc' = [pc EXCEPT ![c] = IF Guarded(c) THEN "dropConnecting" ELSE "out"]
  /\ fut' = [fut EXCEPT ![c] = "none"]
  /\ UNCHANGED <<idleKeys, idle, counter, connecting, key, conn, token, gets,
                 bgVars, envVars>>

-----------------------------------------------------------------------------
(* Pooled::reuse: a reusable ping-pong connection goes back to the pool.   *)
(* A shared one has no pool reference and is just dropped.                 *)
Reuse(c) ==
  /\ pc[c] = "lent"
  /\ IF ~shared /\ conn[c] \notin broken
       THEN PutUnique(key[c], conn[c])
       ELSE UNCHANGED <<idleKeys, idle, waiters, counter, rx>>
  /\ pc' = [pc EXCEPT ![c] = "out"]
  /\ conn' = [conn EXCEPT ![c] = "none"]
  /\ UNCHANGED <<connecting, key, token, fut, gets, bgVars, envVars>>

(* The user drops the Pooled without reuse(): the call failed. *)
Discard(c) ==
  /\ pc[c] = "lent"
  /\ pc' = [pc EXCEPT ![c] = "out"]
  /\ conn' = [conn EXCEPT ![c] = "none"]
  /\ UNCHANGED <<poolVars, key, token, rx, fut, gets, bgVars, envVars>>

(* A spawned connector connects: Pool::pooled, as in DialOk, but its       *)
(* output, a Pooled, is the result of a task nobody awaits.                *)
BgDialOk(k, cn) ==
  /\ bgDial[k] > 0
  /\ cn \in Conns \ Held
  /\ bgDial' = [bgDial EXCEPT ![k] = @ - 1]
  /\ bgConn' = bgConn \cup {cn}
  /\ peer' = [peer EXCEPT ![cn] = k]
  /\ broken' = broken \ {cn}
  /\ IF shared THEN PutShared(k, cn) /\ connecting' = connecting \ {k}
               ELSE UNCHANGED <<poolVars, rx>>
  /\ UNCHANGED <<pc, key, conn, token, fut, gets, shared, now, bgStuck>>

BgDialErr(k) ==
  /\ bgDial[k] > 0
  /\ bgDial' = [bgDial EXCEPT ![k] = @ - 1]
  /\ IF shared THEN Connected(k) ELSE UNCHANGED <<connecting, waiters, counter>>
  /\ UNCHANGED <<idleKeys, idle, callerVars, envVars, bgStuck, bgConn>>

(* The spawned task's output is dropped: Pooled has no Drop, nothing is    *)
(* put back.                                                               *)
BgDrop(cn) ==
  /\ cn \in bgConn
  /\ bgConn' = bgConn \ {cn}
  /\ UNCHANGED <<poolVars, callerVars, envVars, bgDial, bgStuck>>

(* f lists, in increasing order, the positions retain() keeps. *)
Retained(f, list) ==
  /\ \A i, j \in 1..Len(f) : i < j => f[i] < f[j]
  /\ {f[i] : i \in 1..Len(f)} = {i \in 1..Len(list) : ~Expired(list[i])}

(* IdleTask: Inner::clear_expired on every tick of its interval.  Entries  *)
(* keep their order, an emptied list is removed.                           *)
ClearExpired ==
  /\ \E k \in idleKeys : idle[k] = <<>> \/ \E i \in 1..Len(idle[k]) : Expired(idle[k][i])
  /\ \E kept \in [Keys -> UNION {[1..n -> 1..MaxIdle] : n \in 0..MaxIdle}] :
       /\ \A k \in Keys : Retained(kept[k], idle[k])
       /\ idle' = [k \in Keys |-> [i \in 1..Len(kept[k]) |-> idle[k][kept[k][i]]]]
       /\ idleKeys' = {k \in idleKeys : Len(kept[k]) > 0}
  /\ UNCHANGED <<waiters, counter, connecting, callerVars, bgVars, envVars>>

(* The peer closes a connection somebody holds. *)
Break(cn) ==
  /\ cn \in Held \cap Conns
  /\ cn \notin broken
  /\ broken' = broken \cup {cn}
  /\ UNCHANGED <<poolVars, callerVars, bgVars, shared, now, peer>>

Tick ==
  /\ now < MaxNow
  /\ now' = now + 1
  /\ UNCHANGED <<poolVars, callerVars, bgVars, shared, broken, peer>>

-----------------------------------------------------------------------------
(* Steps the runtime owes a caller inside get: its task is polled whenever *)
(* it is woken, and mt.call ends because connecting has a timeout.         *)
GetStep(c) ==
  \/ pc[c] = "lookup" /\ \/ LookupMiss(c, key[c])
                         \/ LookupFast(c, key[c])
                         \/ LookupPop(c, key[c])
  \/ CheckReusable(c)
  \/ Reserve(c)
  \/ Register(c)
  \/ StartConnector(c)
  \/ WaiterServed(c)
  \/ WaiterFailed(c)
  \/ \E cn \in Conns : DialOk(c, cn)
  \/ DialErr(c)
  \/ DropCheckout(c)
  \/ DropConnecting(c)

(* Steps of the user of the pool. *)
UserStep(c) ==
  \/ \E k \in Keys : pc[c] = "out" /\ \/ LookupMiss(c, k)
                                      \/ LookupFast(c, k)
                                      \/ LookupPop(c, k)
  \/ CancelCheck(c)
  \/ CancelSelect(c)
  \/ Reuse(c)
  \/ Discard(c)

BgDialDone(k) == (\E cn \in Conns : BgDialOk(k, cn)) \/ BgDialErr(k)

EnvStep ==
  \/ \E k \in Keys : BgDialDone(k)
  \/ \E cn \in Conns : BgDrop(cn)
  \/ ClearExpired
  \/ \E cn \in Conns : Break(cn)
  \/ Tick

Next == (\E c \in Callers : GetStep(c) \/ UserStep(c)) \/ EnvStep

Spec == Init /\ [][Next]_vars

(* Every task, a caller's or a spawned one, is polled when it can progress. *)
FairSpec ==
  /\ Spec
  /\ \A c \in Callers : WF_vars(GetStep(c))
  /\ \A k \in Keys : WF_vars(BgDialDone(k))

-----------------------------------------------------------------------------
(* Properties. *)

(* The owners of a connection: idle slots, mailboxes of waiters, callers,  *)
(* finished connectors.                                                    *)
IdleSlots(cn) == {s \in Keys \X (1..MaxIdle) : s[2] <= Len(idle[s[1]])
                                               /\ idle[s[1]][s[2]].conn = cn}
Mailboxes(cn) == {c \in Callers : rx[c] = cn}
Users(cn)     == {c \in Callers : conn[c] = cn}

(* A ping-pong connection has at most one owner at any time, whatever the  *)
(* interleaving of put, waiters, connectors and cancellation: two RPCs     *)
(* never interleave on one ping-pong stream.                               *)
SingleOwner ==
  ~shared => \A cn \in Conns :
    /\ \A x, y \in IdleSlots(cn) : x = y
    /\ \A c, d \in Mailboxes(cn) : c = d
    /\ \A c, d \in Users(cn) : c = d
    /\ IdleSlots(cn) # {} => Mailboxes(cn) = {} /\ Users(cn) = {}
    /\ Mailboxes(cn) # {} => Users(cn) = {}
    /\ cn \in bgConn => /\ IdleSlots(cn) = {}
                        /\ Mailboxes(cn) = {}
                        /\ Users(cn) = {}

(* A connection is stored under, sent to and lent for the address it was   *)
(* made for, also when several addresses share waiters' tokens.            *)
RightPeer ==
  /\ \A k \in Keys : \A i \in 1..Len(idle[k]) : peer[idle[k][i].conn] = k
  /\ \A c \in Callers :
       /\ conn[c] # "none" => peer[conn[c]] = key[c]
       /\ rx[c] # "none" => peer[rx[c]] = key[c]

(* The idle list is sorted by idle_at: what the TODO of the slow path asks *)
(* ("anything that came earlier in the list would have to be expired       *)
(* also... Right?"), and what lets get stop at the first fresh entry.      *)
IdleOldestFirst ==
  \A k \in Keys : \A i, j \in 1..Len(idle[k]) :
    i <= j => idle[k][i].at <= idle[k][j].at

(* The callers that own the guard of k: they are connecting, or about to   *)
(* drop a connector that was.                                              *)
GuardOwners(k) ==
  {c \in Callers : key[c] = k /\ (fut[c] = "dial" \/ pc[c] = "dropConnecting")}

(* A multiplex key is marked as connecting exactly while one task, of a    *)
(* caller or spawned, owns its guard: the mark never leaks, two tasks      *)
(* never dial for it at once, the debug_assert of connected() never fires. *)
ConnectingExclusive ==
  shared => \A k \in Keys :
    /\ k \in connecting <=> GuardOwners(k) # {} \/ bgDial[k] > 0
    /\ \A c, d \in GuardOwners(k) : c = d
    /\ bgDial[k] > 0 => bgDial[k] = 1 /\ GuardOwners(k) = {}

(* A multiplex caller that left connecting to somebody else                *)
(* (future::pending()) is never forgotten: it has been served, its sender  *)
(* is gone, or the task it relies on still owns the guard.                 *)
NoStrandedWaiter ==
  \A c \in Callers :
    pc[c] = "select" /\ fut[c] = "stuck" =>
      rx[c] # "none" \/ SenderDropped(c) \/ key[c] \in connecting

(* put never finds a closed sender: a sender in the list belongs to a get  *)
(* whose Checkout is alive and has received nothing, so a connection       *)
(* given to a waiter always has somebody who takes or drops it.            *)
SendersOpen ==
  /\ \A w \in waiters : Open(w) /\ rx[w.caller] = "none"
  /\ \A v, w \in waiters : v.key = w.key /\ v.token = w.token => v = w

(* Every get returns: no combination of lost guards, removed senders and   *)
(* stuck connectors leaves a caller waiting forever.                       *)
GetReturns ==
  \A c \in Callers : pc[c] \notin {"out", "lent"} ~> pc[c] \in {"out", "lent"}
=============================================================================
