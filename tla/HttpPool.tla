------------------------------ MODULE HttpPool ------------------------------
(***************************************************************************)
(* The connection pool of the HTTP client and its users, for one pool key  *)
(* (volo-http/src/client/transport/pool.rs; protocol.rs: pooled_connect,   *)
(* connect_impl, H1Lease, ManagedH1Connection).  The pool's maps are keyed *)
(* and no operation relates two keys.  A key names a scheme, an address    *)
(* and a server name but no protocol version: HTTP/1 and HTTP/2            *)
(* connections to a host share it.                                         *)
(*                                                                         *)
(* Idle time is abstract: an idle connection may be found expired whenever *)
(* it is looked at.                                                        *)
(***************************************************************************)
EXTENDS Integers, Sequences, FiniteSets

CONSTANTS
    Reqs,    \* requests; each asks the pool for one connection
    Conns,   \* connections that may be opened
    MaxIdle, \* max_idle_per_host
    Alpn     \* whether a TLS peer may negotiate the version

ASSUME HttpPoolAssumption ==
    /\ IsFiniteSet(Reqs) /\ IsFiniteSet(Conns)
    /\ MaxIdle \in Nat
    /\ Alpn \in BOOLEAN

None == "none"
Cancelled == "cancelled"

ASSUME NoConn == {None, Cancelled} \cap Conns = {}

VARIABLES
    connecting, \* the key is in PoolInner::connecting
    keyed,      \* the key is in PoolInner::idle
    idle,       \* its list; the newest last
    waiters,    \* the senders parked for it, by request
    pc,         \* where each request is
    ver,        \* the version it asks for
    dial,       \* its connect future: "no", "front" (polled by the request) or "bg"
    guard,      \* the requests whose Connecting holds the key
    rx,         \* what its oneshot channel holds
    held,       \* the connection it has checked out
    proto,      \* the protocol of each connection, None before it exists
    open,       \* the connections that are open
    busy,       \* the HTTP/1 connections with an exchange in progress
    returned,   \* those whose sender is in the return channel
    waiting     \* those whose sender waits in the driver to be ready

poolVars == <<connecting, keyed, idle, waiters>>
reqVars == <<pc, ver, dial, guard, rx, held>>
connVars == <<proto, open, busy, returned, waiting>>
vars == <<poolVars, reqVars, connVars>>

\* new; connect: parked, the connect future not polled yet; race: both futures
\* pending; wait: only the checkout (connecting elsewhere); dial: only the
\* connect; drop: connected, about to drop the checkout; dropErr: likewise after
\* an error; got; sent: in send_request; done; failed.
PCs == {"new", "connect", "race", "wait", "dial", "drop", "dropErr",
        "got", "sent", "done", "failed"}

TypeOK ==
    /\ connecting \in BOOLEAN /\ keyed \in BOOLEAN
    /\ idle \in Seq(Conns) /\ Len(idle) <= MaxIdle
    /\ waiters \in Seq(Reqs)
    /\ pc \in [Reqs -> PCs]
    /\ ver \in [Reqs -> {"h1", "h2"}]
    /\ dial \in [Reqs -> {"no", "front", "bg"}]
    /\ guard \subseteq Reqs
    /\ rx \in [Reqs -> Conns \cup {None, Cancelled}]
    /\ held \in [Reqs -> Conns \cup {None}]
    /\ proto \in [Conns -> {None, "h1", "h2"}]
    /\ open \subseteq Conns /\ busy \subseteq Conns
    /\ returned \subseteq Conns /\ waiting \subseteq Conns

Init ==
    /\ connecting = FALSE /\ keyed = FALSE
    /\ idle = <<>> /\ waiters = <<>>
    /\ pc = [r \in Reqs |-> "new"]
    /\ ver \in [Reqs -> {"h1", "h2"}]
    /\ dial = [r \in Reqs |-> "no"]
    /\ guard = {}
    /\ rx = [r \in Reqs |-> None]
    /\ held = [r \in Reqs |-> None]
    /\ proto = [c \in Conns |-> None]
    /\ open = {} /\ busy = {} /\ returned = {} /\ waiting = {}

Elems(s) == {s[i] : i \in DOMAIN s}
Without(s, r) == SelectSeq(s, LAMBDA x : x # r)
IsH1(c) == proto[c] = "h1"

\* Poolable::is_open: the sender is ready.
IsOpen(c) == c \in open \ busy

\* Dropping the lease of an HTTP/1 connection closes it; an HTTP/2 connection has
\* other handles.
Dropped(S) == {c \in S : proto[c] = "h1"}

----------------------------------------------------------------------------
(* PoolInner::put and PoolInner::connected, as changes of a pool state
   [keyed, idle, waiters, rx, lost]; the last is what put drops. *)

PoolState == [keyed |-> keyed, idle |-> idle, waiters |-> waiters, rx |-> rx, lost |-> {}]

\* The list is created if need be, and takes the connection if there is room.
Push(p, c) ==
    IF MaxIdle <= Len(p.idle)
    THEN [p EXCEPT !.keyed = TRUE, !.lost = {c}]
    ELSE [p EXCEPT !.keyed = TRUE, !.idle = Append(@, c)]

\* A unique connection that is both sent and kept.
PutUniqueTwice(p, c) ==
    IF p.waiters # <<>>
    THEN Push([p EXCEPT !.waiters = Tail(@), !.rx[Head(p.waiters)] = c], c)
    ELSE Push(p, c)

\* A unique connection goes to the first waiter, or to the list.
PutUnique(p, c) ==
    IF p.waiters # <<>>
    THEN [p EXCEPT !.waiters = Tail(@), !.rx[Head(p.waiters)] = c]
    ELSE Push(p, c)

\* A shared one goes to every waiter and to the list, unless the key already has
\* a list.
PutShared(p, c) ==
    IF p.keyed
    THEN [p EXCEPT !.lost = {c}]
    ELSE Push([p EXCEPT !.waiters = <<>>,
                        !.rx = [r \in Reqs |-> IF r \in Elems(p.waiters) THEN c ELSE p.rx[r]]], c)

\* A guard that goes away without waking those who wait for it.
ConnectedQuiet(p) == p

\* The guard goes away: the parked senders are dropped.
Connected(p) ==
    [p EXCEPT !.waiters = <<>>,
              !.rx = [r \in Reqs |-> IF r \in Elems(p.waiters) THEN Cancelled ELSE p.rx[r]]]

SetPool(p) ==
    /\ keyed' = p.keyed /\ idle' = p.idle /\ waiters' = p.waiters /\ rx' = p.rx

\* Connecting::drop for the request's connect future, if it holds the key.
ReleaseGuard(p, r) == IF r \in guard THEN Connected(p) ELSE p
DropGuard(r) ==
    /\ guard' = guard \ {r}
    /\ connecting' = (connecting /\ r \notin guard)

----------------------------------------------------------------------------
(* ClientTransport::pooled_connect *)

\* IdlePopper::pop ends at entry n: the newer ones were closed or expired and are
\* dropped; a unique connection leaves the list, a shared one is pushed back.
PopAt(n) ==
    /\ IsOpen(idle[n])
    /\ idle' = SubSeq(idle, 1, IF IsH1(idle[n]) THEN n - 1 ELSE n)
    /\ open' = open \ Dropped({idle[i] : i \in n + 1 .. Len(idle)})

\* The first poll of Checkout: an idle connection, or a parked sender.
Checkout(r) ==
    /\ pc[r] = "new"
    /\ \/ \E n \in 1 .. Len(idle) :
            /\ PopAt(n)
            /\ keyed' = (idle' # <<>>)
            /\ held' = [held EXCEPT ![r] = idle[n]]
            /\ pc' = [pc EXCEPT ![r] = "got"]
            /\ UNCHANGED waiters
       \/ /\ idle' = <<>> /\ keyed' = FALSE
          /\ open' = open \ Dropped(Elems(idle))
          /\ waiters' = Append(waiters, r)
          /\ pc' = [pc EXCEPT ![r] = "connect"]
          /\ UNCHANGED held
    /\ UNCHANGED <<connecting, ver, dial, guard, rx, proto, busy, returned, waiting>>

\* A pool that lets every HTTP/2 request connect.
StartConnectAlways(r) ==
    /\ pc[r] = "connect"
    /\ pc' = [pc EXCEPT ![r] = "race"]
    /\ dial' = [dial EXCEPT ![r] = "front"]
    /\ guard' = IF ver[r] = "h2" THEN guard \cup {r} ELSE guard
    /\ connecting' = (connecting \/ ver[r] = "h2")
    /\ UNCHANGED <<keyed, idle, waiters, ver, rx, held, connVars>>

\* The first poll of the connect future, with another acquisition of the lock.
\* For HTTP/2 only one task may connect; the others fall back on the checkout.
StartConnect(r) ==
    /\ pc[r] = "connect"
    /\ IF ver[r] = "h2" /\ connecting
       THEN /\ pc' = [pc EXCEPT ![r] = "wait"]
            /\ UNCHANGED <<dial, guard, connecting>>
       ELSE /\ pc' = [pc EXCEPT ![r] = "race"]
            /\ dial' = [dial EXCEPT ![r] = "front"]
            /\ guard' = IF ver[r] = "h2" THEN guard \cup {r} ELSE guard
            /\ connecting' = (connecting \/ ver[r] = "h2")
    /\ UNCHANGED <<keyed, idle, waiters, ver, rx, held, connVars>>

\* The checkout resolves with an open connection; a started connect is spawned.
CheckoutServed(r) ==
    /\ pc[r] \in {"race", "wait"} /\ rx[r] \in Conns /\ IsOpen(rx[r])
    /\ pc' = [pc EXCEPT ![r] = "got"]
    /\ held' = [held EXCEPT ![r] = rx[r]]
    /\ rx' = [rx EXCEPT ![r] = None]
    /\ dial' = [dial EXCEPT ![r] = IF @ = "front" THEN "bg" ELSE @]
    /\ UNCHANGED <<poolVars, ver, guard, connVars>>

\* The connection it was sent is closed: the connect goes on, if there is one.
CheckoutClosed(r) ==
    /\ pc[r] \in {"race", "wait"} /\ rx[r] \in Conns /\ ~IsOpen(rx[r])
    /\ pc' = [pc EXCEPT ![r] = IF pc[r] = "race" THEN "dial" ELSE "failed"]
    /\ rx' = [rx EXCEPT ![r] = None]
    /\ UNCHANGED <<poolVars, ver, dial, guard, held, connVars>>

\* Its sender was dropped: the request fails, and with it the connect it started.
CheckoutCancelled(r) ==
    /\ pc[r] \in {"race", "wait"} /\ rx[r] = Cancelled
    /\ pc' = [pc EXCEPT ![r] = "failed"]
    /\ dial' = [dial EXCEPT ![r] = "no"]
    /\ SetPool(ReleaseGuard([PoolState EXCEPT !.rx[r] = None], r))
    /\ DropGuard(r)
    /\ UNCHANGED <<ver, held, connVars>>

Dialing(r) == dial[r] # "no"

\* TLS negotiated HTTP/2 for a request that did not ask for it: alpn_h2 takes the
\* key, or gives up and falls back on the checkout.
AlpnH2(r) ==
    /\ Alpn /\ Dialing(r) /\ r \notin guard
    /\ IF connecting
       THEN /\ dial' = [dial EXCEPT ![r] = "no"]
            /\ pc' = [pc EXCEPT ![r] = CASE @ = "race" -> "wait"
                                         [] @ = "dial" -> "failed"
                                         [] OTHER -> @]
            /\ UNCHANGED <<connecting, guard>>
       ELSE /\ connecting' = TRUE
            /\ guard' = guard \cup {r}
            /\ UNCHANGED <<dial, pc>>
    /\ UNCHANGED <<keyed, idle, waiters, ver, rx, held, connVars>>

\* Who polled the connect future gets the result.
Finish(r, front) ==
    /\ dial' = [dial EXCEPT ![r] = "no"]
    /\ pc' = [pc EXCEPT ![r] = IF dial[r] = "front" THEN front ELSE @]

\* An HTTP/2 connection is up: Pool::pooled puts a copy into the pool and ends
\* the connecting.
DialH2(r, c) ==
    /\ Dialing(r) /\ r \in guard /\ proto[c] = None
    /\ proto' = [proto EXCEPT ![c] = "h2"]
    /\ open' = open \cup {c}
    /\ SetPool(Connected(PutShared(PoolState, c)))
    /\ DropGuard(r)
    /\ held' = IF dial[r] = "front" THEN [held EXCEPT ![r] = c] ELSE held
    /\ Finish(r, IF pc[r] = "race" THEN "drop" ELSE "got")
    /\ UNCHANGED <<ver, busy, returned, waiting>>

\* An HTTP/1 connection is up, its driver spawned.  In the background its Pooled
\* is dropped at once and goes into the pool.  A request for HTTP/2 gets one if
\* TLS negotiated so: the guard is then released by Pool::pooled.
DialH1(r, c) ==
    /\ Dialing(r) /\ proto[c] = None
    /\ r \in guard => Alpn /\ ver[r] = "h2"
    /\ proto' = [proto EXCEPT ![c] = "h1"]
    /\ LET released == ReleaseGuard(PoolState, r)
           put      == IF dial[r] = "bg" THEN PutUnique(released, c) ELSE released
       IN  SetPool(put) /\ open' = (open \cup {c}) \ put.lost
    /\ DropGuard(r)
    /\ held' = IF dial[r] = "front" THEN [held EXCEPT ![r] = c] ELSE held
    /\ Finish(r, IF pc[r] = "race" THEN "drop" ELSE "got")
    /\ UNCHANGED <<ver, busy, returned, waiting>>

\* An error path that forgets the guard.
DialErrKeepsGuard(r) ==
    /\ Dialing(r)
    /\ Finish(r, IF pc[r] = "race" THEN "dropErr" ELSE "failed")
    /\ UNCHANGED <<poolVars, guard, rx, ver, held, connVars>>

DialErr(r) ==
    /\ Dialing(r)
    /\ SetPool(ReleaseGuard(PoolState, r))
    /\ DropGuard(r)
    /\ Finish(r, IF pc[r] = "race" THEN "dropErr" ELSE "failed")
    /\ UNCHANGED <<ver, held, connVars>>

\* The request drops its Checkout: its sender is cleaned out of the pool, and a
\* connection sent to it in the meantime is dropped with the receiver.
DropCheckout(r) ==
    /\ pc[r] \in {"drop", "dropErr"}
    /\ waiters' = Without(waiters, r)
    /\ rx' = [rx EXCEPT ![r] = None]
    /\ open' = open \ Dropped({rx[r]} \cap Conns)
    /\ pc' = [pc EXCEPT ![r] = IF @ = "drop" THEN "got" ELSE "failed"]
    /\ UNCHANGED <<connecting, keyed, idle, ver, dial, guard, held, proto, busy, returned, waiting>>

\* The user drops the request while it waits: the checkout, then the connect.
Cancel(r) ==
    /\ pc[r] \in {"race", "wait", "dial"}
    /\ pc' = [pc EXCEPT ![r] = "failed"]
    /\ dial' = [dial EXCEPT ![r] = "no"]
    /\ SetPool(ReleaseGuard([PoolState EXCEPT !.rx[r] = None, !.waiters = Without(@, r)], r))
    /\ DropGuard(r)
    /\ open' = open \ Dropped({rx[r]} \cap Conns)
    /\ UNCHANGED <<ver, held, proto, busy, returned, waiting>>

----------------------------------------------------------------------------
(* Using the connection: HttpConnection::send_request, H1Lease, Pooled::drop *)

\* A request is sent.  The lease of an HTTP/1 connection gives up its sender.
Send(r) ==
    /\ pc[r] = "got"
    /\ IF IsH1(held[r])
       THEN /\ busy' = busy \cup ({held[r]} \cap open)
            /\ pc' = [pc EXCEPT ![r] = "sent"]
            /\ UNCHANGED held
       ELSE /\ pc' = [pc EXCEPT ![r] = "done"]
            /\ held' = [held EXCEPT ![r] = None]
            /\ UNCHANGED busy
    /\ UNCHANGED <<poolVars, ver, dial, guard, rx, proto, open, returned, waiting>>

\* The response head, an error or the drop of the future: the sender goes back to
\* the driver, if it still runs.  The Pooled that is dropped is empty.
SendOver(r) ==
    /\ pc[r] = "sent"
    /\ returned' = returned \cup ({held[r]} \cap open)
    /\ held' = [held EXCEPT ![r] = None]
    /\ pc' = [pc EXCEPT ![r] = "done"]
    /\ UNCHANGED <<poolVars, ver, dial, guard, rx, proto, open, busy, waiting>>

\* The user drops a connection it has not used: Pooled::drop puts it back if it is
\* open and not shared.
DropUnused(r) ==
    /\ pc[r] = "got"
    /\ LET c == held[r]
           put == IF IsH1(c) /\ IsOpen(c) THEN PutUnique(PoolState, c) ELSE PoolState
       IN  SetPool(put) /\ open' = open \ (IF IsOpen(c) THEN put.lost ELSE Dropped({c}))
    /\ held' = [held EXCEPT ![r] = None]
    /\ pc' = [pc EXCEPT ![r] = "done"]
    /\ UNCHANGED <<connecting, ver, dial, guard, proto, busy, returned, waiting>>

----------------------------------------------------------------------------
(* ManagedH1Connection and the peer *)

\* Step 1 of the driver: it receives the sender.
DriverRecv(c) ==
    /\ c \in returned
    /\ returned' = returned \ {c}
    /\ waiting' = waiting \cup {c}
    /\ UNCHANGED <<poolVars, reqVars, proto, open, busy>>

\* A driver that returns the sender without asking whether it is ready.
DriverReadyAtOnce(c) ==
    /\ c \in waiting /\ c \in open
    /\ waiting' = waiting \ {c}
    /\ LET put == PutUnique(PoolState, c)
       IN  SetPool(put) /\ open' = open \ put.lost
    /\ UNCHANGED <<connecting, pc, ver, dial, guard, held, proto, busy, returned>>

\* Steps 4 and 5: when hyper says the sender is reusable, it goes to the pool.
DriverReady(c) ==
    /\ c \in waiting /\ IsOpen(c)
    /\ waiting' = waiting \ {c}
    /\ LET put == PutUnique(PoolState, c)
       IN  SetPool(put) /\ open' = open \ put.lost
    /\ UNCHANGED <<connecting, pc, ver, dial, guard, held, proto, busy, returned>>

\* The exchange is over: the response body was read to its end.
BodyEnd(c) ==
    /\ c \in busy
    /\ busy' = busy \ {c}
    /\ UNCHANGED <<poolVars, reqVars, proto, open, returned, waiting>>

\* The connection ends, and with it the driver and the sender it may hold.
Close(c) ==
    /\ c \in open
    /\ open' = open \ {c}
    /\ busy' = busy \ {c}
    /\ returned' = returned \ {c}
    /\ waiting' = waiting \ {c}
    /\ UNCHANGED <<poolVars, reqVars, proto>>

\* IdleTask: clear_expired keeps the entries that are open and not expired.
ClearExpired ==
    /\ keyed
    /\ \E keep \in SUBSET DOMAIN idle :
         /\ \A i \in keep : IsOpen(idle[i])
         /\ idle' = LET old == SelectSeq([i \in DOMAIN idle |-> i], LAMBDA i : i \in keep)
                    IN  [j \in DOMAIN old |-> idle[old[j]]]
         /\ open' = open \ Dropped({idle[i] : i \in DOMAIN idle \ keep})
    /\ keyed' = (idle' # <<>>)
    /\ UNCHANGED <<connecting, waiters, reqVars, proto, busy, returned, waiting>>

----------------------------------------------------------------------------

ReqStep(r) ==
    \/ Checkout(r) \/ StartConnect(r) \/ CheckoutServed(r) \/ CheckoutClosed(r)
    \/ CheckoutCancelled(r) \/ DropCheckout(r)

DialStep(r) == DialErr(r) \/ \E c \in Conns : DialH1(r, c) \/ DialH2(r, c)

Next ==
    \/ \E r \in Reqs :
         \/ ReqStep(r) \/ DialStep(r) \/ AlpnH2(r) \/ Cancel(r)
         \/ Send(r) \/ SendOver(r) \/ DropUnused(r)
    \/ \E c \in Conns : DriverRecv(c) \/ DriverReady(c) \/ BodyEnd(c) \/ Close(c)
    \/ ClearExpired

Spec == Init /\ [][Next]_vars

\* Tasks that can make progress are polled and a connect ends, one way or another.
FairSpec == Spec /\ \A r \in Reqs : WF_vars(ReqStep(r)) /\ WF_vars(DialStep(r))

----------------------------------------------------------------------------
(* Properties *)

\* Where the sender of an HTTP/1 connection is.
Places(c) ==
    {<<"idle", i>> : i \in {j \in DOMAIN idle : idle[j] = c}}
      \cup {<<"rx", r>> : r \in {q \in Reqs : rx[q] = c}}
      \cup {<<"held", r>> : r \in {q \in Reqs : held[q] = c}}
      \cup {<<"returned", c>> : x \in returned \cap {c}}
      \cup {<<"waiting", c>> : x \in waiting \cap {c}}

\* An HTTP/1 connection has one owner: a request, a waiter's channel, the driver
\* or the idle list.  Leases, guards, drops and spawned connects pass it on and
\* never copy it.
SingleLease == \A c \in Conns : IsH1(c) => Cardinality(Places(c)) <= 1

\* "Wait until Hyper explicitly reports that the sender is reusable": a connection
\* whose response body is still being read is in no place a new request could
\* take it from.
ReadyWhenPooled == \A c \in busy : c \notin Elems(idle) /\ \A r \in Reqs : rx[r] # c

\* The key is marked as connecting exactly while one connect future holds it.
OneConnecting == Cardinality(guard) = (IF connecting THEN 1 ELSE 0) /\ \A r \in guard : Dialing(r)

\* A request that waits for somebody else's connection has been answered, or its
\* sender is parked and that somebody is still connecting.
WaitsForSomebody ==
    \A r \in Reqs : (pc[r] = "wait" /\ rx[r] = None) => connecting /\ r \in Elems(waiters)

\* Every request that asks for a connection gets one or an error.
RequestEnds == \A r \in Reqs : pc[r] # "new" ~> pc[r] \in {"got", "sent", "done", "failed"}
=============================================================================
