# A formal model of Volo

Volo is a Rust RPC framework: `volo` (load balancing, discovery, hot restart, networking), `volo-thrift`,
`volo-http` and `volo-grpc`, and the code generators `volo-build` and `volo-cli`. This directory holds TLA+
modules for the parts of it whose correctness depends on the order in which tasks, callbacks, messages and
processes act, TLC configurations that check them on small instances, and TLAPS proofs for instances of any size.
Paths below are relative to `src/`. `PROJECT.json` maps every definition that models code to its lines, and lists
the components, runs, findings, hazards and theorems.

## 1. Inventory

| Part | State | Operations | What makes it hard | Module |
|---|---|---|---|---|
| Thrift connection pool, `volo-thrift/src/transport/pool/` | idle lists, waiter lists, connecting set, the state of every `get` | `get`, `connecting`, `put`, `connected`, drops of `Checkout` and `Connecting`, `clear_expired`, spawned connectors | `get` takes the mutex several times; any await may be the last | `ThriftPool` |
| Multiplexed connection, client, `transport/multiplex/thrift_transport.rs` | `tx_map`, four flags, write half, read loop | `send`, `read_loop`, cancellation, timeout | flags are read outside the lock of the map; a dropped write leaves half a frame | `MuxClient` |
| Multiplexed connection, server, `transport/multiplex/server.rs` | response and error channel, handlers, writer | decode, handle, send, write, exit | bounded channel whose reader may stop first | `MuxServer` |
| TTHeader codec, `codec/default/ttheader.rs` | header bytes, contexts, metainfo | `encode_size`, `encode`, `decode` on both sides | two functions that must agree; contexts are reused | `TTHeader` |
| Thrift server, `server/mod.rs`, `transport/pingpong/server.rs` | `conn_cnt`, `exit_flag`, `exit_mark`, `exit_notify`, connections | accept, serve, graceful exit | counter, flag and notify are read and written at different moments | `ThriftServer` |
| HTTP client pool and transport, `volo-http/src/client/transport/` | idle list, waiters, connecting mark, leases, drivers | checkout, connect, put, lease and return | two protocols under one key; senders come back through a driver | `HttpPool` |
| Hot restart, `volo/src/hotrestart/mod.rs` | two socket files, descriptors, datagrams | initialize, request, answer, terminate | processes die between steps; files outlive them | `HotRestart` |
| Load balancing and discovery, `volo/src/loadbalance/`, `volo/src/discovery/mod.rs` | cache, event channel, pickers | `get_picker`, `rebalance`, `next`, retry | a result awaited before a change is stored after it | `LoadBalance` |
| Consistent hashing, `volo/src/loadbalance/consistent_hash.rs` | ring, picker | build, `next` | wrap-around, equal hashes, shared addresses | `ConsistentHash` |
| Default Thrift codec, gRPC and HTTP servers, HTTP redirects, gRPC codec, timeouts, status, routers, event streams | | | | planned, section 7 |
| `volo-build`, `volo-cli`, `volo-macros`, TLS, shared memory, examples | | | text generation, adapters | not modelled |

How they interact: a Thrift client call goes through load balancing (`LoadBalance`, `ConsistentHash`) to an
address, takes a connection for it from the pool (`ThriftPool`), and uses it alone (ping-pong) or with others
(`MuxClient`); its header is written and read by `TTHeader`. A server takes connections (`ThriftServer`) and serves
each of them as ping-pong (in `ThriftServer`) or multiplexed (`MuxServer`); its listeners come from `HotRestart`.
The HTTP client's requests take connections from `HttpPool`. The interfaces are modelled on both sides: the pool sees
a connection become unusable (`Break`) at any time, which includes every way `MuxClient` shows; `StoppedRetired` says
that a multiplexed connection tells the pool. `HotRestart` assumes that a graceful exit ends, which `ThriftServer` shows
(`ExitEnds`).

## 2. Modelling conventions

- An action is one critical section, or one poll that changes state: what the code does between two awaits, or under
  one lock, is one step; whatever it does across an await is several. A future that is dropped at an await has an action
  of its own (`CancelSelect`, `Drop`, `Cancel`).
- Data is reduced to what is told apart. Addresses, calls and connections are model values; a response is the name of
  its request; time is a small clock (`ThriftPool`) or left open: a sleep may end, an idle connection may have
  expired, at any moment (`ThriftServer`, `HttpPool`).
- Every bound is a named constant: `MaxGets`, `MaxNow`, `MaxReqs`, `MaxWaits`, `MaxChanges`, `Exchanges`, `MaxVirtual`, `N` (processes).
- A definition that no specification uses, just before the one it resembles, is a plausible slip in that one: it
  documents what the properties would catch (`PROJECT.json`, "mutants").
- `TypeOK` states the types of each module's variables. For `ThriftPool`, `MuxClient`, `ThriftServer` and `ConsistentHash`
  it is part of what is proved; in the others it documents the state and can be added to a configuration as an
  `INVARIANT`.
- `CHECK_DEADLOCK FALSE` is in all configurations because all of these systems may rest: clients need not call, the
  bounded number of calls or processes is used up, or a connection has ended. Where resting would be wrong, a liveness
  property or an invariant over the resting state says so (`NoStrandedWaiter`, `WaitsForSomebody`, `HandoverEnds`).

## 3. The modules

**ThriftPool** (`pool/mod.rs`, `started.rs`). `idleKeys`/`idle`, `waiters`/`counter` and `connecting` are the fields of
`Inner`; `pc`, `token`, `rx`, `fut`, `conn` are the locals of each caller's `get`. `Enter`, `Lookup*`, `CheckReusable`,
`Reserve`, `Register`, `StartConnector`, `WaiterServed`, `WaiterFailed`, `DialOk`, `DialErr`, `DropCheckout` and
`DropConnecting` follow `Pool::get` and the destructors it runs; `Cancel*` drops the future at its awaits; `Reuse` and
`Discard` end the use of a connection; `Bg*` are connectors spawned for a served waiter; `ClearExpired` is the idle
task. `shared` says whether the pool is a multiplex pool (`Reservation::Shared`) or a ping-pong one; it never changes.

**MuxClient** (`multiplex/thrift_transport.rs`, the timeout layer). `txMap`, the four flags and `writer` (the mutex of
the write half) are shared by calls that go through `Begin`, `Insert`, `FindDirty` or `StartWrite`, `WriteOk` or
`WriteErr`, `RaiseWriteError`, `Unmap`, `Receive`. The read loop is `CheckWriteError`, `Decode`, `Deliver`, `ReadEof`,
`ReadFail`, `DrainEof`, `DrainFail`. `Drop` is cancellation and `Expire` the timeout layer, which drops the calls in
`Timed`, those with an `rpc_timeout`.
The peer is the environment.

**MuxServer** (`multiplex/server.rs`). Read loop (`Decode`, `Leave`, `DecodeErr`), handlers (`Handled`, `Send`) and writer
(`TakeResponse`, `TakeError`, `Quit`, `Encoded`, `EncodeErr`) with the two channels between them. `Mark` and `Notify` are
the server's exit. The writer selects between the two channels in no fixed order and returns when either is closed
(`ErrorsClosed`, `ResponsesClosed`).

**TTHeader** (`codec/default/ttheader.rs`). A header is a sequence of cells, each with its width in bytes and a value, so
that sizes, padding, truncation to 16 bits and the remaining-size bookkeeping of `decode` are those of the code, while
string contents stay atomic. `Call` and `Respond` size and encode, the `Decode*` actions take one entry at a time,
`ServerTakes*` and `ClientTakes*` move what was read into the context and the metainfo, where entries are added to what
is there (`Extend`). The server's metainfo is made anew after each answer; a caller's is, unless the caller has a
`METAINFO` scope around its calls (`cli.scoped`), which then keeps the backward entries from call to call. Reading a cell of another width or past the
header is `garbled`. Left out: the remote ip header, and what happens after `rejected`, where the server answers an
exception without a header and closes the connection.

**ThriftServer** (`server/mod.rs`, `pingpong/server.rs`). `main` walks through `run`, `acceptor` through the accept loop,
`conn[c]` through `handle_conn` and `serve`. `Arm` is the creation of the `Notified`, which `notify_waiters` does or does
not reach. A panic of the service is `Abort`: the deferred decrement runs.

**HttpPool** (`transport/pool.rs`, `protocol.rs`). The pool for one key: its maps are keyed and no operation relates two
keys, but HTTP/1 and HTTP/2 connections share a key, which is the interesting case. `Checkout`, `StartConnect`,
`CheckoutServed`, `CheckoutClosed`, `CheckoutCancelled`, `Finish`, `AlpnH2`, `DialErr`, `DropCheckout` are
`pooled_connect`; `Send`, `SendOver`, `DriverRecv`, `DriverReady` are the HTTP/1 lease and its driver.

**HotRestart** (`hotrestart/mod.rs`, `net/incoming.rs`). Processes 1 to N, the two socket files, the datagram queues. The
steps of `initialize` (`UnlinkChild` to `BindParent`) are separate, since two processes may run it at once. `Ask`,
`TooEarly`, `Answer` and `Handover` are `dup_parent_listener_sock`, `Register` and `BindOwn` its caller, `PassFd` and
`Terminated` are `parent_handle`. `ready` is the readiness tokio has noted for the child's socket: it is lowered only by a
receive that finds nothing, so that the second request of a child does not wait for its answer (`TooEarly`). `want`
gives each process its listeners. `orderly` says that a process is started only when the earlier ones are up and that none dies.
Listeners are TCP (`SO_REUSEPORT` lets two processes bind one address); a Unix listener takes the same steps, and binding
its own removes the path of the other.

**LoadBalance** (`loadbalance/layer.rs`, `random.rs`, `discovery/mod.rs`). `cache` is the entry of one key, `events` the
broadcast channel with its capacity (a lagging receiver loses the oldest events). `GetCached`, `GetMissing`,
`Discovered`, `Insert` are `get_picker`, `MissHash` is that of the consistent-hash balancer without a request hash, `Rebalance` the watch task, `Try`, `GiveUp`, `Answer` the retry loop. The random
number is a choice; `Search` is `binary_search`, any of the equal entries.

**ConsistentHash** (`consistent_hash.rs`). Every set of virtual nodes within the bound is an initial state, with equal
hashes and shared addresses. `Next*` are the cases of `next`. The u32 product of weight and factor is not modelled.

The `MC*` modules add model values, symmetry sets and lists of inputs; `MCPoolsLive` has both pools, and each of its
behaviours is one of one of them. Symmetry is used in safety runs only, over
values that are compared for equality and nothing else.

## 4. The runs

Run one with `tlc -config MCPool.cfg MCThriftPool`, the module being the one `PROJECT.json` names. Each passing run
takes seconds to a few minutes. Where a system comes in several configurations (ping-pong and multiplex pools, orderly
and other restarts), the configuration is a variable that `Init` chooses and no step changes, so that one run covers all.

| Run | Configuration | Checks | Shows |
|---|---|---|---|
| thrift_pool | `MCPool.cfg` | `SingleOwner`, `IdleOldestFirst`, `SendersOpen`, `ConnectingExclusive`, `NoStrandedWaiter` | Three callers contend for one address of a ping-pong or of a multiplex pool: a ping-pong connection never has two owners, the idle list keeps its order, no sender outlives its receiver, the connecting mark has exactly one owner and nobody waits for a connect that no task is doing. |
| pools_live | `MCPoolsLive.cfg` | `RightPeer`, `GetReturns`, `RequestEnds` | Both pools under fairness. Thrift, with two addresses and equal waiter tokens: connections are never mixed up, and every get returns, also the one that waits for somebody else's connect. HTTP: every request gets a connection or an error. |
| mux_client | `MCMuxClient.cfg` | `AwaitCovered`, `StoppedRetired`, `TornStaysLast`, `AnsweredWhileReading`, `TimedCallReturns` | Two calls, one of them with an rpc timeout, and a one-way call share a connection, may be dropped at every await and may fail to write: no waiting call loses its sender, a torn frame stays the last one, a connection whose reader stopped is not handed out, an answer reaches its call while the reader runs, and the call with a timeout returns. |
| mux_server | `MCMuxServer.cfg` | `ResetIsLast`, `ErrorLostOnlyLast`, `WriterEnds`, `HandlersEnd` | Three calls and a one-way call over a response channel of one slot: nothing follows a connection reset, the writer and the handlers end on every way out, also with a full channel, as long as the client drains its socket, and the answer to a malformed message is lost only where every response has been written and the writer sees the closed response channel first. |
| ttheader | `MCTTHeader.cfg` | `ServerSeesRequest`, `ClientSeesReply`, `GarbledOnlyByLongStrings`, `SizeInSyncElsewhere` | Two exchanges with every optional part of the header present and absent, and lengths up to and beyond 2^16, by a caller with or without a metainfo scope of its own: the header arrives as it was sent, and of the exchange before nothing is left but backward entries in the caller's scope under keys the response does not set. |
| thrift_server | `MCThriftServer.cfg` | `CountExact`, `OneLateRequest`, `NobodyCutOff`, `ExitEnds` | Three connections in every phase of their life when the exit begins: the counter is exact, at most one request per connection is served after the mark, a run that leaves its wait early has cut nobody off who listened, and the exit ends whatever clients and handlers do. |
| http_pool | `MCHttpPool.cfg` | `SingleLease`, `ReadyWhenPooled`, `OneConnecting`, `WaitsForSomebody` | Three requests of either version and two connections under one key: an HTTP/1 connection has one owner and is pooled only when ready, one task connects for HTTP/2, and who waits waits for somebody. |
| hot_restart | `MCHotRestart.cfg` | `RightListener`, `NoGap`, `HandoverEnds`, `RestartRecovers` | Three generations with one to three listeners each, started one after the other, or three processes that start and die at any moment: in orderly restarts no common address is ever without a listener, a child whose addresses the parent has comes to serve them all and, with single listeners, takes its parent's place; listeners are not mixed up within the stated limits; and a process started after all others died comes to serve. |
| load_balance | `MCLoadBalance.cfg` | `NoInstanceTwice`, `GivesUpAfterAll`, `FirstPickProportional`, `CacheCatchesUp` | Two calls, the weighted random picker and the retry loop over lists shorter and longer than the retries allow, with unequal, zero and duplicated entries, changes of the discovery result beyond the channel's capacity and the watch task in every order: no instance is called twice, a call gives up after exactly the attempts it has, the first choice is proportional to the weights, and the cache catches up with discovery unless an answer made before a change is inserted after it. |
| consistent_hash | `MCConsistentHash.cfg` | `PicksFollowRing`, `PanicsOnlyWithoutVirtual`, `RemovalMovesOnlyItsOwn` | Every ring of up to four virtual nodes, with equal hashes and shared addresses: the picks follow the ring, and removing an instance moves only its requests. |

Two runs are expected to fail (section 5):

| Run | Configuration | Property TLC refutes | Shows |
|---|---|---|---|
| mux_client_default | `MCMuxClientDefault.cfg` | `CallReturns` | With the default configuration a call that checks the flags before the read loop drains the map and registers after it waits for ever. |
| ttheader_size | `MCTTHeaderSize.cfg` | `SizeInSync` | encode_size is short by the string section of a response whose only string headers are those of a business error. |

### Bounds

- Pools: three requesters, two or three connections and an idle limit of one or two let a waiter, a connector and a
  returned connection meet for the same key, with the limit reached. A second key (`MCPoolsLive.cfg`) gives equal tokens
  in two lists. Four calls of `get` are enough for a waiter list to be removed and made anew, which restarts its tokens.
- Multiplexed connection: two calls with a reply and a one-way call cover every pair of positions of the two in `send`
  against the read loop; one call has a timeout and one has none. A response channel of one slot makes the second handler wait.
- Server: three connections may be queued, unpolled and served at the same moment; two iterations of the final wait
  stand for its 28, since nothing depends on the number but the moment the wait gives up. In the proofs the number is
  arbitrary.
- Hot restart: three processes with one, two or three listeners each, in every combination, for orderly restarts: a child
  becomes a parent and has a child again, and an answer that comes too late meets a next listener and a next process.
  Overlapping starts and crashes at every step with three processes, two of them with two listeners.
  What `RightListener`, `NoGap` and `HandoverEnds` say is limited to the cases in which it holds, by conditions in the
  properties and not by the bounds: the run goes beyond them. `NoGap` does not hold with overlapping starts (nor, of course, with a
  crash of the only process).
- Load balancing: lists of no, one, three and four instances against two attempts (`Retry` = 1), so that either the list or
  the retries end the loop; zero and unequal weights, an address twice, two lists that differ in weights only; three
  changes and a channel of two events, so that it holds several and overflows. Consistent hashing: four virtual nodes of three instances on four hashes,
  which has every order of equal, used and wrapped nodes the search tells apart.
- TTHeader: two exchanges, because what could leak goes from one to the next; lengths 65535, 65536 and 300000 are at
  the limit of a length field, beyond it, and beyond the header. Two of the replies set one backward key to different
  values, and one of them sets another.

### Fairness

Weak fairness stands for the tokio runtime: a task that can make progress is polled. It is assumed of
- every step of a task (`GetStep`, `CallStep`, `ReaderStep`, `MainStep`, `WriterStep`, `ReqStep`, `Rebalance`, ...);
- a connect, which ends with a connection or an error (`BgDialDone`, `DialStep`, and the dial inside `GetStep`). The code bounds connects with a
  timeout only when one is configured, so this is an assumption on the network;
- an armed timer (`Expire`, the sleeps of `MainStep`);
- in `MuxClient` a peer that answers what it has read (`Answer`), in `MuxServer` and `LoadBalance` services and a
  discovery that return;
- in `MuxServer` the end of every write (`Encoded`), for which the client must drain its socket or close it: the code has no
  write timeout, and with a client that does neither, the writer and the handlers behind a full channel wait;
- in `ThriftServer` the steps of `run` alone, its hooks included: neither services nor clients can hold the exit up.

Beyond that nothing is assumed of clients: that they send or close, and cancellation, failures, signals and crashes, have no
fairness.

## 5. Findings

`mux_client_default` checks what the doc of `ClientBuilder::rpc_timeout` implies ("The default value is 1 second"): that every
call returns. `Config::new` has no rpc timeout, and a call that reads the flags before the reader drains `tx_map` and
registers after it then waits for ever. With a timeout it returns (`TimedCallReturns`).

`ttheader_size` checks the comment on `encode_size`, "this must be with sync to the encode impl" (`ttheader.rs:561`). It
leaves out the string section of a response whose only string headers are those of a business error. Everywhere else
the two agree (`SizeInSyncElsewhere`).

Reading the code against its comments while modelling showed further places where the two part. The models contain each
of these behaviours; the properties checked are the ones that hold in spite of them.

- Thrift pool. Waiter tokens restart when a waiter list is removed, so a `Checkout` dropped late can remove the sender of
  another `get` (`pool/mod.rs:476-483`), which fails with a `RecvError` that is commented as "connection pool is
  dropped" (368). The connector spawned for a served waiter is to "complete the make transport and put into pool" (358),
  but its ping-pong connection is closed, and for a multiplex waiter it is `future::pending()`, a task that never ends.
  "The pool always keeps a copy" (395): an emptied idle list makes `put` drop it. The connecting mark "prevents making
  multiple Multiplex connections" (593): the idle list and the mark are looked at under different acquisitions of the
  lock. Every `get` returns all the same (`GetReturns`), and no connection gets two owners (`SingleOwner`).
- Multiplex server. "Receives a response, we need to send it back to client" (`multiplex/server.rs:54`): the first response
  with a reset stops the writer, and responses of other handlers in flight are lost. They do not hang (`HandlersEnd`).
  "Receives an error, we need to close the connection" (91): the read loop drops its senders right after it queued the
  error, and a writer that sees the response channel closed first returns (81-88) without writing it. That loses the error
  only where every response has been written (`ErrorLostOnlyLast`).
- TTHeader. A client that finds no `METAINFO` makes one for the call (`client/mod.rs:816-826`); in a caller's scope the backward
  entries of earlier responses stay beside those of the latest (`ttheader.rs:880-884`). Each key has the latest value
  (`ClientSeesReply`).
- Thrift server. "Now we won't accept new connections" (`server/mod.rs:392`): a pending `accept` takes one more. "Wait for all
  connections to be closed" (399): connections whose task has not run are not counted. `NobodyCutOff` and
  `OneLateRequest` say what is left of the promise.
- HTTP pool. `connected` cancels the waiters that "would never receive a connection" (`pool.rs:404`), those of HTTP/1
  requests with connects of their own under the same key included. "The pool always keeps a copy" (237): an idle
  HTTP/1 connection under the key makes `put` drop it. Every request still ends (`RequestEnds`).
- Load balancing. With every change dispatched, as `discovery/mod.rs:53` asks, the cache can stay behind discovery: a
  result awaited before a change is stored after it. Nothing else makes it fall behind (`CacheCatchesUp`).
- Consistent hashing. "Find the first virtual node whose hash is greater than request_hash" (`consistent_hash.rs:126`): the code
  takes the first that is not smaller, and `PicksFollowRing` follows the code.
- Hot restart. No comment promises more than the code does, so these are hazards. A child with several listeners depends on
  timing: if the parent has not answered the second request when `recv_msg` looks, the child binds that listener itself,
  never counts `listener_num` answers and never ends its parent. The answer that comes later is taken for the next listener, or
  the request is answered to the next process, under the wrong address; if it meets no child file, `parent_handle` ends and the
  parent hands nothing on any more. A request for an address that the parent does not have is never answered. With one listener
  per process none of this happens (`HandoverEnds`, `RightListener`).

## 6. Proofs

`tlapm ThriftPoolProofs.tla` and the other three `*Proofs` modules check without failures. All theorems hold for every value
of the constants that the `ASSUME` of the module allows.

**ThriftPoolProofs**, from `PoolAssumption` (limits are naturals, `"none"` names no connection).
- `TypeCorrect`: `TypeOK` together with `HandInv`, which says what a caller holds in each control state. It is needed
  because `put` stores what the caller holds.
- `GuardsExclusive`: `ConnectingExclusive` with `FutInv` (a connector exists only inside the select). The mark of a key is
  removed in five places; the invariant says that each of them is run by the one owner of the mark.
- `SendersAlwaysOpen`: `SendersOpen` strengthened by "a token is below its list's counter" (so that a new token is fresh) and
  "only a waiting get has mail".
- `NobodyStranded`: from the three above. A `get` on `future::pending()` has its key marked by a live owner, or its outcome
  has reached it.

**MuxClientProofs**, from `MuxClientAssumption` and `NoneIsNoCall`. `CallInv` adds to `TypeOK`: `Covered`, which follows a
call from its insertion into `tx_map` rather than from `rx.await` on, since that is when the reader may drain it; `WriterInv`, that
the call inside `encode` holds the mutex and the connection is dirty meanwhile; and `TornInv`, that a frame cut short leaves
it dirty or the socket broken. `AwaitsCovered`, `TornStreamStaysTorn` (an action property) and `MuxTypeCorrect` follow.
`StoppedRetired` is inductive by itself, because no step lowers a flag (`StoppedIsRetired`).

**ThriftServerProofs**, from `ThriftServerAssumption` (finitely many connections). `ServerInv` is `TypeOK`, `CountExact`,
`ArmedInv` (who created a `Notified` has been counted), `LateInv` (a request after the mark puts its connection on the way
out) and `NobodyCutOff`. Lemmas on cardinality say how the set of served connections changes when one enters, moves or leaves;
the unsigned counter never wraps because a connection that leaves is in the set. `ExitCutsNobodyOff` then holds
because a count of zero means an empty set.

**ConsistentHashProofs**, from `ConsistentHashAssumption`. `RemovalStable` is the point of consistent hashing: for two sorted
rings without equal hashes, one with the nodes of the other but those of an instance x, a request whose first node is not of
x has the same first node in both. The lemma below it is that `partition_point` with the wrap-around finds the first node at
or after the hash, or the first of all. `PicksAreDistinct` and `PanicNeedsEmptyRing` use the invariant `IInv`: `used` is the
set of what was picked, and as large as the picks are long, which is what `next` compares with the number of replicas.
`RemovalStable` takes the two rings as given; that filtering a ring yields the second one is checked by TLC
(`RemovalMovesOnlyItsOwn`).

Only model-checked: all liveness properties (fairness is outside the proof system's reach); `SingleOwner` and the idle list's
order; everything of `MuxServer`, `HttpPool`, `HotRestart`, `LoadBalance`, `TTHeader`; and `PicksFollowRing`, whose
reference definition folds over sequences, for which the provers have no induction.

## 7. Plan

Done: the modules above, in the order of the table of section 1. Next, in this order:

1. Servers: the exits of volo-grpc (one watch channel announces the exit and counts the connections) and volo-http, each
   with the properties of `ThriftServer`.
2. Composition: a multiplexed connection from client to server (`MuxClient` and `MuxServer` over one wire), with the reset of
   an exiting server reaching the client's pool.
3. Thrift codec: detection of framing and protocol, frame limits, the encoder's buffer across failed and dropped encodes,
   `BufReader`; the ping-pong client's sequence check and context cache.
4. gRPC: the message decoder over arbitrary chunks, compression, limits and trailers; `grpc-timeout`; status and
   metadata as conversions with a round trip.
5. HTTP: redirects, routers (merge, nest, fallback), event streams, body limit and timeout layers.
6. Refinement: an abstract lease pool (a connection is free, lent, or on its way to a waiter) implemented by both
   `ThriftPool` and `HttpPool`.
7. Fewer, larger runs: the conversions of 3 and 4 share one run, consistent hashing becomes the second picker of
   `LoadBalance`, and the composition of 2 takes the place of the runs of its two halves.
8. Proofs: `SingleOwner`, `SingleLease`, `OneConnecting`, `ResetIsLast`, and the refinement's step simulation.

Not modelled and not planned: `volo-build`, `volo-cli` and `volo-macros` (code generation), TLS and shared memory (adapters
of other crates), client builders and header assembly (no state), connection pooling of volo-grpc (in hyper-util, outside the
repository). In what is modelled, these are left open: the content of messages, tracing and statistics, the hash function,
the exact durations of timers, and instances of weight 0, for which `binary_search` may return any of several equal
prefix sums.
