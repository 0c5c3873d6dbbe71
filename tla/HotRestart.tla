----------------------------- MODULE HotRestart -----------------------------
(***************************************************************************)
(* Hot restart (volo/src/hotrestart/mod.rs; its user in                    *)
(* volo/src/net/incoming.rs): successive processes of one service hand     *)
(* their listening sockets on over two Unix datagram sockets with fixed    *)
(* file names.  A process that can connect to the parent file is a child:  *)
(* it asks for each of its listeners, ends its parent when it has them all *)
(* and becomes the parent of the next process.                             *)
(*                                                                         *)
(* A listener is known by its address.  A file names the process whose     *)
(* socket was bound to it last; a file outlives its process.               *)
(***************************************************************************)
EXTENDS Integers, Sequences, FiniteSets

CONSTANTS
    N,       \* the processes 1 .. N, in the order they are started
    Addrs,   \* the addresses the service may listen on
    Orderly, \* the configurations checked for orderly restarts: each gives every
             \* process the addresses it listens on
    Rival    \* those checked for processes that start and die at any moment

Procs == 1 .. N
Nobody == 0
None == "none"
Terminate == "terminate"

ASSUME HotRestartAssumption ==
    /\ N \in Nat \ {0}
    /\ IsFiniteSet(Addrs) /\ Addrs # {}
    /\ Orderly \cup Rival \subseteq [Procs -> SUBSET Addrs \ {{}}]

ASSUME NoAddr == {None, Terminate} \cap Addrs = {}

VARIABLES
    orderly,    \* each process is started when the earlier ones are up, none dies
    want,       \* the addresses a process listens on: listener_num of them
    st,         \* where each process is
    parentFile, \* whose socket volo_hot_restart_parent.sock is
    childFile,  \* whose socket volo_hot_restart_child.sock is
    peer,       \* the process a child is connected to
    pq,         \* datagrams waiting at the parent socket: requests, Terminate
    cq,         \* those waiting at the child socket: listeners
    handler,    \* the task that runs parent_handle
    fds,        \* listener_fds: the listener registered for each address
    asking,     \* the address whose dup_parent_listener_sock has the state lock
    ready,      \* the readiness that tokio has noted for the child socket
    got,        \* the listener dup returned for an address, not registered yet
    dups        \* dup_listener_num

config == <<orderly, want>>
fileVars == <<parentFile, childFile>>
child == <<asking, ready, got, dups>>
vars == <<config, st, fileVars, peer, pq, cq, handler, fds, child>>

\* The steps of initialize: unlinkC, bindC, connect, unlinkP, bindP; then child or
\* parent, with handover between the two; exiting after SIGTERM; gone.
States == {"off", "unlinkC", "bindC", "connect", "unlinkP", "bindP", "child",
           "handover", "parent", "exiting", "gone"}

TypeOK ==
    /\ orderly \in BOOLEAN
    /\ want \in Orderly \cup Rival
    /\ st \in [Procs -> States]
    /\ parentFile \in Procs \cup {Nobody} /\ childFile \in Procs \cup {Nobody}
    /\ peer \in [Procs -> Procs \cup {Nobody}]
    /\ pq \in [Procs -> Seq(Addrs \cup {Terminate})]
    /\ cq \in [Procs -> Seq(Addrs)]
    /\ handler \in [Procs -> {"none", "bind", "run", "ended"}]
    /\ fds \in [Procs -> [Addrs -> Addrs \cup {None}]]
    /\ asking \in [Procs -> Addrs \cup {None}]
    /\ ready \in [Procs -> BOOLEAN]
    /\ got \in [Procs -> [Addrs -> Addrs \cup {None}]]
    /\ dups \in [Procs -> 0 .. Cardinality(Addrs)]

Init ==
    /\ orderly \in BOOLEAN
    /\ want \in IF orderly THEN Orderly ELSE Rival
    /\ st = [p \in Procs |-> "off"]
    /\ parentFile = Nobody /\ childFile = Nobody
    /\ peer = [p \in Procs |-> Nobody]
    /\ pq = [p \in Procs |-> <<>>]
    /\ cq = [p \in Procs |-> <<>>]
    /\ handler = [p \in Procs |-> "none"]
    /\ fds = [p \in Procs |-> [a \in Addrs |-> None]]
    /\ asking = [p \in Procs |-> None]
    /\ ready = [p \in Procs |-> FALSE]
    /\ got = [p \in Procs |-> [a \in Addrs |-> None]]
    /\ dups = [p \in Procs |-> 0]

Alive(p) == p # Nobody /\ st[p] \notin {"off", "gone"}

\* A parent socket that takes datagrams: bound, its process alive, not shut down.
Listening(p) == Alive(p) /\ handler[p] = "run"

\* All listeners of the process are registered.
Complete(p) == \A a \in want[p] : fds[p][a] # None

\* And it serves the parent file.
Settled(p) == Complete(p) /\ handler[p] = "run"

\* The process has done what it does by itself: it is settled, or it is a child that
\* has its listeners and has not ended its parent.
Up(p) == Complete(p) /\ (handler[p] = "run" \/ st[p] = "child")

Goto(p, s) == st' = [st EXCEPT ![p] = s]

----------------------------------------------------------------------------
(* HotRestart::initialize *)

\* Somebody starts the next process.
Start(p) ==
    /\ st[p] = "off"
    /\ \A q \in 1 .. p - 1 : st[q] # "off"
    /\ orderly => \A q \in 1 .. p - 1 : Up(q) \/ ~Alive(q)
    /\ Goto(p, "unlinkC")
    /\ UNCHANGED <<config, fileVars, peer, pq, cq, handler, fds, child>>

UnlinkChild(p) ==
    /\ st[p] = "unlinkC"
    /\ childFile' = Nobody
    /\ Goto(p, "bindC")
    /\ UNCHANGED <<config, parentFile, peer, pq, cq, handler, fds, child>>

\* If the name is taken again, initialize goes on as a parent.
BindChild(p) ==
    /\ st[p] = "bindC"
    /\ IF childFile = Nobody
       THEN childFile' = p /\ Goto(p, "connect")
       ELSE Goto(p, "unlinkP") /\ UNCHANGED childFile
    /\ UNCHANGED <<config, parentFile, peer, pq, cq, handler, fds, child>>

\* A process that takes a socket file for a parent.
ConnectParentAnyFile(p) ==
    /\ st[p] = "connect"
    /\ IF parentFile # Nobody
       THEN peer' = [peer EXCEPT ![p] = parentFile] /\ Goto(p, "child")
       ELSE Goto(p, "unlinkP") /\ UNCHANGED peer
    /\ UNCHANGED <<config, fileVars, pq, cq, handler, fds, child>>

\* The role is decided by whether the parent file leads to a live socket.
ConnectParent(p) ==
    /\ st[p] = "connect"
    /\ IF Listening(parentFile)
       THEN peer' = [peer EXCEPT ![p] = parentFile] /\ Goto(p, "child")
       ELSE Goto(p, "unlinkP") /\ UNCHANGED peer
    /\ UNCHANGED <<config, fileVars, pq, cq, handler, fds, child>>

UnlinkParent(p) ==
    /\ st[p] = "unlinkP"
    /\ parentFile' = Nobody
    /\ Goto(p, "bindP")
    /\ UNCHANGED <<config, childFile, peer, pq, cq, handler, fds, child>>

\* If the name is taken again initialize fails, but the state already says parent.
BindParent(p) ==
    /\ st[p] = "bindP"
    /\ Goto(p, "parent")
    /\ IF parentFile = Nobody
       THEN parentFile' = p /\ handler' = [handler EXCEPT ![p] = "run"]
       ELSE UNCHANGED <<parentFile, handler>>
    /\ UNCHANGED <<config, childFile, peer, pq, cq, fds, child>>

----------------------------------------------------------------------------
(* create_tcp_listener_with_max_backlog and dup_parent_listener_sock *)

\* A listener of its own: for a parent, and for a child whose dup failed.
BindOwn(p, a) == fds' = [fds EXCEPT ![p][a] = a]

CreateAsParent(p, a) ==
    /\ st[p] = "parent" /\ fds[p][a] = None /\ got[p][a] = None
    /\ BindOwn(p, a)
    /\ UNCHANGED <<config, st, fileVars, peer, pq, cq, handler, child>>

\* The request goes to whoever has the parent file; the state lock is held until
\* dup returns.
Ask(p, a) ==
    /\ st[p] = "child" /\ asking[p] = None /\ fds[p][a] = None /\ got[p][a] = None
    /\ IF Listening(parentFile)
       THEN /\ pq' = [pq EXCEPT ![parentFile] = Append(@, a)]
            /\ asking' = [asking EXCEPT ![p] = a]
            /\ UNCHANGED fds
       ELSE BindOwn(p, a) /\ UNCHANGED <<pq, asking>>
    /\ UNCHANGED <<config, st, fileVars, peer, cq, handler, ready, got, dups>>

\* readable() returns: at once, if an earlier answer has made the socket readable
\* and no receive has found it empty since.
Readable(p) == st[p] = "child" /\ asking[p] # None /\ ready[p]

\* recv_msg finds no answer yet: WouldBlock ends dup, and the caller binds a
\* listener of its own.  The answer will be there for the next dup.
TooEarly(p) ==
    /\ Readable(p) /\ cq[p] = <<>>
    /\ ready' = [ready EXCEPT ![p] = FALSE]
    /\ asking' = [asking EXCEPT ![p] = None]
    /\ BindOwn(p, asking[p])
    /\ UNCHANGED <<config, st, fileVars, peer, pq, cq, handler, got, dups>>

\* An answer is received and counted: dup goes on to the end of the parent, gives
\* the listener to its caller, or fails.
Received(p, last, sent) ==
    /\ Readable(p) /\ cq[p] # <<>>
    /\ cq' = [cq EXCEPT ![p] = Tail(@)]
    /\ dups' = [dups EXCEPT ![p] = @ + 1]
    /\ IF last /\ ~sent
       THEN BindOwn(p, asking[p]) /\ UNCHANGED got
       ELSE got' = [got EXCEPT ![p][asking[p]] = Head(cq[p])] /\ UNCHANGED fds
    /\ IF last /\ sent
       THEN /\ pq' = [pq EXCEPT ![parentFile] = Append(@, Terminate)]
            /\ Goto(p, "handover")
            /\ UNCHANGED asking
       ELSE asking' = [asking EXCEPT ![p] = None] /\ UNCHANGED <<pq, st>>
    /\ UNCHANGED <<config, fileVars, peer, handler, ready>>

\* A child that ends its parent as soon as it has a listener.
AnswerFirst(p) == Received(p, TRUE, Listening(parentFile))

\* A child that never ends its parent.
AnswerOnly(p) == Received(p, FALSE, Listening(parentFile))

\* The last listener is followed by the request to terminate; if that cannot be
\* sent, dup fails and the caller binds a listener of its own.
Answer(p) == Received(p, dups[p] + 1 = Cardinality(want[p]), Listening(parentFile))

\* After the request to terminate: the state says parent, the parent's file is
\* removed, a task is spawned that binds it anew, and dup returns.
Handover(p) ==
    /\ st[p] = "handover"
    /\ Goto(p, "parent")
    /\ asking' = [asking EXCEPT ![p] = None]
    /\ parentFile' = Nobody
    /\ handler' = [handler EXCEPT ![p] = "bind"]
    /\ UNCHANGED <<config, childFile, peer, pq, cq, fds, ready, got, dups>>

\* The caller of dup registers the listener it got.
Register(p, a) ==
    /\ Alive(p) /\ got[p][a] # None /\ asking[p] # a
    /\ fds' = [fds EXCEPT ![p][a] = got[p][a]]
    /\ got' = [got EXCEPT ![p][a] = None]
    /\ UNCHANGED <<config, st, fileVars, peer, pq, cq, handler, asking, ready, dups>>

\* A round of that task's loop that succeeds.
BindLoop(p) ==
    /\ Alive(p) /\ handler[p] = "bind" /\ parentFile = Nobody
    /\ parentFile' = p
    /\ handler' = [handler EXCEPT ![p] = "run"]
    /\ UNCHANGED <<config, st, childFile, peer, pq, cq, fds, child>>

----------------------------------------------------------------------------
(* HotRestart::parent_handle *)

\* A datagram of the parent reaches the socket behind the child file if that is not
\* connected yet, or connected to this parent.
Reachable(p) ==
    /\ Alive(childFile)
    /\ \/ st[childFile] = "connect"
       \/ st[childFile] = "child" /\ peer[childFile] = p

Deliver(fd) ==
    /\ cq' = [cq EXCEPT ![childFile] = Append(@, fd)]
    /\ ready' = [ready EXCEPT ![childFile] = TRUE]

\* An answer that names whatever listener the parent has.
PassAnyFd(p) ==
    /\ Listening(p) /\ pq[p] # <<>> /\ Head(pq[p]) # Terminate
    /\ pq' = [pq EXCEPT ![p] = Tail(@)]
    /\ Reachable(p) /\ \E a \in Addrs : fds[p][a] # None /\ Deliver(fds[p][a])
    /\ UNCHANGED <<config, st, fileVars, peer, handler, fds, asking, got, dups>>

\* A request for a listener the parent has is answered; one it does not have is
\* ignored; an answer that cannot be sent ends the task.
PassFd(p) ==
    /\ Listening(p) /\ pq[p] # <<>> /\ Head(pq[p]) # Terminate
    /\ pq' = [pq EXCEPT ![p] = Tail(@)]
    /\ LET fd == fds[p][Head(pq[p])]
       IN  CASE fd = None -> UNCHANGED <<cq, ready, handler>>
             [] fd # None /\ Reachable(p) -> Deliver(fd) /\ UNCHANGED handler
             [] OTHER -> handler' = [handler EXCEPT ![p] = "ended"] /\ UNCHANGED <<cq, ready>>
    /\ UNCHANGED <<config, st, fileVars, peer, fds, asking, got, dups>>

\* The socket is shut down and the process sends itself SIGTERM.
Terminated(p) ==
    /\ Listening(p) /\ pq[p] # <<>> /\ Head(pq[p]) = Terminate
    /\ pq' = [pq EXCEPT ![p] = Tail(@)]
    /\ handler' = [handler EXCEPT ![p] = "ended"]
    /\ Goto(p, "exiting")
    /\ UNCHANGED <<config, fileVars, peer, cq, fds, child>>

\* The graceful exit of the server is over: its listeners are closed.
Exit(p) ==
    /\ st[p] = "exiting"
    /\ Goto(p, "gone")
    /\ UNCHANGED <<config, fileVars, peer, pq, cq, handler, fds, child>>

Crash(p) ==
    /\ ~orderly /\ Alive(p)
    /\ Goto(p, "gone")
    /\ UNCHANGED <<config, fileVars, peer, pq, cq, handler, fds, child>>

----------------------------------------------------------------------------

Initialize(p) ==
    UnlinkChild(p) \/ BindChild(p) \/ ConnectParent(p) \/ UnlinkParent(p) \/ BindParent(p)

Create(p) == \E a \in want[p] : CreateAsParent(p, a) \/ Ask(p, a) \/ Register(p, a)

Dup(p) == TooEarly(p) \/ Answer(p) \/ Handover(p)

Next ==
    \E p \in Procs :
        \/ Start(p) \/ Initialize(p) \/ Create(p) \/ Dup(p) \/ BindLoop(p)
        \/ PassFd(p) \/ Terminated(p) \/ Exit(p) \/ Crash(p)

Spec == Init /\ [][Next]_vars

\* The tasks of a process are polled and its graceful exit ends (ThriftServer,
\* ExitEnds).
FairSpec ==
    /\ Spec
    /\ \A p \in Procs :
         /\ WF_vars(Initialize(p) \/ Create(p) \/ Dup(p))
         /\ WF_vars(BindLoop(p) \/ PassFd(p) \/ Terminated(p))
         /\ WF_vars(Exit(p))

----------------------------------------------------------------------------
(* Properties *)

\* A live process has a listener of the address.
Served(a) == \E p \in Procs : Alive(p) /\ \E b \in Addrs : a \in {fds[p][b], got[p][b]}

AtMost(n) == \A p \in Procs : Cardinality(want[p]) <= n

\* The service never stops listening: in orderly restarts an address that every
\* process is configured with and that has a listener keeps one in a live process,
\* through every hand-over.  A parent ends only after its child has counted an answer
\* for each of its listeners, and an answer that came too late is not counted for
\* the listener bound meanwhile.
NoGap ==
    [][orderly => \A a \in Addrs :
           (Served(a) /\ \A p \in Procs : a \in want[p]) => Served(a)']_vars

\* An answer does not say which request it answers and the child file is a mailbox
\* that anybody can take over.  Still the listener a process registers for an address
\* is a listener of that address where at most two processes of at most two listeners
\* were started, in whatever order they run and die, and in orderly restarts of
\* processes of one listener.  It need not be with a third listener, which gets the
\* answer to the request given up in TooEarly, nor with a third process, which gets
\* the answer to a request that an earlier child gave up or did not live to see
\* answered.
RightListener ==
    (\/ Cardinality({p \in Procs : st[p] # "off"}) <= 2 /\ AtMost(2)
     \/ orderly /\ AtMost(1)) =>
        \A p \in Procs, a \in Addrs : fds[p][a] \in {a, None}

\* In orderly restarts a process whose addresses its parent has comes to serve them
\* all, whichever answers come too late.  Where every process has one listener, no
\* answer can be too late, and the hand-over is carried through: the process takes
\* the parent's place and its predecessors go.  (With more, a child that finds one
\* answer missing never ends its parent.)
HandoverEnds ==
    \A p \in Procs :
        (orderly /\ st[p] = "unlinkC" /\ Alive(parentFile) /\ want[p] \subseteq want[parentFile]) ~>
            \/ st[p] \in {"exiting", "gone"}
            \/ /\ Up(p)
               /\ AtMost(1) => /\ Settled(p)
                               /\ \A q \in 1 .. p - 1 : st[q] \in {"exiting", "gone"}

Alone(p) == \A q \in Procs \ {p} : ~Alive(q)

\* The files of processes that died do not keep the next one from starting: a process
\* started when no other is alive comes to serve its addresses and the parent file,
\* wherever in a hand-over the others died, unless another is started meanwhile or
\* it dies too.
RestartRecovers ==
    \A p \in Procs :
        (st[p] = "unlinkC" /\ Alone(p)) ~> (Settled(p) \/ ~Alone(p) \/ st[p] = "gone")
=============================================================================
