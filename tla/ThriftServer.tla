---------------------------- MODULE ThriftServer ----------------------------
(***************************************************************************)
(* The life of a Thrift server (volo-thrift/src/server/mod.rs, Server::run *)
(* and handle_conn; transport/pingpong/server.rs): the accept loop, one    *)
(* task per ping-pong connection, and the graceful exit that a signal      *)
(* starts, with the connection counter it waits on.                        *)
(*                                                                         *)
(* Time is abstract: the grace period and each of the one-second sleeps of *)
(* the final wait may end at any moment.                                   *)
(***************************************************************************)
EXTENDS Integers, FiniteSets

CONSTANTS
    Conns,     \* the connections clients may make
    MaxWaits,  \* iterations of the final wait (28 in the code)
    MaxReqs    \* bound on the requests of a connection

ASSUME ThriftServerAssumption ==
    /\ IsFiniteSet(Conns)
    /\ MaxWaits \in Nat /\ MaxReqs \in Nat

VARIABLES
    main,      \* where Server::run is
    acceptor,  \* where the accept loop is
    exitFlag,  \* exit_flag
    exitMark,  \* exit_mark
    notified,  \* notify_waiters has been called
    connCnt,   \* conn_cnt
    waits,     \* iterations of the final wait done so far
    conn,      \* where each connection is
    armed,     \* its Notified was created before notify_waiters
    reset,     \* its current response carries a connection reset
    reqs,      \* requests it has received
    late       \* those received after exit_mark was set

mainVars == <<main, exitFlag, exitMark, notified, waits>>
connVars == <<conn, armed, reset, reqs, late>>
vars == <<mainVars, acceptor, connCnt, connVars>>

\* serving: in the select; failed: run returned an error; hooks: running the
\* shutdown hooks; flag, mark: about to set exit_flag, exit_mark; count: about to
\* read conn_cnt; grace: the sleep of two seconds; notify: about to notify;
\* wait: the final loop; exited: run returned Ok.
MainPCs == {"serving", "failed", "hooks", "flag", "mark", "count", "grace",
            "notify", "wait", "exited"}

\* none: not made; queued: in the listener's backlog; spawned: its task exists;
\* counted: conn_cnt was incremented; read: in the select of serve; handle: the
\* service is running; reply: encoding the response; closed.
ConnPCs == {"none", "queued", "spawned", "counted", "read", "handle", "reply", "closed"}

\* Between the increment of conn_cnt and the deferred decrement.
Live == {"counted", "read", "handle", "reply"}

TypeOK ==
    /\ main \in MainPCs
    /\ acceptor \in {"check", "accept", "ended", "broken"}
    /\ exitFlag \in BOOLEAN /\ exitMark \in BOOLEAN /\ notified \in BOOLEAN
    /\ connCnt \in Nat
    /\ waits \in 0 .. MaxWaits
    /\ conn \in [Conns -> ConnPCs]
    /\ armed \in [Conns -> BOOLEAN]
    /\ reset \in [Conns -> BOOLEAN]
    /\ reqs \in [Conns -> 0 .. MaxReqs]
    /\ late \in [Conns -> 0 .. MaxReqs]

Init ==
    /\ main = "serving"
    /\ acceptor = "check"
    /\ exitFlag = FALSE /\ exitMark = FALSE /\ notified = FALSE
    /\ connCnt = 0
    /\ waits = 0
    /\ conn = [c \in Conns |-> "none"]
    /\ armed = [c \in Conns |-> FALSE]
    /\ reset = [c \in Conns |-> FALSE]
    /\ reqs = [c \in Conns |-> 0]
    /\ late = [c \in Conns |-> 0]

\* The process is still there: tasks end with it once run has returned.
Running == main \notin {"exited", "failed"}

----------------------------------------------------------------------------
(* The accept loop *)

Connect(c) ==
    /\ conn[c] = "none"
    /\ conn' = [conn EXCEPT ![c] = "queued"]
    /\ UNCHANGED <<mainVars, acceptor, connCnt, armed, reset, reqs, late>>

CheckExitFlag ==
    /\ Running /\ acceptor = "check"
    /\ acceptor' = IF exitFlag THEN "ended" ELSE "accept"
    /\ UNCHANGED <<mainVars, connCnt, connVars>>

Accept(c) ==
    /\ Running /\ acceptor = "accept" /\ conn[c] = "queued"
    /\ conn' = [conn EXCEPT ![c] = "spawned"]
    /\ acceptor' = "check"
    /\ UNCHANGED <<mainVars, connCnt, armed, reset, reqs, late>>

\* accept returned Ok(None) or an error.
AcceptEnd ==
    /\ Running /\ acceptor = "accept"
    /\ acceptor' \in {"ended", "broken"}
    /\ UNCHANGED <<mainVars, connCnt, connVars>>

----------------------------------------------------------------------------
(* Server::run *)

\* SIGINT, SIGHUP or SIGTERM; or the accept loop is over.  The loop itself goes
\* on after a signal: only its handle is dropped.
Signal ==
    /\ main = "serving"
    /\ main' = "hooks"
    /\ UNCHANGED <<exitFlag, exitMark, notified, waits, acceptor, connCnt, connVars>>

AcceptOver ==
    /\ main = "serving" /\ acceptor \in {"ended", "broken"}
    /\ main' = IF acceptor = "broken" THEN "failed" ELSE "hooks"
    /\ UNCHANGED <<exitFlag, exitMark, notified, waits, acceptor, connCnt, connVars>>

HooksDone ==
    /\ main = "hooks"
    /\ main' = "flag"
    /\ UNCHANGED <<exitFlag, exitMark, notified, waits, acceptor, connCnt, connVars>>

SetFlag ==
    /\ main = "flag"
    /\ exitFlag' = TRUE
    /\ main' = "mark"
    /\ UNCHANGED <<exitMark, notified, waits, acceptor, connCnt, connVars>>

SetMark ==
    /\ main = "mark"
    /\ exitMark' = TRUE
    /\ main' = "count"
    /\ UNCHANGED <<exitFlag, notified, waits, acceptor, connCnt, connVars>>

\* The grace period is skipped when no connection is counted.
CheckCount ==
    /\ main = "count"
    /\ main' = IF connCnt # 0 THEN "grace" ELSE "notify"
    /\ UNCHANGED <<exitFlag, exitMark, notified, waits, acceptor, connCnt, connVars>>

GraceOver ==
    /\ main = "grace"
    /\ main' = "notify"
    /\ UNCHANGED <<exitFlag, exitMark, notified, waits, acceptor, connCnt, connVars>>

NotifyWaiters ==
    /\ main = "notify"
    /\ notified' = TRUE
    /\ main' = "wait"
    /\ UNCHANGED <<exitFlag, exitMark, waits, acceptor, connCnt, connVars>>

\* A final wait that ends only when the connections have.
WaitForever ==
    /\ main = "wait" /\ connCnt = 0
    /\ main' = "exited"
    /\ UNCHANGED <<exitFlag, exitMark, notified, waits, acceptor, connCnt, connVars>>

\* A final wait that is content with one connection.
WaitAlmost ==
    /\ main = "wait"
    /\ IF connCnt <= 1 \/ waits = MaxWaits
       THEN main' = "exited" /\ UNCHANGED waits
       ELSE waits' = waits + 1 /\ UNCHANGED main
    /\ UNCHANGED <<exitFlag, exitMark, notified, acceptor, connCnt, connVars>>

\* One iteration of the final wait, which leaves early at a count of zero and
\* gives up after the last iteration.
WaitForConns ==
    /\ main = "wait"
    /\ IF connCnt = 0 \/ waits = MaxWaits
       THEN main' = "exited" /\ UNCHANGED waits
       ELSE waits' = waits + 1 /\ UNCHANGED main
    /\ UNCHANGED <<exitFlag, exitMark, notified, acceptor, connCnt, connVars>>

----------------------------------------------------------------------------
(* A connection: handle_conn and pingpong::serve *)

Goto(c, p) == conn' = [conn EXCEPT ![c] = p] /\ UNCHANGED connCnt

\* serve returns and the deferred decrement runs.
Close(c) == conn' = [conn EXCEPT ![c] = "closed"] /\ connCnt' = connCnt - 1

\* The first statement of the task.
Count(c) ==
    /\ Running /\ conn[c] = "spawned"
    /\ conn' = [conn EXCEPT ![c] = "counted"]
    /\ connCnt' = connCnt + 1
    /\ UNCHANGED <<mainVars, acceptor, armed, reset, reqs, late>>

\* exit_notify.notified(): sees every later notify_waiters and no earlier one.
Arm(c) ==
    /\ Running /\ conn[c] = "counted"
    /\ armed' = [armed EXCEPT ![c] = ~notified]
    /\ Goto(c, "read")
    /\ UNCHANGED <<mainVars, acceptor, reset, reqs, late>>

CloseNotified(c) ==
    /\ Running /\ conn[c] = "read" /\ armed[c] /\ notified
    /\ Close(c)
    /\ UNCHANGED <<mainVars, acceptor, armed, reset, reqs, late>>

Receive(c) ==
    /\ Running /\ conn[c] = "read" /\ reqs[c] < MaxReqs
    /\ Goto(c, "handle")
    /\ reqs' = [reqs EXCEPT ![c] = @ + 1]
    /\ late' = [late EXCEPT ![c] = IF exitMark THEN @ + 1 ELSE @]
    /\ UNCHANGED <<mainVars, acceptor, armed, reset>>

\* End of the stream, or a message that cannot be decoded (answered, if the
\* transport works, before the loop breaks).
Hangup(c) ==
    /\ Running /\ conn[c] = "read"
    /\ Close(c)
    /\ UNCHANGED <<mainVars, acceptor, armed, reset, reqs, late>>

\* The service has answered; exit_mark is read after it.
Handled(c) ==
    /\ Running /\ conn[c] = "handle"
    /\ reset' = [reset EXCEPT ![c] = exitMark]
    /\ Goto(c, "reply")
    /\ UNCHANGED <<mainVars, acceptor, armed, reqs, late>>

\* A one-way request has no response: the reset only ends the loop.
HandledOneway(c) ==
    /\ Running /\ conn[c] = "handle"
    /\ reset' = [reset EXCEPT ![c] = exitMark]
    /\ IF exitMark THEN Close(c) ELSE Goto(c, "read")
    /\ UNCHANGED <<mainVars, acceptor, armed, reqs, late>>

\* A connection that stays open after it announced a reset.
RepliedOpen(c) ==
    /\ Running /\ conn[c] = "reply"
    /\ Goto(c, "read")
    /\ UNCHANGED <<mainVars, acceptor, armed, reset, reqs, late>>

\* The response is written: a connection reset ends the loop.
Replied(c) ==
    /\ Running /\ conn[c] = "reply"
    /\ IF reset[c] THEN Close(c) ELSE Goto(c, "read")
    /\ UNCHANGED <<mainVars, acceptor, armed, reset, reqs, late>>

\* An abort that forgets the deferred decrement.
AbortUncounted(c) ==
    /\ Running /\ conn[c] \in {"handle", "reply"}
    /\ Goto(c, "closed")
    /\ UNCHANGED <<mainVars, acceptor, armed, reset, reqs, late>>

\* The service panics, or the response cannot be written.
Abort(c) ==
    /\ Running /\ conn[c] \in {"handle", "reply"}
    /\ Close(c)
    /\ UNCHANGED <<mainVars, acceptor, armed, reset, reqs, late>>

----------------------------------------------------------------------------

MainStep ==
    \/ AcceptOver \/ HooksDone \/ SetFlag \/ SetMark \/ CheckCount \/ GraceOver
    \/ NotifyWaiters \/ WaitForConns

Next ==
    \/ \E c \in Conns :
          \/ Connect(c) \/ Accept(c) \/ Count(c) \/ Arm(c) \/ CloseNotified(c)
          \/ Receive(c) \/ Hangup(c) \/ Handled(c) \/ HandledOneway(c)
          \/ Replied(c) \/ Abort(c)
    \/ CheckExitFlag \/ AcceptEnd
    \/ Signal \/ MainStep

Spec == Init /\ [][Next]_vars

\* run itself is polled, its sleeps end and its hooks return.  Nothing is asked of
\* clients, signals, connections or services.
FairSpec == Spec /\ WF_vars(MainStep)

----------------------------------------------------------------------------
(* Properties *)

\* conn_cnt counts the connections being served, on every way out of serve: the
\* decrement is deferred, so it runs for a panic too.
CountExact == connCnt = Cardinality({c \in Conns : conn[c] \in Live})

\* Once exit_mark is set, a connection receives at most one more request: the
\* response to it carries the reset and ends the loop.
OneLateRequest == \A c \in Conns : late[c] <= 1

\* If run returns before the wait gives up, every connection that was listening
\* for the exit when it was announced has been closed.
NobodyCutOff ==
    (main = "exited" /\ waits < MaxWaits)
        => \A c \in Conns : armed[c] => conn[c] = "closed"

\* A graceful exit ends, however clients behave: the final wait is bounded.
ExitEnds == (main = "hooks") ~> (main = "exited")
=============================================================================
