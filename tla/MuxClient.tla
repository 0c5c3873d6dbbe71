----------------------------- MODULE MuxClient -----------------------------
(***************************************************************************)
(* The client side of one multiplexed Thrift connection                    *)
(* (volo-thrift/src/transport/multiplex/thrift_transport.rs): callers that *)
(* share a write half behind a mutex, the map from sequence ids to the     *)
(* oneshot senders of the calls in flight, and the task that reads         *)
(* responses and completes calls.                                          *)
(*                                                                         *)
(* A call is named by its sequence id, which ClientInner::seq_id hands out *)
(* once per call of a client.  Every call is made at most once.  The body  *)
(* of a critical section on tx_map contains no await and is one step.      *)
(***************************************************************************)
EXTENDS Integers, FiniteSets

CONSTANTS
    Calls,      \* the calls made on this connection
    Oneway,     \* those that are one-way
    Timed       \* those whose Config::rpc_timeout is set

ASSUME MuxClientAssumption ==
    /\ Oneway \subseteq Calls
    /\ Timed \subseteq Calls

None == "none"

ASSUME NoneIsNoCall == None \notin Calls

VARIABLES
    pc,         \* where each call is in ThriftTransport::send
    out,        \* what a finished call returned
    rx,         \* what its oneshot channel holds
    txMap,      \* the calls whose sender is in tx_map
    writer,     \* the call that holds the write_half mutex
    dirty,      \* the AtomicBool of the same name
    writeError, \* likewise
    readError,  \* likewise
    readClosed, \* likewise
    reader,     \* where the read loop is
    got,        \* the response it has decoded
    toServer,   \* the requests written and not yet read by the peer
    torn,       \* a part of a frame ends the request stream
    broken,     \* the socket no longer takes writes
    toClient,   \* the responses on their way back
    peerClosed  \* the peer has closed its side

callVars == <<pc, out, rx>>
flagVars == <<dirty, writeError, readError, readClosed>>
readVars == <<reader, got>>
wireVars == <<toServer, torn, broken, toClient, peerClosed>>
vars == <<callVars, txMap, writer, flagVars, readVars, wireVars>>

\* new: before the checks; insert: waits for tx_map; lock: waits for write_half;
\* write: inside encode; failed: encode has returned an error; unmap: waits for
\* tx_map again; await: in rx.await.
PCs == {"new", "insert", "lock", "write", "failed", "unmap", "await", "done"}

\* reply: Ok(Some(_)); closed: Ok(None) for a call that wanted a reply; sent:
\* Ok(None) for a one-way call; error: Err(_); dropped: the future was dropped.
Outcomes == {None, "reply", "closed", "sent", "error", "dropped"}

Results == {None, "reply", "closed", "error"}

ReaderPCs == {"check", "read", "got", "eof", "fail", "stopped"}

TypeOK ==
    /\ pc \in [Calls -> PCs]
    /\ out \in [Calls -> Outcomes]
    /\ rx \in [Calls -> Results]
    /\ txMap \subseteq Calls
    /\ writer \in Calls \cup {None}
    /\ dirty \in BOOLEAN /\ writeError \in BOOLEAN
    /\ readError \in BOOLEAN /\ readClosed \in BOOLEAN
    /\ reader \in ReaderPCs
    /\ got \in Calls \cup {None}
    /\ toServer \subseteq Calls
    /\ torn \in BOOLEAN /\ broken \in BOOLEAN
    /\ toClient \subseteq Calls
    /\ peerClosed \in BOOLEAN

Init ==
    /\ pc = [c \in Calls |-> "new"]
    /\ out = [c \in Calls |-> None]
    /\ rx = [c \in Calls |-> None]
    /\ txMap = {}
    /\ writer = None
    /\ dirty = FALSE /\ writeError = FALSE
    /\ readError = FALSE /\ readClosed = FALSE
    /\ reader = "check"
    /\ got = None
    /\ toServer = {}
    /\ torn = FALSE /\ broken = FALSE
    /\ toClient = {}
    /\ peerClosed = FALSE

\* Poolable::reusable and try_checkout: what the pool asks before it hands the
\* connection to another call.
Reusable == ~writeError /\ ~readError /\ ~readClosed

Return(c, r) ==
    /\ pc' = [pc EXCEPT ![c] = "done"]
    /\ out' = [out EXCEPT ![c] = r]

----------------------------------------------------------------------------
(* ThriftTransport::send *)

\* The checks at the top of send.  The flags are only ever raised, so reading
\* one after the other is the same as reading both at the first load.
Begin(c) ==
    /\ pc[c] = "new"
    /\ \/ /\ readError \/ readClosed
          /\ Return(c, "error")
       \/ /\ ~readError /\ ~readClosed
          /\ pc' = [pc EXCEPT ![c] = "insert"]
          /\ UNCHANGED out
    /\ UNCHANGED <<rx, txMap, writer, flagVars, readVars, wireVars>>

Insert(c) ==
    /\ pc[c] = "insert"
    /\ txMap' = txMap \cup ({c} \ Oneway)
    /\ pc' = [pc EXCEPT ![c] = "lock"]
    /\ UNCHANGED <<out, rx, writer, flagVars, readVars, wireVars>>

\* A guard that forgets to look at the dirty flag.
StartWriteAnyway(c) ==
    /\ pc[c] = "lock" /\ writer = None
    /\ writer' = c
    /\ dirty' = TRUE
    /\ pc' = [pc EXCEPT ![c] = "write"]
    /\ UNCHANGED <<out, rx, txMap, writeError, readError, readClosed, readVars, wireVars>>

\* The mutex is free and the connection is dirty: the call fails, its entry in
\* tx_map stays.
FindDirty(c) ==
    /\ pc[c] = "lock" /\ writer = None /\ dirty
    /\ writeError' = TRUE
    /\ Return(c, "error")
    /\ UNCHANGED <<rx, txMap, writer, dirty, readError, readClosed, readVars, wireVars>>

StartWrite(c) ==
    /\ pc[c] = "lock" /\ writer = None /\ ~dirty
    /\ writer' = c
    /\ dirty' = TRUE
    /\ pc' = [pc EXCEPT ![c] = "write"]
    /\ UNCHANGED <<out, rx, txMap, writeError, readError, readClosed, readVars, wireVars>>

\* encode and flush succeeded.
WriteOk(c) ==
    /\ pc[c] = "write" /\ ~broken
    /\ toServer' = toServer \cup {c}
    /\ dirty' = FALSE
    /\ writer' = None
    /\ IF c \in Oneway
       THEN Return(c, "sent")
       ELSE pc' = [pc EXCEPT ![c] = "await"] /\ UNCHANGED out
    /\ UNCHANGED <<rx, txMap, writeError, readError, readClosed, readVars,
                   torn, broken, toClient, peerClosed>>

\* encode failed.  Either the message could not be serialised and no byte of it
\* was written, or the socket failed after a part or all of it.
WriteErr(c) ==
    /\ pc[c] = "write"
    /\ dirty' = FALSE
    /\ writer' = None
    /\ pc' = [pc EXCEPT ![c] = "failed"]
    /\ \/ UNCHANGED <<toServer, torn, broken>>
       \/ /\ broken' = TRUE
          /\ \/ UNCHANGED <<toServer, torn>>
             \/ ~broken /\ torn' = TRUE /\ UNCHANGED toServer
             \/ ~broken /\ toServer' = toServer \cup {c} /\ UNCHANGED torn
    /\ UNCHANGED <<out, rx, txMap, writeError, readError, readClosed, readVars,
                   toClient, peerClosed>>

\* After the mutex is released: write_error is raised, a one-way call returns.
RaiseWriteError(c) ==
    /\ pc[c] = "failed"
    /\ writeError' = TRUE
    /\ IF c \in Oneway
       THEN Return(c, "error")
       ELSE pc' = [pc EXCEPT ![c] = "unmap"] /\ UNCHANGED out
    /\ UNCHANGED <<rx, txMap, writer, dirty, readError, readClosed, readVars, wireVars>>

Unmap(c) ==
    /\ pc[c] = "unmap"
    /\ txMap' = txMap \ {c}
    /\ Return(c, "error")
    /\ UNCHANGED <<rx, writer, flagVars, readVars, wireVars>>

\* rx.await completes.
Receive(c) ==
    /\ pc[c] = "await" /\ rx[c] # None
    /\ Return(c, rx[c])
    /\ UNCHANGED <<rx, txMap, writer, flagVars, readVars, wireVars>>

\* The future is dropped at one of its await points: by the caller, or by
\* tokio::time::timeout.  A drop inside encode releases the mutex and leaves the
\* connection dirty, with nothing, a part or all of the frame written.
Drop(c) ==
    /\ pc[c] \in {"insert", "lock", "write", "unmap", "await"}
    /\ Return(c, "dropped")
    /\ \/ /\ pc[c] = "write"
          /\ writer' = None
          /\ \/ UNCHANGED <<toServer, torn>>
             \/ ~broken /\ torn' = TRUE /\ UNCHANGED toServer
             \/ ~broken /\ toServer' = toServer \cup {c} /\ UNCHANGED torn
       \/ /\ pc[c] # "write"
          /\ UNCHANGED <<writer, toServer, torn>>
    /\ UNCHANGED <<rx, txMap, flagVars, readVars, broken, toClient, peerClosed>>

\* A timeout around the write only.
ExpireWrite(c) == c \in Timed /\ pc[c] # "await" /\ Drop(c)

\* The timeout layer: a call is bounded only if the configuration says so.
Expire(c) == c \in Timed /\ Drop(c)

CallStep(c) ==
    \/ Begin(c) \/ Insert(c) \/ FindDirty(c) \/ StartWrite(c) \/ WriteOk(c)
    \/ WriteErr(c) \/ RaiseWriteError(c) \/ Unmap(c) \/ Receive(c)

----------------------------------------------------------------------------
(* The read loop of ThriftTransport::new *)

\* A loop that does not read while a write seems to be under way.
CheckClean ==
    /\ reader = "check" /\ ~dirty
    /\ reader' = IF writeError THEN "stopped" ELSE "read"
    /\ UNCHANGED <<callVars, txMap, writer, flagVars, got, wireVars>>

\* The check at the head of the loop.  On a write error the loop breaks and
\* leaves tx_map as it is.
CheckWriteError ==
    /\ reader = "check"
    /\ reader' = IF writeError THEN "stopped" ELSE "read"
    /\ UNCHANGED <<callVars, txMap, writer, flagVars, got, wireVars>>

\* try_next returns a response.
Decode(c) ==
    /\ reader = "read" /\ c \in toClient
    /\ toClient' = toClient \ {c}
    /\ got' = c
    /\ reader' = "got"
    /\ UNCHANGED <<callVars, txMap, writer, flagVars, toServer, torn, broken, peerClosed>>

\* The response goes to the call with its sequence id; a response nobody waits
\* for is logged.
Deliver ==
    /\ reader = "got"
    /\ rx' = IF got \in txMap THEN [rx EXCEPT ![got] = "reply"] ELSE rx
    /\ txMap' = txMap \ {got}
    /\ got' = None
    /\ reader' = "check"
    /\ UNCHANGED <<pc, out, writer, flagVars, wireVars>>

\* try_next returns Ok(None).
ReadEof ==
    /\ reader = "read" /\ toClient = {} /\ peerClosed
    /\ reader' = "eof"
    /\ UNCHANGED <<callVars, txMap, writer, flagVars, got, wireVars>>

\* try_next returns an error.
ReadFail ==
    /\ reader = "read"
    /\ reader' = "fail"
    /\ UNCHANGED <<callVars, txMap, writer, flagVars, got, wireVars>>

\* tx_map.drain(): every call in flight gets the same result.
Drain(r) ==
    /\ rx' = [c \in Calls |-> IF c \in txMap THEN r ELSE rx[c]]
    /\ txMap' = {}

\* An end of file that is only noted when somebody was waiting.
DrainEofIfWaiting ==
    /\ reader = "eof"
    /\ Drain("closed")
    /\ readError' = (readError \/ txMap # {})
    /\ readClosed' = (readClosed \/ txMap # {})
    /\ reader' = "stopped"
    /\ UNCHANGED <<pc, out, writer, dirty, writeError, got, wireVars>>

\* A drain that clears the map without completing the calls.
DrainFailSilently ==
    /\ reader = "fail"
    /\ txMap' = {}
    /\ readError' = TRUE
    /\ reader' = "stopped"
    /\ UNCHANGED <<callVars, writer, dirty, writeError, readClosed, got, wireVars>>

DrainEof ==
    /\ reader = "eof"
    /\ Drain("closed")
    /\ readError' = (readError \/ txMap # {})
    /\ readClosed' = TRUE
    /\ reader' = "stopped"
    /\ UNCHANGED <<pc, out, writer, dirty, writeError, got, wireVars>>

DrainFail ==
    /\ reader = "fail"
    /\ Drain("error")
    /\ readError' = TRUE
    /\ reader' = "stopped"
    /\ UNCHANGED <<pc, out, writer, dirty, writeError, readClosed, got, wireVars>>

ReaderStep ==
    \/ CheckWriteError \/ Deliver \/ ReadEof \/ DrainEof \/ DrainFail
    \/ \E c \in Calls : Decode(c)

----------------------------------------------------------------------------
(* The peer *)

\* The peer reads a request and, unless it is one-way, answers it.
Answer(c) ==
    /\ c \in toServer /\ ~peerClosed
    /\ toServer' = toServer \ {c}
    /\ toClient' = toClient \cup ({c} \ Oneway)
    /\ UNCHANGED <<callVars, txMap, writer, flagVars, readVars, torn, broken, peerClosed>>

PeerClose ==
    /\ ~peerClosed
    /\ peerClosed' = TRUE
    /\ UNCHANGED <<callVars, txMap, writer, flagVars, readVars, toServer, torn, broken, toClient>>

----------------------------------------------------------------------------

Next ==
    \/ \E c \in Calls : CallStep(c) \/ Drop(c) \/ Answer(c)
    \/ ReaderStep
    \/ ReadFail
    \/ PeerClose

Spec == Init /\ [][Next]_vars

\* The runtime polls a task that can make progress, a timer that is armed fires,
\* and the peer answers what it reads.  Callers need not drop a call, the peer
\* need not close and a read need not fail.
FairSpec ==
    /\ Spec
    /\ \A c \in Calls : WF_vars(CallStep(c)) /\ WF_vars(Expire(c)) /\ WF_vars(Answer(c))
    /\ WF_vars(ReaderStep)

----------------------------------------------------------------------------
(* Properties *)

\* A call in rx.await has its sender in tx_map or its result in the channel: no
\* path of the read loop, the drains included, takes an entry out of tx_map
\* without completing the call.
AwaitCovered == \A c \in Calls : pc[c] = "await" => c \in txMap \/ rx[c] # None

\* Once a frame has been cut short (a call dropped inside encode, a failed
\* write), no later call appends its frame behind it: the peer would read the
\* two as one.  This is what dirty is for.
TornStaysLast == [][torn => toServer' \subseteq toServer]_vars

\* When the read loop has ended, whichever way, the pool no longer hands out the
\* connection: reusable and try_checkout answer false.
StoppedRetired == reader = "stopped" => ~Reusable

\* A call in rx.await returns, or the read loop has stopped: while the loop runs,
\* an answer the peer gives reaches its call.
AnsweredWhileReading == \A c \in Calls : pc[c] = "await" ~> (pc[c] = "done" \/ reader = "stopped")

\* A call with an rpc timeout returns, whatever the connection, the peer and the
\* calls without one do.
TimedCallReturns == \A c \in Timed : pc[c] # "new" ~> pc[c] = "done"

\* Every call that has begun returns.  It would hold of a default client if, as
\* ClientBuilder::rpc_timeout says, "The default value is 1 second";
\* Config::new leaves it None.
CallReturns == \A c \in Calls : pc[c] # "new" ~> pc[c] = "done"
=============================================================================
