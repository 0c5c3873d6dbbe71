----------------------------- MODULE MuxServer -----------------------------
(***************************************************************************)
(* The server side of one multiplexed Thrift connection                    *)
(* (volo-thrift/src/transport/multiplex/server.rs): a read loop that       *)
(* spawns one handler task per request, the handlers, and a writer task    *)
(* that takes responses from one channel and a decode error from another.  *)
(* The server's graceful exit raises exit_mark and later fires the notify. *)
(***************************************************************************)
EXTENDS Integers, Sequences

CONSTANTS
    Calls,       \* the requests the client makes on this connection
    Oneway,      \* those that want no response
    ChannelSize  \* capacity of the response channel

ASSUME MuxServerAssumption ==
    /\ Oneway \subseteq Calls
    /\ ChannelSize \in Nat \ {0}

VARIABLES
    inbox,     \* requests written by the client and not yet decoded
    asked,     \* requests the client has written at some time
    clientEof, \* the client has closed its side
    exitMark,  \* the server is exiting: responses carry a connection reset
    notified,  \* exit_notify has fired
    srv,       \* the read loop: "read" or "returned"
    handler,   \* the handler task of each request
    reset,     \* the connection reset flag of its context
    sendQ,     \* the response channel
    errorQ,    \* the error channel holds the answer to a malformed message
    wtask,     \* the writer task
    enc,       \* the response it is encoding
    failed,    \* an encode has failed
    wire       \* what has been written to the client, in order

vars == <<inbox, asked, clientEof, exitMark, notified, srv, handler, reset,
          sendQ, errorQ, wtask, enc, failed, wire>>

\* The answer to a message that could not be decoded.
ErrorReply == "error"

ASSUME ErrorReplyIsNoCall == ErrorReply \notin Calls

Written == [msg : Calls \cup {ErrorReply}, reset : BOOLEAN]

TypeOK ==
    /\ inbox \subseteq Calls /\ asked \subseteq Calls
    /\ clientEof \in BOOLEAN /\ exitMark \in BOOLEAN /\ notified \in BOOLEAN
    /\ srv \in {"read", "returned"}
    /\ handler \in [Calls -> {"none", "running", "sending", "done"}]
    /\ reset \in [Calls -> BOOLEAN]
    /\ sendQ \in Seq(Calls) /\ Len(sendQ) <= ChannelSize
    /\ errorQ \in BOOLEAN
    /\ wtask \in {"wait", "encode", "returned"}
    /\ enc \in Calls \cup {ErrorReply}
    /\ failed \in BOOLEAN
    /\ wire \in Seq(Written)

Init ==
    /\ inbox = {} /\ asked = {}
    /\ clientEof = FALSE /\ exitMark = FALSE /\ notified = FALSE
    /\ srv = "read"
    /\ handler = [c \in Calls |-> "none"]
    /\ reset = [c \in Calls |-> FALSE]
    /\ sendQ = <<>>
    /\ errorQ = FALSE
    /\ wtask = "wait"
    /\ enc = ErrorReply
    /\ failed = FALSE
    /\ wire = <<>>

clientVars == <<inbox, asked, clientEof>>
exitVars == <<exitMark, notified>>
handlerVars == <<handler, reset>>
writerVars == <<wtask, enc, failed, wire>>

----------------------------------------------------------------------------
(* The client and the server's exit *)

Ask(c) ==
    /\ c \notin asked /\ ~clientEof
    /\ asked' = asked \cup {c}
    /\ inbox' = inbox \cup {c}
    /\ UNCHANGED <<clientEof, exitVars, srv, handlerVars, sendQ, errorQ, writerVars>>

ClientClose ==
    /\ ~clientEof
    /\ clientEof' = TRUE
    /\ UNCHANGED <<inbox, asked, exitVars, srv, handlerVars, sendQ, errorQ, writerVars>>

\* Server::run: exit_mark.store(true).
Mark ==
    /\ ~exitMark
    /\ exitMark' = TRUE
    /\ UNCHANGED <<clientVars, notified, srv, handlerVars, sendQ, errorQ, writerVars>>

\* Server::run: exit_notify.notify_waiters(), after the grace period.
Notify ==
    /\ exitMark /\ ~notified
    /\ notified' = TRUE
    /\ UNCHANGED <<clientVars, exitMark, srv, handlerVars, sendQ, errorQ, writerVars>>

----------------------------------------------------------------------------
(* The read loop *)

\* A request is decoded and its handler spawned.
Decode(c) ==
    /\ srv = "read" /\ c \in inbox
    /\ inbox' = inbox \ {c}
    /\ handler' = [handler EXCEPT ![c] = "running"]
    /\ UNCHANGED <<asked, clientEof, exitVars, srv, reset, sendQ, errorQ, writerVars>>

\* The select takes the notification, or decode reports the end of the stream or
\* a transport error: the loop returns and drops both senders.
Leave ==
    /\ srv = "read"
    /\ notified \/ (clientEof /\ inbox = {})
    /\ srv' = "returned"
    /\ UNCHANGED <<clientVars, exitVars, handlerVars, sendQ, errorQ, writerVars>>

\* decode fails.  Unless the transport failed, the error is put in its channel,
\* which is empty, before the loop returns.
DecodeErr ==
    /\ srv = "read"
    /\ srv' = "returned"
    /\ errorQ' \in BOOLEAN
    /\ UNCHANGED <<clientVars, exitVars, handlerVars, sendQ, writerVars>>

----------------------------------------------------------------------------
(* Handlers *)

\* The service has answered: exit_mark is read, and a request that wants a
\* response goes on to the channel.
Handled(c) ==
    /\ handler[c] = "running"
    /\ reset' = [reset EXCEPT ![c] = exitMark]
    /\ handler' = [handler EXCEPT ![c] = IF c \in Oneway THEN "done" ELSE "sending"]
    /\ UNCHANGED <<clientVars, exitVars, srv, sendQ, errorQ, writerVars>>

\* A send that does not notice that the receiver is gone.
SendOnlyIfRoom(c) ==
    /\ handler[c] = "sending"
    /\ Len(sendQ) < ChannelSize
    /\ sendQ' = Append(sendQ, c)
    /\ handler' = [handler EXCEPT ![c] = "done"]
    /\ UNCHANGED <<clientVars, exitVars, srv, reset, errorQ, writerVars>>

\* send_tx.send().await: waits for room, fails at once when the writer is gone
\* (the response is then lost without notice).
Send(c) ==
    /\ handler[c] = "sending"
    /\ \/ wtask = "returned" /\ UNCHANGED sendQ
       \/ /\ wtask # "returned" /\ Len(sendQ) < ChannelSize
          /\ sendQ' = Append(sendQ, c)
    /\ handler' = [handler EXCEPT ![c] = "done"]
    /\ UNCHANGED <<clientVars, exitVars, srv, reset, errorQ, writerVars>>

----------------------------------------------------------------------------
(* The writer task *)

TakeResponse ==
    /\ wtask = "wait" /\ sendQ # <<>>
    /\ enc' = Head(sendQ)
    /\ sendQ' = Tail(sendQ)
    /\ wtask' = "encode"
    /\ UNCHANGED <<clientVars, exitVars, srv, handlerVars, errorQ, failed, wire>>

TakeError ==
    /\ wtask = "wait" /\ errorQ
    /\ enc' = ErrorReply
    /\ errorQ' = FALSE
    /\ wtask' = "encode"
    /\ UNCHANGED <<clientVars, exitVars, srv, handlerVars, sendQ, failed, wire>>

\* recv gives None once a channel is empty and its last sender is gone.  The read
\* loop has the only sender of errors; handlers have clones of the other one.
ErrorsClosed == srv = "returned" /\ ~errorQ
ResponsesClosed ==
    /\ srv = "returned" /\ sendQ = <<>>
    /\ \A c \in Calls : handler[c] \notin {"running", "sending"}

\* A receiver that reports the end although handlers still have senders.
QuitEarly ==
    /\ wtask = "wait" /\ srv = "returned"
    /\ ErrorsClosed \/ sendQ = <<>>
    /\ wtask' = "returned"
    /\ UNCHANGED <<clientVars, exitVars, srv, handlerVars, sendQ, errorQ, enc, failed, wire>>

\* A writer that goes on after None.
QuitGoesOn ==
    /\ wtask = "wait"
    /\ ErrorsClosed \/ ResponsesClosed
    /\ UNCHANGED vars

\* Either receiver gives None: the writer returns, whatever the other channel
\* holds.  select! is not biased, so a closed response channel may be seen before
\* an error that is queued.
Quit ==
    /\ wtask = "wait"
    /\ ErrorsClosed \/ ResponsesClosed
    /\ wtask' = "returned"
    /\ UNCHANGED <<clientVars, exitVars, srv, handlerVars, sendQ, errorQ, enc, failed, wire>>

EncodedReset == IF enc = ErrorReply THEN TRUE ELSE reset[enc]

\* A writer that goes on after a connection reset.
EncodedAndOn ==
    /\ wtask = "encode"
    /\ wire' = Append(wire, [msg |-> enc, reset |-> EncodedReset])
    /\ wtask' = "wait"
    /\ UNCHANGED <<clientVars, exitVars, srv, handlerVars, sendQ, errorQ, enc, failed>>

\* The message is written; after a connection reset the writer returns.
Encoded ==
    /\ wtask = "encode"
    /\ wire' = Append(wire, [msg |-> enc, reset |-> EncodedReset])
    /\ wtask' = IF EncodedReset THEN "returned" ELSE "wait"
    /\ UNCHANGED <<clientVars, exitVars, srv, handlerVars, sendQ, errorQ, enc, failed>>

EncodeErr ==
    /\ wtask = "encode"
    /\ failed' = TRUE
    /\ wtask' = "returned"
    /\ UNCHANGED <<clientVars, exitVars, srv, handlerVars, sendQ, errorQ, enc, wire>>

WriterStep == TakeResponse \/ TakeError \/ Quit \/ Encoded

----------------------------------------------------------------------------

Next ==
    \/ \E c \in Calls : Ask(c) \/ Decode(c) \/ Handled(c) \/ Send(c)
    \/ ClientClose \/ Mark \/ Notify
    \/ Leave \/ DecodeErr
    \/ WriterStep \/ EncodeErr

Spec == Init /\ [][Next]_vars

\* Tasks that can make progress are polled and the service answers every
\* request.  Encoded in WriterStep assumes a client that drains its socket or
\* closes it: the code has no timeout on a write.  Nothing forces requests, the
\* server's exit or a failure.
FairSpec ==
    /\ Spec
    /\ \A c \in Calls : WF_vars(Decode(c)) /\ WF_vars(Handled(c)) /\ WF_vars(Send(c))
    /\ WF_vars(Leave) /\ WF_vars(WriterStep)

----------------------------------------------------------------------------
(* Properties *)

\* A message that tells the client the connection is reset (a response sent
\* while the server exits, the answer to a malformed message) is the last one:
\* the writer stops with it, whatever handlers still put in the channel.
ResetIsLast == \A i \in 1 .. Len(wire) - 1 : ~wire[i].reset

\* The writer task does not outlive its connection: once the read loop has
\* returned it stops, though handlers still hold senders of its channel, with a
\* client that takes what is written to it.
WriterEnds == (srv = "returned") ~> (wtask = "returned")

\* A handler whose service has answered ends, even when the channel is full and
\* the writer stops meanwhile, with a client that takes what is written to it.
HandlersEnd == \A c \in Calls : handler[c] = "sending" ~> handler[c] = "done"

WrittenCalls == {wire[i].msg : i \in DOMAIN wire}

\* The writer can stop with the answer to a malformed message still queued, but
\* never before the requests decoded ahead of it: then a write has failed, or a
\* connection reset was announced, or every handler has ended and its response
\* is on the wire.
ErrorLostOnlyLast ==
    (wtask = "returned" /\ errorQ) =>
        \/ failed
        \/ \E i \in DOMAIN wire : wire[i].reset
        \/ \A c \in Calls : /\ handler[c] \in {"none", "done"}
                           /\ handler[c] = "done" => c \in Oneway \cup WrittenCalls
=============================================================================
