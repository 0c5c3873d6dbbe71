-------------------------- MODULE MuxClientProofs --------------------------
(* Proofs about the client side of a multiplexed connection, for any set of   *)
(* calls.                                                                     *)
EXTENDS MuxClient, TLAPS

\* A call that wants a reply and has passed Insert is covered until it returns:
\* its sender is in tx_map, or its channel has a result.
Covered ==
    \A c \in Calls \ Oneway :
        pc[c] \in {"lock", "write", "failed", "unmap", "await"} => c \in txMap \/ rx[c] # None

\* One-way calls never wait for a reply.
OnewayNeverWaits == \A c \in Oneway : pc[c] \notin {"await", "unmap"}

\* The call inside encode is the one that holds the mutex, and the connection is
\* dirty for as long as it does.
WriterInv ==
    /\ \A c \in Calls : pc[c] = "write" <=> writer = c
    /\ writer # None => dirty

\* A frame cut short leaves the connection dirty with nobody writing, or the
\* socket broken.
TornInv == torn => broken \/ (dirty /\ writer = None)

CallInv == TypeOK /\ Covered /\ OnewayNeverWaits /\ WriterInv /\ TornInv

\* The initial state satisfies the invariant.
LEMMA MuxInit == Init => CallInv
<1> SUFFICES ASSUME Init PROVE CallInv
  OBVIOUS
<1> USE MuxClientAssumption, NoneIsNoCall DEF Init
<1>1. TypeOK
  BY DEF TypeOK, PCs, Outcomes, Results, ReaderPCs
<1>2. Covered /\ OnewayNeverWaits
  BY DEF Covered, OnewayNeverWaits
<1>3. WriterInv
  BY DEF WriterInv
<1>4. TornInv
  BY DEF TornInv
<1>5. QED
  BY <1>1, <1>2, <1>3, <1>4 DEF CallInv

\* Every step preserves it.
LEMMA MuxStep == CallInv /\ [Next]_vars => CallInv'
<1> SUFFICES ASSUME CallInv, [Next]_vars PROVE CallInv'
  OBVIOUS
<1> USE MuxClientAssumption, NoneIsNoCall
<1> USE DEF CallInv, TypeOK, Covered, OnewayNeverWaits, WriterInv, TornInv, PCs, Outcomes,
        Results, ReaderPCs, callVars, flagVars, readVars, wireVars, Return
<1>1. ASSUME NEW c \in Calls, Begin(c) PROVE CallInv'
  BY <1>1 DEF Begin
<1>2. ASSUME NEW c \in Calls, Insert(c) PROVE CallInv'
  BY <1>2 DEF Insert
<1>3. ASSUME NEW c \in Calls, FindDirty(c) PROVE CallInv'
  BY <1>3 DEF FindDirty
<1>4. ASSUME NEW c \in Calls, StartWrite(c) PROVE CallInv'
  BY <1>4 DEF StartWrite
<1>5. ASSUME NEW c \in Calls, WriteOk(c) PROVE CallInv'
  <2>1. /\ pc[c] = "write" /\ writer = c /\ ~broken
        /\ dirty' = FALSE /\ writer' = None /\ toServer' = toServer \cup {c}
        /\ UNCHANGED <<rx, txMap, writeError, readError, readClosed, readVars, torn, broken,
                       toClient, peerClosed>>
    BY <1>5 DEF WriteOk
  <2>2. ~torn
    BY <2>1
  <2>3. TornInv'
    BY <2>1, <2>2
  <2>4. CASE c \in Oneway
    <3>1. pc' = [pc EXCEPT ![c] = "done"] /\ out' = [out EXCEPT ![c] = "sent"]
      BY <1>5, <2>4 DEF WriteOk
    <3>2. TypeOK'
      BY <2>1, <3>1
    <3>3. WriterInv'
      BY <2>1, <3>1
    <3>4. Covered' /\ OnewayNeverWaits'
      BY <2>1, <2>4, <3>1
    <3>5. QED
      BY <2>3, <3>2, <3>3, <3>4
  <2>5. CASE c \notin Oneway
    <3>1. pc' = [pc EXCEPT ![c] = "await"] /\ UNCHANGED out
      BY <1>5, <2>5 DEF WriteOk
    <3>2. TypeOK'
      BY <2>1, <3>1
    <3>3. WriterInv'
      BY <2>1, <3>1
    <3>4. Covered' /\ OnewayNeverWaits'
      BY <2>1, <2>5, <3>1
    <3>5. QED
      BY <2>3, <3>2, <3>3, <3>4
  <2>6. QED
    BY <2>4, <2>5
<1>6. ASSUME NEW c \in Calls, WriteErr(c) PROVE CallInv'
  <2>1. pc' = [pc EXCEPT ![c] = "failed"] /\ dirty' = FALSE /\ writer' = None /\ writer = c
    BY <1>6 DEF WriteErr
  <2>2. TornInv'
    BY <1>6, <2>1 DEF WriteErr
  <2>3. toServer' \subseteq Calls /\ torn' \in BOOLEAN /\ broken' \in BOOLEAN
    BY <1>6 DEF WriteErr
  <2>4. UNCHANGED <<out, rx, txMap, writeError, readError, readClosed, readVars,
                    toClient, peerClosed>>
    BY <1>6 DEF WriteErr
  <2>5. TypeOK'
    BY <2>1, <2>3, <2>4
  <2>6. WriterInv'
    BY <2>1
  <2>7. Covered' /\ OnewayNeverWaits'
    BY <1>6, <2>1, <2>4 DEF WriteErr
  <2>8. QED
    BY <2>2, <2>5, <2>6, <2>7
<1>7. ASSUME NEW c \in Calls, RaiseWriteError(c) PROVE CallInv'
  BY <1>7 DEF RaiseWriteError
<1>8. ASSUME NEW c \in Calls, Unmap(c) PROVE CallInv'
  BY <1>8 DEF Unmap
<1>9. ASSUME NEW c \in Calls, Receive(c) PROVE CallInv'
  BY <1>9 DEF Receive
<1>10. ASSUME NEW c \in Calls, Drop(c) PROVE CallInv'
  <2>1. pc' = [pc EXCEPT ![c] = "done"] /\ out' = [out EXCEPT ![c] = "dropped"]
    BY <1>10 DEF Drop
  <2>2. /\ toServer' \subseteq Calls /\ torn' \in BOOLEAN
        /\ writer' = (IF pc[c] = "write" THEN None ELSE writer)
        /\ torn' => torn \/ pc[c] = "write"
    <3>1. CASE pc[c] = "write"
      BY <1>10, <3>1 DEF Drop
    <3>2. CASE pc[c] # "write"
      BY <1>10, <3>2 DEF Drop
    <3>3. QED
      BY <3>1, <3>2
  <2>3. UNCHANGED <<rx, txMap, flagVars, readVars, broken, toClient, peerClosed>>
    BY <1>10 DEF Drop
  <2>4. WriterInv' /\ TornInv'
    BY <2>1, <2>2, <2>3
  <2>5. QED
    BY <2>1, <2>2, <2>3, <2>4
<1>11. ASSUME NEW c \in Calls, Answer(c) PROVE CallInv'
  BY <1>11 DEF Answer
<1>12. ASSUME NEW c \in Calls, Decode(c) PROVE CallInv'
  BY <1>12 DEF Decode
<1>13. CASE CheckWriteError
  BY <1>13 DEF CheckWriteError
<1>14. CASE Deliver
  BY <1>14 DEF Deliver, None
<1>15. CASE ReadEof
  BY <1>15 DEF ReadEof
<1>16. CASE ReadFail
  BY <1>16 DEF ReadFail
<1>17. CASE DrainEof
  BY <1>17 DEF DrainEof, Drain, None
<1>18. CASE DrainFail
  BY <1>18 DEF DrainFail, Drain, None
<1>19. CASE PeerClose
  BY <1>19 DEF PeerClose
<1>20. CASE UNCHANGED vars
  BY <1>20 DEF vars
<1> HIDE DEF CallInv
<1>21. QED
  BY <1>1, <1>2, <1>3, <1>4, <1>5, <1>6, <1>7, <1>8, <1>9, <1>10, <1>11, <1>12, <1>13, <1>14,
     <1>15, <1>16, <1>17, <1>18, <1>19, <1>20
  DEF Next, CallStep, ReaderStep

\* The invariant of the calls holds always.
LEMMA MuxInvariant == Spec => []CallInv
<1>1. Init => CallInv
  BY MuxInit
<1>2. CallInv /\ [Next]_vars => CallInv'
  BY MuxStep
<1>3. QED
  BY <1>1, <1>2, PTL DEF Spec

\* Type correctness of the client side of a multiplexed connection.
THEOREM MuxTypeCorrect == Spec => []TypeOK
<1>1. CallInv => TypeOK
  BY DEF CallInv
<1>2. QED
  BY <1>1, MuxInvariant, PTL

\* A call in rx.await is never forgotten by tx_map: its sender is there or its
\* result is in the channel.  Needs Covered, which follows the call from the
\* insertion on.
THEOREM AwaitsCovered == Spec => []AwaitCovered
<1>1. CallInv => AwaitCovered
  BY DEF CallInv, Covered, OnewayNeverWaits, AwaitCovered
<1>2. QED
  BY <1>1, MuxInvariant, PTL

\* No frame is appended behind a frame that was cut short: whoever is inside
\* encode holds the mutex, and only entered it when the connection was not dirty.
THEOREM TornStreamStaysTorn == Spec => TornStaysLast
<1>1. ASSUME CallInv, [Next]_vars, torn PROVE toServer' \subseteq toServer
  <2> USE <1>1, NoneIsNoCall DEF CallInv, WriterInv, TornInv, TypeOK
  <2>1. ASSUME NEW c \in Calls, pc[c] = "write" PROVE broken
    BY <2>1
  <2>2. ASSUME NEW c \in Calls, WriteOk(c) PROVE FALSE
    BY <2>1, <2>2 DEF WriteOk
  <2>3. ASSUME NEW c \in Calls, WriteErr(c) PROVE toServer' = toServer
    BY <2>1, <2>3 DEF WriteErr
  <2>4. ASSUME NEW c \in Calls, Drop(c) PROVE toServer' = toServer
    BY <2>1, <2>4 DEF Drop
  <2>5. ASSUME NEW c \in Calls, Answer(c) PROVE toServer' \subseteq toServer
    BY <2>5 DEF Answer
  <2>6. QED
    BY <2>2, <2>3, <2>4, <2>5
    DEF Next, CallStep, ReaderStep, vars, wireVars, Begin, Insert, FindDirty, StartWrite,
        RaiseWriteError, Unmap, Receive, CheckWriteError, Decode, Deliver, ReadEof, ReadFail,
        DrainEof, DrainFail, PeerClose
<1>2. CallInv /\ [Next]_vars => [torn => toServer' \subseteq toServer]_vars
  BY <1>1
<1>3. QED
  BY <1>2, MuxInvariant, PTL DEF Spec, TornStaysLast

\* A connection whose read loop has ended is out of the pool's reach: each of the
\* three ways out leaves one of the flags raised, and no step lowers a flag.
THEOREM StoppedIsRetired == Spec => []StoppedRetired
<1>1. Init => StoppedRetired
  BY DEF Init, StoppedRetired
<1>2. ASSUME TypeOK, StoppedRetired, [Next]_vars PROVE StoppedRetired'
  <2> USE <1>2 DEF StoppedRetired, Reusable, TypeOK
  <2>1. writeError => writeError'
    BY DEF Next, CallStep, ReaderStep, vars, flagVars, Begin, Insert, FindDirty, StartWrite,
       WriteOk, WriteErr, RaiseWriteError, Unmap, Receive, Drop, Answer, CheckWriteError, Decode,
       Deliver, ReadEof, ReadFail, DrainEof, DrainFail, PeerClose
  <2>2. readError => readError'
    BY DEF Next, CallStep, ReaderStep, vars, flagVars, Begin, Insert, FindDirty, StartWrite,
       WriteOk, WriteErr, RaiseWriteError, Unmap, Receive, Drop, Answer, CheckWriteError, Decode,
       Deliver, ReadEof, ReadFail, DrainEof, DrainFail, PeerClose
  <2>3. readClosed => readClosed'
    BY DEF Next, CallStep, ReaderStep, vars, flagVars, Begin, Insert, FindDirty, StartWrite,
       WriteOk, WriteErr, RaiseWriteError, Unmap, Receive, Drop, Answer, CheckWriteError, Decode,
       Deliver, ReadEof, ReadFail, DrainEof, DrainFail, PeerClose
  <2>4. reader' = "stopped" => reader = "stopped" \/ writeError' \/ readError' \/ readClosed'
    BY DEF Next, CallStep, ReaderStep, vars, readVars, flagVars, Begin, Insert, FindDirty,
       StartWrite, WriteOk, WriteErr, RaiseWriteError, Unmap, Receive, Drop, Answer,
       CheckWriteError, Decode, Deliver, ReadEof, ReadFail, DrainEof, DrainFail, PeerClose
  <2>5. QED
    BY <2>1, <2>2, <2>3, <2>4
<1>3. QED
  BY <1>1, <1>2, MuxTypeCorrect, PTL DEF Spec
=============================================================================
