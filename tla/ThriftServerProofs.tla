------------------------- MODULE ThriftServerProofs -------------------------
(* Proofs about the accept loop, the connections and the graceful exit of a   *)
(* Thrift server, for any finite set of connections and any length of the     *)
(* final wait.                                                                *)
EXTENDS ThriftServer, FiniteSetTheorems, TLAPS

\* The connections between the increment and the decrement of conn_cnt.
Served(f) == {c \in Conns : f[c] \in Live}

\* A connection that has created its Notified has been counted.
ArmedInv == \A c \in Conns : armed[c] => conn[c] \in {"read", "handle", "reply", "closed"}

\* Requests are late only when exit_mark is set, and the connection that got one
\* is on its way out.
LateInv ==
    \A c \in Conns :
        /\ late[c] <= 1
        /\ late[c] = 1 =>
             /\ exitMark
             /\ conn[c] \in {"handle", "reply", "closed"}
             /\ conn[c] = "reply" => reset[c]

ServerInv == TypeOK /\ CountExact /\ ArmedInv /\ LateInv /\ NobodyCutOff

\* A served connection is counted: the counter is positive when there is one and
\* the set is empty when the counter is zero.
LEMMA CountLemma ==
    ASSUME NEW f \in [Conns -> ConnPCs]
    PROVE  /\ IsFiniteSet(Served(f))
           /\ Cardinality(Served(f)) \in Nat
           /\ Cardinality(Served(f)) = 0 => Served(f) = {}
<1>1. IsFiniteSet(Served(f))
  BY ThriftServerAssumption, FS_Subset DEF Served
<1>2. QED
  BY <1>1, FS_CardinalityType, FS_EmptySet

\* Moving one connection between states that are both counted, or both not,
\* keeps the number.
LEMMA MoveLemma ==
    ASSUME NEW f \in [Conns -> ConnPCs], NEW c \in Conns, NEW p \in ConnPCs,
           f[c] \in Live <=> p \in Live
    PROVE  Served([f EXCEPT ![c] = p]) = Served(f)
BY DEF Served

\* A connection enters the count.
LEMMA EnterLemma ==
    ASSUME NEW f \in [Conns -> ConnPCs], NEW c \in Conns, NEW p \in ConnPCs,
           f[c] \notin Live, p \in Live
    PROVE  Cardinality(Served([f EXCEPT ![c] = p])) = Cardinality(Served(f)) + 1
<1>1. Served([f EXCEPT ![c] = p]) = Served(f) \cup {c} /\ c \notin Served(f)
  BY DEF Served
<1>2. IsFiniteSet(Served(f))
  BY CountLemma
<1> DEFINE S == Served(f)
<1>3. c \notin S => Cardinality(S \cup {c}) = Cardinality(S) + 1
  <2> HIDE DEF S
  <2>1. IsFiniteSet(S) /\ c \notin S => Cardinality(S \cup {c}) = Cardinality(S) + 1
    BY FS_AddElement
  <2> QED BY <1>2, <2>1 DEF S
<1>4. QED
  BY <1>1, <1>3

\* A connection leaves the count.
LEMMA LeaveLemma ==
    ASSUME NEW f \in [Conns -> ConnPCs], NEW c \in Conns, NEW p \in ConnPCs,
           f[c] \in Live, p \notin Live
    PROVE  /\ Cardinality(Served([f EXCEPT ![c] = p])) = Cardinality(Served(f)) - 1
           /\ Cardinality(Served(f)) # 0
<1>1. Served([f EXCEPT ![c] = p]) = Served(f) \ {c} /\ c \in Served(f)
  BY DEF Served
<1>2. QED
  BY <1>1, CountLemma, FS_RemoveElement

\* The number in CountExact is the one the lemmas speak of.
LEMMA CountExactServed == CountExact <=> connCnt = Cardinality(Served(conn))
BY DEF CountExact, Served

\* Moving a connection without touching the counter keeps the count exact.
LEMMA GotoCount ==
    ASSUME TypeOK, CountExact, NEW c \in Conns, NEW p \in ConnPCs, Goto(c, p),
           conn[c] \in Live <=> p \in Live
    PROVE  CountExact' /\ conn' \in [Conns -> ConnPCs] /\ connCnt' \in Nat
<1>1. Served(conn') = Served(conn)
  BY MoveLemma DEF Goto, TypeOK
<1>2. QED
  BY <1>1, CountExactServed DEF Goto, TypeOK, CountExact, Served

\* Closing a served connection keeps it exact, and the counter natural.
LEMMA CloseCount ==
    ASSUME TypeOK, CountExact, NEW c \in Conns, Close(c), conn[c] \in Live
    PROVE  CountExact' /\ conn' \in [Conns -> ConnPCs] /\ connCnt' \in Nat
<1>1. conn \in [Conns -> ConnPCs] /\ "closed" \in ConnPCs /\ "closed" \notin Live
  BY DEF TypeOK, ConnPCs, Live
<1>2. Cardinality(Served(conn')) = Cardinality(Served(conn)) - 1 /\ Cardinality(Served(conn)) # 0
  BY <1>1, LeaveLemma DEF Close
<1>3. Cardinality(Served(conn)) \in Nat
  BY <1>1, CountLemma
<1>4. CountExact'
  BY <1>2, CountExactServed DEF Close, CountExact, Served
<1>5. QED
  BY <1>1, <1>2, <1>3, <1>4, CountExactServed DEF Close

\* A step of a connection while run has not returned leaves NobodyCutOff true.
LEMMA RunningNotExited ==
    ASSUME Running, main' = main, waits' = waits PROVE NobodyCutOff'
BY DEF Running, NobodyCutOff

\* The invariant holds initially.
LEMMA ServerInit == Init => ServerInv
<1> SUFFICES ASSUME Init PROVE ServerInv
  OBVIOUS
<1>1. TypeOK
  <2>1. 0 \in 0 .. MaxReqs /\ 0 \in 0 .. MaxWaits
    BY ThriftServerAssumption
  <2>2. QED
    BY <2>1 DEF Init, TypeOK, MainPCs, ConnPCs
<1>2. Served(conn) = {}
  BY DEF Init, Served, Live
<1>3. CountExact
  BY <1>2, FS_EmptySet, CountExactServed DEF Init
<1>4. ArmedInv /\ LateInv /\ NobodyCutOff
  BY DEF Init, ArmedInv, LateInv, NobodyCutOff
<1>5. QED
  BY <1>1, <1>3, <1>4 DEF ServerInv

\* The steps of a connection's task preserve it.
LEMMA ConnStep ==
    ASSUME ServerInv, NEW c \in Conns,
           \/ Count(c) \/ Arm(c) \/ CloseNotified(c) \/ Receive(c) \/ Hangup(c)
           \/ Handled(c) \/ HandledOneway(c) \/ Replied(c) \/ Abort(c)
    PROVE  ServerInv'
<1> USE ThriftServerAssumption DEF ServerInv, ArmedInv, LateInv, mainVars
<1>1. CASE Count(c)
  <2>1. /\ conn \in [Conns -> ConnPCs] /\ conn' = [conn EXCEPT ![c] = "counted"]
        /\ connCnt' = connCnt + 1 /\ connCnt = Cardinality(Served(conn))
    BY <1>1, CountExactServed DEF Count, TypeOK
  <2>2. Cardinality(Served(conn')) = Cardinality(Served(conn)) + 1
    <3>1. conn[c] \notin Live /\ "counted" \in Live /\ "counted" \in ConnPCs
      BY <1>1 DEF Count, Live, ConnPCs
    <3>2. QED
      BY <2>1, <3>1, EnterLemma
  <2>3. CountExact'
    BY <2>1, <2>2 DEF CountExact, Served
  <2>4. TypeOK'
    <3>1. conn' \in [Conns -> ConnPCs] /\ connCnt' \in Nat
      BY <2>1 DEF TypeOK, ConnPCs
    <3>2. QED
      BY <1>1, <3>1 DEF Count, TypeOK
  <2>5. ArmedInv' /\ LateInv'
    <3>1. ~armed[c] /\ late[c] # 1
      BY <1>1 DEF Count
    <3>2. ASSUME NEW d \in Conns PROVE d # c => conn'[d] = conn[d]
      BY <2>1
    <3>3. QED
      BY <1>1, <2>1, <3>1, <3>2 DEF Count, TypeOK
  <2>6. NobodyCutOff'
    BY <1>1, RunningNotExited DEF Count
  <2>7. QED
    BY <2>3, <2>4, <2>5, <2>6
<1>2. CASE Arm(c)
  <2>1. CountExact' /\ conn' \in [Conns -> ConnPCs] /\ connCnt' \in Nat
    BY <1>2, GotoCount DEF Arm, Live, ConnPCs
  <2>2. TypeOK'
    BY <1>2, <2>1 DEF Arm, TypeOK
  <2>3. ArmedInv' /\ LateInv'
    BY <1>2 DEF Arm, TypeOK, Goto, Close
  <2>4. NobodyCutOff'
    BY <1>2, RunningNotExited DEF Arm
  <2>5. QED
    BY <2>1, <2>2, <2>3, <2>4
<1>3. CASE CloseNotified(c)
  <2>1. CountExact' /\ conn' \in [Conns -> ConnPCs] /\ connCnt' \in Nat
    BY <1>3, CloseCount DEF CloseNotified, Live
  <2>2. TypeOK'
    BY <1>3, <2>1 DEF CloseNotified, TypeOK
  <2>3. ArmedInv' /\ LateInv'
    BY <1>3 DEF CloseNotified, TypeOK, Goto, Close
  <2>4. NobodyCutOff'
    BY <1>3, RunningNotExited DEF CloseNotified
  <2>5. QED
    BY <2>1, <2>2, <2>3, <2>4
<1>4. CASE Receive(c)
  <2>1. CountExact' /\ conn' \in [Conns -> ConnPCs] /\ connCnt' \in Nat
    BY <1>4, GotoCount DEF Receive, Live, ConnPCs
  <2>2. TypeOK'
    <3>1. late[c] = 0 /\ reqs[c] + 1 \in 0 .. MaxReqs /\ 1 \in 0 .. MaxReqs
      BY <1>4 DEF Receive, TypeOK
    <3>2. reqs' \in [Conns -> 0 .. MaxReqs] /\ late' \in [Conns -> 0 .. MaxReqs]
      BY <1>4, <3>1 DEF Receive, TypeOK
    <3>3. QED
      BY <1>4, <2>1, <3>2 DEF Receive, TypeOK
  <2>3. ArmedInv' /\ LateInv'
    BY <1>4 DEF Receive, TypeOK, Goto, Close
  <2>4. NobodyCutOff'
    BY <1>4, RunningNotExited DEF Receive
  <2>5. QED
    BY <2>1, <2>2, <2>3, <2>4
<1>5. CASE Hangup(c)
  <2>1. CountExact' /\ conn' \in [Conns -> ConnPCs] /\ connCnt' \in Nat
    BY <1>5, CloseCount DEF Hangup, Live
  <2>2. TypeOK'
    BY <1>5, <2>1 DEF Hangup, TypeOK
  <2>3. ArmedInv' /\ LateInv'
    BY <1>5 DEF Hangup, TypeOK, Goto, Close
  <2>4. NobodyCutOff'
    BY <1>5, RunningNotExited DEF Hangup
  <2>5. QED
    BY <2>1, <2>2, <2>3, <2>4
<1>6. CASE Handled(c)
  <2>1. CountExact' /\ conn' \in [Conns -> ConnPCs] /\ connCnt' \in Nat
    BY <1>6, GotoCount DEF Handled, Live, ConnPCs
  <2>2. TypeOK'
    BY <1>6, <2>1 DEF Handled, TypeOK
  <2>3. ArmedInv' /\ LateInv'
    BY <1>6 DEF Handled, TypeOK, Goto, Close
  <2>4. NobodyCutOff'
    BY <1>6, RunningNotExited DEF Handled
  <2>5. QED
    BY <2>1, <2>2, <2>3, <2>4
<1>7. CASE HandledOneway(c)
  <2>1. CountExact' /\ conn' \in [Conns -> ConnPCs] /\ connCnt' \in Nat
    <3>1. CASE exitMark
      BY <1>7, <3>1, CloseCount DEF HandledOneway, Live
    <3>2. CASE ~exitMark
      BY <1>7, <3>2, GotoCount DEF HandledOneway, Live, ConnPCs
    <3>3. QED
      BY <3>1, <3>2
  <2>2. TypeOK'
    BY <1>7, <2>1 DEF HandledOneway, TypeOK
  <2>3. ArmedInv' /\ LateInv'
    BY <1>7 DEF HandledOneway, TypeOK, Goto, Close
  <2>4. NobodyCutOff'
    BY <1>7, RunningNotExited DEF HandledOneway
  <2>5. QED
    BY <2>1, <2>2, <2>3, <2>4
<1>8. CASE Replied(c)
  <2>1. CountExact' /\ conn' \in [Conns -> ConnPCs] /\ connCnt' \in Nat
    <3>1. CASE reset[c]
      BY <1>8, <3>1, CloseCount DEF Replied, Live
    <3>2. CASE ~reset[c]
      BY <1>8, <3>2, GotoCount DEF Replied, Live, ConnPCs
    <3>3. QED
      BY <3>1, <3>2
  <2>2. TypeOK'
    BY <1>8, <2>1 DEF Replied, TypeOK
  <2>3. ArmedInv' /\ LateInv'
    BY <1>8 DEF Replied, TypeOK, Goto, Close
  <2>4. NobodyCutOff'
    BY <1>8, RunningNotExited DEF Replied
  <2>5. QED
    BY <2>1, <2>2, <2>3, <2>4
<1>9. CASE Abort(c)
  <2>1. CountExact' /\ conn' \in [Conns -> ConnPCs] /\ connCnt' \in Nat
    BY <1>9, CloseCount DEF Abort, Live
  <2>2. TypeOK'
    BY <1>9, <2>1 DEF Abort, TypeOK
  <2>3. ArmedInv' /\ LateInv'
    BY <1>9 DEF Abort, TypeOK, Goto, Close
  <2>4. NobodyCutOff'
    BY <1>9, RunningNotExited DEF Abort
  <2>5. QED
    BY <2>1, <2>2, <2>3, <2>4
<1>10. QED
  BY <1>1, <1>2, <1>3, <1>4, <1>5, <1>6, <1>7, <1>8, <1>9

\* So do the steps of the clients and the accept loop.
LEMMA AcceptStep ==
    ASSUME ServerInv,
           \/ \E c \in Conns : Connect(c) \/ Accept(c)
           \/ CheckExitFlag \/ AcceptEnd
    PROVE  ServerInv'
<1> USE DEF ServerInv, ArmedInv, LateInv, mainVars, connVars
<1>1. ASSUME NEW c \in Conns, Connect(c) \/ Accept(c) PROVE ServerInv'
  <2>1. \E p \in ConnPCs \ Live : Goto(c, p) /\ conn[c] \notin Live
    BY <1>1 DEF Connect, Accept, Goto, ConnPCs, Live
  <2>2. CountExact' /\ conn' \in [Conns -> ConnPCs] /\ connCnt' \in Nat
    BY <2>1, GotoCount
  <2>3. TypeOK'
    BY <1>1, <2>2 DEF Connect, Accept, TypeOK
  <2>4. ArmedInv' /\ LateInv' /\ NobodyCutOff'
    BY <1>1 DEF Connect, Accept, TypeOK, NobodyCutOff
  <2>5. QED
    BY <2>2, <2>3, <2>4
<1>2. CASE CheckExitFlag \/ AcceptEnd
  BY <1>2 DEF CheckExitFlag, AcceptEnd, TypeOK, CountExact, NobodyCutOff
<1>3. QED
  BY <1>1, <1>2

\* So do the steps of run.  The one that matters is the end of the final wait: it
\* leaves early only when the count is zero, so nothing is being served.
LEMMA RunStep ==
    ASSUME ServerInv, Signal \/ MainStep PROVE ServerInv'
<1> USE ThriftServerAssumption DEF ServerInv, ArmedInv, LateInv, connVars, MainPCs
<1>1. CASE WaitForConns
  <2>1. TypeOK' /\ CountExact' /\ ArmedInv' /\ LateInv'
    BY <1>1 DEF WaitForConns, TypeOK, CountExact
  <2>2. ASSUME connCnt = 0 PROVE \A c \in Conns : armed[c] => conn[c] = "closed"
    <3>1. Served(conn) = {}
      BY <2>2, CountLemma, CountExactServed DEF TypeOK
    <3>2. QED
      BY <3>1 DEF Served, Live
  <2>3. NobodyCutOff'
    BY <1>1, <2>2 DEF WaitForConns, NobodyCutOff, TypeOK
  <2>4. QED
    BY <2>1, <2>3
<1>2. CASE Signal \/ AcceptOver \/ HooksDone \/ SetFlag \/ SetMark
  BY <1>2 DEF Signal, AcceptOver, HooksDone, SetFlag, SetMark, TypeOK, CountExact, NobodyCutOff
<1>3. CASE CheckCount \/ GraceOver \/ NotifyWaiters
  BY <1>3 DEF CheckCount, GraceOver, NotifyWaiters, TypeOK, CountExact, NobodyCutOff
<1>4. QED
  BY <1>1, <1>2, <1>3 DEF MainStep

\* The invariant holds always.
LEMMA ServerInvariant == Spec => []ServerInv
<1>1. Init => ServerInv
  BY ServerInit
<1>2. ServerInv /\ [Next]_vars => ServerInv'
  <2> SUFFICES ASSUME ServerInv, [Next]_vars PROVE ServerInv'
    OBVIOUS
  <2>1. CASE Next
    BY <2>1, ConnStep, AcceptStep, RunStep DEF Next
  <2>2. CASE UNCHANGED vars
    BY <2>2 DEF vars, mainVars, connVars, ServerInv, TypeOK, CountExact, ArmedInv, LateInv,
       NobodyCutOff
  <2>3. QED
    BY <2>1, <2>2
<1>3. QED
  BY <1>1, <1>2, PTL DEF Spec

\* Type correctness: in particular conn_cnt, an unsigned counter, never goes below
\* zero.
THEOREM ServerTypeCorrect == Spec => []TypeOK
<1>1. ServerInv => TypeOK
  BY DEF ServerInv
<1>2. QED
  BY <1>1, ServerInvariant, PTL

\* conn_cnt is the number of connections being served, for any number of them.
THEOREM CountIsExact == Spec => []CountExact
<1>1. ServerInv => CountExact
  BY DEF ServerInv
<1>2. QED
  BY <1>1, ServerInvariant, PTL

\* A connection receives at most one request after exit_mark is set.
THEOREM AtMostOneLateRequest == Spec => []OneLateRequest
<1>1. ServerInv => OneLateRequest
  BY DEF ServerInv, LateInv, OneLateRequest
<1>2. QED
  BY <1>1, ServerInvariant, PTL

\* An exit that does not give up leaves no listening connection behind.
THEOREM ExitCutsNobodyOff == Spec => []NobodyCutOff
<1>1. ServerInv => NobodyCutOff
  BY DEF ServerInv
<1>2. QED
  BY <1>1, ServerInvariant, PTL
=============================================================================
