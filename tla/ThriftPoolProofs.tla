-------------------------- MODULE ThriftPoolProofs --------------------------
(***************************************************************************)
(* Proofs about ThriftPool, for any number of callers, addresses and       *)
(* connections, any idle limit and any timeout.                            *)
(***************************************************************************)
EXTENDS ThriftPool, SequenceTheorems, TLAPS

(* Every step is one of the pool's critical sections or polls. *)
LEMMA StepCases ==
  ASSUME TypeOK, Next
  PROVE  \/ \E c \in Callers, k \in Keys :
              LookupMiss(c, k) \/ LookupFast(c, k) \/ LookupPop(c, k)
         \/ \E c \in Callers :
              \/ CheckReusable(c) \/ Reserve(c) \/ Register(c) \/ StartConnector(c)
              \/ WaiterServed(c) \/ WaiterFailed(c) \/ DialErr(c)
              \/ DropCheckout(c) \/ DropConnecting(c)
              \/ CancelCheck(c) \/ CancelSelect(c) \/ Reuse(c) \/ Discard(c)
         \/ \E c \in Callers, cn \in Conns : DialOk(c, cn)
         \/ \E k \in Keys, cn \in Conns : BgDialOk(k, cn)
         \/ \E k \in Keys : BgDialErr(k)
         \/ \E cn \in Conns : BgDrop(cn) \/ Break(cn)
         \/ ClearExpired
         \/ Tick
  BY DEF TypeOK, Next, GetStep, UserStep, EnvStep, BgDialDone

(* A pool keeps its kind of transport. *)
LEMMA KindFixed == TypeOK /\ [Next]_vars => shared' = shared
<1> SUFFICES ASSUME TypeOK, Next PROVE shared' = shared
  BY DEF vars, envVars
<1>1. CASE \E c \in Callers, k \in Keys : LookupMiss(c, k) \/ LookupFast(c, k) \/ LookupPop(c, k)
  BY <1>1 DEF LookupMiss, LookupFast, LookupPop, envVars
<1>2. CASE \E c \in Callers :
              \/ CheckReusable(c) \/ Reserve(c) \/ Register(c) \/ StartConnector(c)
              \/ WaiterServed(c) \/ WaiterFailed(c) \/ DialErr(c)
  BY <1>2 DEF CheckReusable, Reserve, Register, StartConnector, WaiterServed, WaiterFailed,
              DialErr, envVars
<1>3. CASE \E c \in Callers :
              \/ DropCheckout(c) \/ DropConnecting(c)
              \/ CancelCheck(c) \/ CancelSelect(c) \/ Reuse(c) \/ Discard(c)
  BY <1>3 DEF DropCheckout, DropConnecting, CancelCheck, CancelSelect, Reuse, Discard, envVars
<1>4. CASE \/ \E c \in Callers, cn \in Conns : DialOk(c, cn)
           \/ \E k \in Keys, cn \in Conns : BgDialOk(k, cn)
           \/ \E k \in Keys : BgDialErr(k)
           \/ \E cn \in Conns : BgDrop(cn) \/ Break(cn)
           \/ ClearExpired
           \/ Tick
  BY <1>4 DEF DialOk, BgDialOk, BgDialErr, BgDrop, Break, ClearExpired, Tick, envVars
<1> QED BY <1>1, <1>2, <1>3, <1>4, StepCases

(* Popping the first entries of an idle list leaves an idle list. *)
LEMMA SubSeqType ==
  ASSUME NEW S, NEW s \in Seq(S), NEW n \in Nat, n <= Len(s)
  PROVE  /\ SubSeq(s, n + 1, Len(s)) \in Seq(S)
         /\ Len(SubSeq(s, n + 1, Len(s))) = Len(s) - n
         /\ \A i \in 1..(Len(s) - n) : SubSeq(s, n + 1, Len(s))[i] = s[n + i]
  BY SubSeqProperties

(* A new entry keeps the type of an idle list. *)
LEMMA AppendType ==
  ASSUME NEW s \in Seq(Idle), NEW cn \in Conns, NEW t \in Nat
  PROVE  /\ Append(s, [conn |-> cn, at |-> t]) \in Seq(Idle)
         /\ Len(Append(s, [conn |-> cn, at |-> t])) = Len(s) + 1
  BY DEF Idle

(* The connection of an idle entry. *)
LEMMA ElementOfSeqConn ==
  ASSUME NEW s \in Seq(Idle), NEW i \in 1..Len(s)
  PROVE  s[i] \in Idle /\ s[i].conn \in Conns /\ s[i].at \in Nat
<1>1. s[i] \in Idle
  BY ElementOfSeq
<1> QED BY <1>1 DEF Idle

(* What a caller holds in each control state. *)
HandInv ==
  \A c \in Callers :
    /\ pc[c] \in {"check", "reserve", "lent"} => conn[c] \in Conns
    /\ pc[c] \in {"out", "lookup", "register", "select", "dropConnecting"} =>
         conn[c] = "none"

(* The state space of a connection that goes to the idle list. *)
LEMMA PutSharedType ==
  ASSUME TypeOK, NEW k \in Keys, NEW cn \in Conns, PutShared(k, cn)
  PROVE  /\ idleKeys' \subseteq Keys
         /\ idle' \in [Keys -> Seq(Idle)]
         /\ waiters' \subseteq Waiter
         /\ counter' \in [Keys -> Nat]
         /\ rx' \in [Callers -> Conns \cup {"none"}]
<1>1. idle' \in [Keys -> Seq(Idle)]
  <2>1. Append(idle[k], [conn |-> cn, at |-> now]) \in Seq(Idle)
    BY AppendType DEF TypeOK
  <2> QED BY <2>1 DEF TypeOK, PutShared
<1> QED BY <1>1 DEF TypeOK, PutShared

LEMMA PutUniqueType ==
  ASSUME TypeOK, NEW k \in Keys, NEW cn \in Conns, PutUnique(k, cn)
  PROVE  /\ idleKeys' \subseteq Keys
         /\ idle' \in [Keys -> Seq(Idle)]
         /\ waiters' \subseteq Waiter
         /\ counter' \in [Keys -> Nat]
         /\ rx' \in [Callers -> Conns \cup {"none"}]
<1>1. idle' \in [Keys -> Seq(Idle)]
  <2>1. Append(idle[k], [conn |-> cn, at |-> now]) \in Seq(Idle)
    BY AppendType DEF TypeOK
  <2>2. idle[k] \in Seq(Idle)
    BY DEF TypeOK
  <2>3. idle' = idle \/ \E q \in Seq(Idle) : idle' = [idle EXCEPT ![k] = q]
    BY <2>1, <2>2 DEF PutUnique
  <2> QED BY <2>3 DEF TypeOK
<1>2. waiters' \subseteq Waiter
  BY DEF TypeOK, PutUnique
<1>3. rx' \in [Callers -> Conns \cup {"none"}]
  BY DEF TypeOK, PutUnique, OpenWaiters, Waiter
<1>4. counter' \in [Keys -> Nat]
  BY DEF TypeOK, PutUnique
<1>5. idleKeys' \subseteq Keys
  BY DEF TypeOK, PutUnique
<1> QED BY <1>1, <1>2, <1>3, <1>4, <1>5

-----------------------------------------------------------------------------
(* Type correctness: Inner's maps, the callers' control states and the     *)
(* spawned connectors always have the values TypeOK lists.  HandInv is     *)
(* needed because put stores what the caller holds.                        *)
THEOREM TypeCorrect == Spec => [](TypeOK /\ HandInv)
<1>1. Init => TypeOK /\ HandInv
  BY DEF Init, TypeOK, HandInv, PCs, Futs
<1>2. TypeOK /\ HandInv /\ [Next]_vars => TypeOK' /\ HandInv'
  <2> SUFFICES ASSUME TypeOK, HandInv, [Next]_vars PROVE TypeOK' /\ HandInv'
    OBVIOUS
  <2> USE PoolAssumption
  <2> DEFINE Goal == TypeOK' /\ HandInv'
  <2>0. CASE UNCHANGED vars
    BY <2>0 DEF TypeOK, HandInv, vars, poolVars, callerVars, bgVars, envVars
  <2>1. ASSUME NEW c \in Callers, NEW k \in Keys, LookupMiss(c, k) PROVE Goal
    BY <2>1, SMTT(30) DEF TypeOK, HandInv, LookupMiss, Enter, bgVars, envVars, PCs
  <2>2. ASSUME NEW c \in Callers, NEW k \in Keys, LookupFast(c, k) PROVE Goal
    <3>1. PICK n \in 0..(Len(idle[k]) - 1) :
            /\ idle' = [idle EXCEPT ![k] =
                          [SubSeq(@, n + 1, Len(@)) EXCEPT
                             ![1] = [conn |-> idle[k][n + 1].conn, at |-> now]]]
            /\ conn' = [conn EXCEPT ![c] = idle[k][n + 1].conn]
      BY <2>2 DEF LookupFast
    <3> DEFINE s == SubSeq(idle[k], n + 1, Len(idle[k]))
               e == [conn |-> idle[k][n + 1].conn, at |-> now]
    <3>2. /\ idle[k] \in Seq(Idle)
          /\ n \in Nat /\ n <= Len(idle[k])
          /\ n + 1 \in 1..Len(idle[k])
      BY DEF TypeOK
    <3>3. s \in Seq(Idle) /\ Len(s) = Len(idle[k]) - n
      BY <3>2, SubSeqType
    <3>4. 1 \in 1..Len(s)
      BY <3>2, <3>3
    <3>5. idle[k][n + 1].conn \in Conns
      BY <3>2, ElementOfSeqConn
    <3>6. e \in Idle
      BY <3>5 DEF Idle, TypeOK
    <3> HIDE DEF s, e
    <3>7. [s EXCEPT ![1] = e] \in Seq(Idle)
      BY <3>3, <3>4, <3>6, ExceptSeq
    <3>8. idle' \in [Keys -> Seq(Idle)]
      BY <3>1, <3>7 DEF TypeOK, s, e
    <3>9. conn' \in [Callers -> Conns \cup {"none"}] /\ conn'[c] \in Conns
      BY <3>1, <3>5 DEF TypeOK
    <3>10. TypeOK'
      <4>1. /\ Enter(c, k)
            /\ pc' = [pc EXCEPT ![c] = "lent"]
            /\ UNCHANGED <<idleKeys, waiters, counter, connecting, token, rx, fut,
                           bgVars, envVars>>
        BY <2>2 DEF LookupFast
      <4>2. key' \in [Callers -> Keys] /\ gets' \in Nat /\ pc' \in [Callers -> PCs]
        BY <4>1 DEF TypeOK, Enter, PCs
      <4> QED BY <4>1, <4>2, <3>8, <3>9 DEF TypeOK, bgVars, envVars
    <3>11. \A d \in Callers : d # c => conn'[d] = conn[d]
      BY <3>1 DEF TypeOK
    <3>12. HandInv'
      BY <2>2, <3>9, <3>11 DEF TypeOK, HandInv, LookupFast
    <3> QED BY <3>10, <3>12
  <2>3. ASSUME NEW c \in Callers, NEW k \in Keys, LookupPop(c, k) PROVE Goal
    <3>1. PICK n \in 0..(Len(idle[k]) - 1) :
            /\ idle' = [idle EXCEPT ![k] = SubSeq(@, n + 2, Len(@))]
            /\ conn' = [conn EXCEPT ![c] = idle[k][n + 1].conn]
      BY <2>3 DEF LookupPop
    <3>2. /\ idle[k] \in Seq(Idle)
          /\ n + 1 \in Nat /\ n + 1 <= Len(idle[k])
          /\ n + 1 \in 1..Len(idle[k])
      BY <3>1 DEF TypeOK
    <3>3. SubSeq(idle[k], (n + 1) + 1, Len(idle[k])) \in Seq(Idle)
      BY <3>2, SubSeqType
    <3>4. n + 2 = (n + 1) + 1
      BY <3>1
    <3>5. idle[k][n + 1].conn \in Conns
      BY <3>2, ElementOfSeqConn
    <3>8. idle' \in [Keys -> Seq(Idle)]
      BY <3>1, <3>3, <3>4 DEF TypeOK
    <3>9. conn' \in [Callers -> Conns \cup {"none"}] /\ conn'[c] \in Conns
      BY <3>1, <3>5 DEF TypeOK
    <3>10. TypeOK'
      <4>1. /\ Enter(c, k)
            /\ pc' = [pc EXCEPT ![c] = "check"]
            /\ UNCHANGED <<idleKeys, waiters, counter, connecting, token, rx, fut,
                           bgVars, envVars>>
        BY <2>3 DEF LookupPop
      <4>2. key' \in [Callers -> Keys] /\ gets' \in Nat /\ pc' \in [Callers -> PCs]
        BY <4>1 DEF TypeOK, Enter, PCs
      <4> QED BY <4>1, <4>2, <3>8, <3>9 DEF TypeOK, bgVars, envVars
    <3>11. \A d \in Callers : d # c => conn'[d] = conn[d]
      BY <3>1 DEF TypeOK
    <3>12. HandInv'
      BY <2>3, <3>9, <3>11 DEF TypeOK, HandInv, LookupPop
    <3> QED BY <3>10, <3>12
  <2>4. ASSUME NEW c \in Callers, CheckReusable(c) PROVE Goal
    BY <2>4 DEF TypeOK, HandInv, CheckReusable, poolVars, bgVars, envVars, PCs
  <2>5. ASSUME NEW c \in Callers, Reserve(c) PROVE Goal
    <3>1. Append(idle[key[c]], [conn |-> conn[c], at |-> now]) \in Seq(Idle)
      BY <2>5, AppendType DEF Reserve, TypeOK, HandInv
    <3> QED BY <2>5, <3>1 DEF TypeOK, HandInv, Reserve, bgVars, envVars, PCs
  <2>6. ASSUME NEW c \in Callers, Register(c) PROVE Goal
    BY <2>6 DEF TypeOK, HandInv, Register, bgVars, envVars, PCs, Futs, Waiter
  <2>7. ASSUME NEW c \in Callers, StartConnector(c) PROVE Goal
    <3>1. fut' \in [Callers -> Futs] /\ connecting' \subseteq Keys
      BY <2>7 DEF TypeOK, StartConnector, Futs
    <3>2. UNCHANGED <<idleKeys, idle, waiters, counter, pc, key, conn, token, rx, gets, bgVars, envVars>>
      BY <2>7 DEF StartConnector
    <3> QED BY <3>1, <3>2 DEF TypeOK, HandInv, bgVars, envVars
  <2>8. ASSUME NEW c \in Callers, WaiterServed(c) PROVE Goal
    <3>1. bgDial' \in [Keys -> Nat] /\ bgStuck' \in [Keys -> Nat]
      BY <2>8, SMTT(30) DEF TypeOK, WaiterServed
    <3> QED BY <2>8, <3>1 DEF TypeOK, HandInv, WaiterServed, poolVars, envVars, PCs, Futs
  <2>9. ASSUME NEW c \in Callers, WaiterFailed(c) PROVE Goal
    BY <2>9 DEF TypeOK, HandInv, WaiterFailed, poolVars, bgVars, envVars, PCs, Futs
  <2>10. ASSUME NEW c \in Callers, NEW cn \in Conns, DialOk(c, cn) PROVE Goal
    <3>1. CASE shared /\ PutShared(key[c], cn) /\ connecting' = connecting \ {key[c]}
      BY <2>10, <3>1, PutSharedType DEF TypeOK, HandInv, DialOk, bgVars, PCs, Futs
    <3>2. CASE UNCHANGED <<poolVars, rx>>
      BY <2>10, <3>2 DEF TypeOK, HandInv, DialOk, poolVars, bgVars, PCs, Futs
    <3> QED BY <2>10, <3>1, <3>2 DEF DialOk
  <2>11. ASSUME NEW c \in Callers, DialErr(c) PROVE Goal
    <3>1. CASE Connected(key[c])
      BY <2>11, <3>1 DEF TypeOK, HandInv, DialErr, Connected, bgVars, envVars, PCs, Futs
    <3>2. CASE UNCHANGED <<connecting, waiters, counter>>
      BY <2>11, <3>2 DEF TypeOK, HandInv, DialErr, bgVars, envVars, PCs, Futs
    <3> QED BY <2>11, <3>1, <3>2 DEF DialErr
  <2>12. ASSUME NEW c \in Callers, DropCheckout(c) PROVE Goal
    BY <2>12 DEF TypeOK, HandInv, DropCheckout, RemoveToken, bgVars, envVars, PCs
  <2>13. ASSUME NEW c \in Callers, DropConnecting(c) PROVE Goal
    BY <2>13 DEF TypeOK, HandInv, DropConnecting, Connected, bgVars, envVars, PCs
  <2>14. ASSUME NEW c \in Callers, CancelCheck(c) PROVE Goal
    BY <2>14 DEF TypeOK, HandInv, CancelCheck, poolVars, bgVars, envVars, PCs
  <2>15. ASSUME NEW c \in Callers, CancelSelect(c) PROVE Goal
    BY <2>15 DEF TypeOK, HandInv, CancelSelect, RemoveToken, bgVars, envVars, PCs, Futs
  <2>16. ASSUME NEW c \in Callers, Reuse(c) PROVE Goal
    <3>0. conn[c] \in Conns /\ key[c] \in Keys
      BY <2>16 DEF Reuse, TypeOK, HandInv
    <3>1. CASE PutUnique(key[c], conn[c])
      BY <2>16, <3>0, <3>1, PutUniqueType DEF TypeOK, HandInv, Reuse, bgVars, envVars, PCs
    <3>2. CASE UNCHANGED <<idleKeys, idle, waiters, counter, rx>>
      BY <2>16, <3>2 DEF TypeOK, HandInv, Reuse, bgVars, envVars, PCs
    <3> QED BY <2>16, <3>1, <3>2 DEF Reuse
  <2>17. ASSUME NEW c \in Callers, Discard(c) PROVE Goal
    BY <2>17 DEF TypeOK, HandInv, Discard, poolVars, bgVars, envVars, PCs
  <2>18. ASSUME NEW k \in Keys, NEW cn \in Conns, BgDialOk(k, cn) PROVE Goal
    <3>1. CASE shared /\ PutShared(k, cn) /\ connecting' = connecting \ {k}
      <4>1. /\ idleKeys' \subseteq Keys
            /\ idle' \in [Keys -> Seq(Idle)]
            /\ waiters' \subseteq Waiter
            /\ counter' \in [Keys -> Nat]
            /\ rx' \in [Callers -> Conns \cup {"none"}]
        BY <3>1, PutSharedType
      <4>2. bgDial' \in [Keys -> Nat]
        BY <2>18 DEF TypeOK, BgDialOk
      <4> QED BY <2>18, <3>1, <4>1, <4>2 DEF TypeOK, HandInv, BgDialOk
    <3>2. CASE UNCHANGED <<poolVars, rx>>
      BY <2>18, <3>2, SMTT(30) DEF TypeOK, HandInv, BgDialOk, poolVars
    <3> QED BY <2>18, <3>1, <3>2 DEF BgDialOk
  <2>19. ASSUME NEW k \in Keys, BgDialErr(k) PROVE Goal
    BY <2>19 DEF TypeOK, HandInv, BgDialErr, Connected, callerVars, envVars
  <2>20. ASSUME NEW cn \in Conns, BgDrop(cn) PROVE Goal
    BY <2>20 DEF TypeOK, HandInv, BgDrop, poolVars, callerVars, envVars
  <2>21. ASSUME NEW cn \in Conns, Break(cn) PROVE Goal
    BY <2>21 DEF TypeOK, HandInv, Break, poolVars, callerVars, bgVars
  <2>22. CASE ClearExpired
    <3>1. PICK kept \in [Keys -> UNION {[1..n -> 1..MaxIdle] : n \in 0..MaxIdle}] :
            /\ \A k \in Keys : Retained(kept[k], idle[k])
            /\ idle' = [k \in Keys |-> [i \in 1..Len(kept[k]) |-> idle[k][kept[k][i]]]]
            /\ idleKeys' = {k \in idleKeys : Len(kept[k]) > 0}
      BY <2>22 DEF ClearExpired
    <3>2. ASSUME NEW k \in Keys PROVE idle'[k] \in Seq(Idle)
      <4>1. idle[k] \in Seq(Idle) /\ Len(kept[k]) \in Nat
        BY <3>1 DEF TypeOK
      <4>2. ASSUME NEW i \in 1..Len(kept[k]) PROVE idle[k][kept[k][i]] \in Idle
        <5>1. kept[k][i] \in 1..Len(idle[k])
          BY <3>1 DEF Retained
        <5> QED BY <4>1, <5>1, ElementOfSeq
      <4>3. [i \in 1..Len(kept[k]) |-> idle[k][kept[k][i]]] \in Seq(Idle)
        BY <4>1, <4>2, IsASeq
      <4> QED BY <3>1, <4>3
    <3>3. idle' \in [Keys -> Seq(Idle)]
      BY <3>1, <3>2
    <3> QED
      BY <2>22, <3>1, <3>3 DEF TypeOK, HandInv, ClearExpired, callerVars, bgVars, envVars
  <2>23. CASE Tick
    BY <2>23 DEF TypeOK, HandInv, Tick, poolVars, callerVars, bgVars
  <2> QED
    BY <2>0, <2>1, <2>2, <2>3, <2>4, <2>5, <2>6, <2>7, <2>8, <2>9, <2>10, <2>11,
       <2>12, <2>13, <2>14, <2>15, <2>16, <2>17, <2>18, <2>19, <2>20, <2>21, <2>22,
       <2>23, StepCases
<1> QED BY <1>1, <1>2, PTL DEF Spec

-----------------------------------------------------------------------------
(* Connectors exist only inside the select of get. *)
FutInv == \A c \in Callers : fut[c] # "none" => pc[c] = "select"

GuardInv == FutInv /\ ConnectingExclusive

(* What a step must do to keep the connecting marks and their owners in    *)
(* agreement when it leaves a key's owners alone.                          *)
LEMMA GuardFrame ==
  ASSUME TypeOK, ConnectingExclusive,
         UNCHANGED <<shared, connecting, bgDial>>,
         \A k \in Keys : GuardOwners(k)' = GuardOwners(k)
  PROVE  ConnectingExclusive'
  BY DEF ConnectingExclusive

(* The owner of a key's guard gives it up together with the mark. *)
LEMMA GuardReleased ==
  ASSUME TypeOK, ConnectingExclusive, shared, shared' = shared,
         NEW k \in Keys, GuardOwners(k) # {} \/ bgDial[k] = 1,
         connecting' = connecting \ {k},
         GuardOwners(k)' = {}, bgDial'[k] = 0,
         \A j \in Keys \ {k} : GuardOwners(j)' = GuardOwners(j) /\ bgDial'[j] = bgDial[j]
  PROVE  ConnectingExclusive'
  BY DEF ConnectingExclusive

(* GuardInv is inductive: every step keeps marks and owners in agreement.  *)
LEMMA GuardInvariant == Spec => []GuardInv
<1>1. Init => GuardInv
  BY DEF Init, GuardInv, FutInv, ConnectingExclusive, GuardOwners
<1>2. TypeOK /\ HandInv /\ GuardInv /\ [Next]_vars => GuardInv'
  <2> SUFFICES ASSUME TypeOK, HandInv, GuardInv, [Next]_vars PROVE GuardInv'
    OBVIOUS
  <2>k. shared' = shared
    BY KindFixed
  <2> USE <2>k, PoolAssumption DEF GuardInv
  <2>0. CASE UNCHANGED vars
    <3>1. \A k \in Keys : GuardOwners(k)' = GuardOwners(k)
      BY <2>0 DEF GuardOwners, vars, callerVars
    <3> QED BY <2>0, <3>1, GuardFrame DEF FutInv, vars, poolVars, callerVars, bgVars
  <2>1. ASSUME NEW c \in Callers, NEW k \in Keys,
               LookupMiss(c, k) \/ LookupFast(c, k) \/ LookupPop(c, k)
        PROVE  GuardInv'
    <3>1. /\ pc[c] \in {"out", "lookup"}
          /\ key' = [key EXCEPT ![c] = k]
          /\ \E p \in {"register", "lent", "check"} : pc' = [pc EXCEPT ![c] = p]
          /\ UNCHANGED <<connecting, fut, bgDial>>
      BY <2>1 DEF LookupMiss, LookupFast, LookupPop, Enter, bgVars
    <3>2. \A j \in Keys : GuardOwners(j)' = GuardOwners(j)
      BY <3>1 DEF GuardOwners, FutInv, TypeOK
    <3> QED BY <3>1, <3>2, GuardFrame DEF FutInv, TypeOK
  <2>2. ASSUME NEW c \in Callers,
               \/ CheckReusable(c) \/ Reserve(c) \/ Register(c) \/ DropCheckout(c)
               \/ CancelCheck(c) \/ Reuse(c) \/ Discard(c)
        PROVE  GuardInv'
    <3>1. /\ pc[c] \notin {"select", "dropConnecting"}
          /\ \E p \in {"lookup", "reserve", "lent", "select", "out"} :
               pc' = [pc EXCEPT ![c] = p]
          /\ UNCHANGED <<connecting, key, bgDial>>
          /\ \/ UNCHANGED fut
             \/ fut' = [fut EXCEPT ![c] = "init"] /\ pc'[c] = "select"
      BY <2>2 DEF CheckReusable, Reserve, Register, DropCheckout, CancelCheck, Reuse,
                  Discard, poolVars, bgVars, TypeOK
    <3>2. \A j \in Keys : GuardOwners(j)' = GuardOwners(j)
      BY <3>1 DEF GuardOwners, FutInv, TypeOK
    <3> QED BY <3>1, <3>2, GuardFrame DEF FutInv, TypeOK
  <2>3. ASSUME NEW c \in Callers, StartConnector(c) PROVE GuardInv'
    <3>1. FutInv'
      BY <2>3 DEF StartConnector, FutInv, TypeOK
    <3>2. CASE ~shared
      BY <3>1, <3>2 DEF ConnectingExclusive
    <3>3. CASE shared /\ key[c] \in connecting
      <4>1. \A j \in Keys : GuardOwners(j)' = GuardOwners(j)
        BY <2>3, <3>3 DEF StartConnector, GuardOwners, TypeOK
      <4> QED BY <2>3, <3>1, <3>3, <4>1, GuardFrame DEF StartConnector, bgVars
    <3>4. CASE shared /\ key[c] \notin connecting
      <4>1. /\ fut' = [fut EXCEPT ![c] = "dial"]
            /\ connecting' = connecting \cup {key[c]}
            /\ UNCHANGED <<pc, key, bgDial>>
        BY <2>3, <3>4 DEF StartConnector, bgVars
      <4>2. GuardOwners(key[c])' = GuardOwners(key[c]) \cup {c}
        BY <4>1 DEF GuardOwners, TypeOK
      <4>3. \A j \in Keys \ {key[c]} : GuardOwners(j)' = GuardOwners(j)
        BY <4>1 DEF GuardOwners, TypeOK
      <4>4. GuardOwners(key[c]) = {} /\ bgDial[key[c]] = 0
        <5>1. key[c] \in Keys /\ bgDial[key[c]] \in Nat
          BY DEF TypeOK
        <5>2. GuardOwners(key[c]) = {} /\ ~(bgDial[key[c]] > 0)
          BY <3>4, <5>1 DEF ConnectingExclusive
        <5> QED BY <5>1, <5>2
      <4>5. ConnectingExclusive'
        <5> SUFFICES ASSUME NEW k \in Keys
                     PROVE  /\ k \in connecting' <=> GuardOwners(k)' # {} \/ bgDial'[k] > 0
                            /\ \A a, d \in GuardOwners(k)' : a = d
                            /\ bgDial'[k] > 0 => bgDial'[k] = 1 /\ GuardOwners(k)' = {}
          BY DEF ConnectingExclusive
        <5>1. CASE k = key[c]
          BY <4>1, <4>2, <4>4, <5>1
        <5>2. CASE k # key[c]
          BY <3>4, <4>1, <4>3, <5>2 DEF ConnectingExclusive
        <5> QED BY <5>1, <5>2
      <4> QED BY <3>1, <4>5
    <3> QED BY <3>2, <3>3, <3>4
  <2>4. ASSUME NEW c \in Callers, WaiterServed(c) PROVE GuardInv'
    <3>0. /\ pc[c] = "select"
          /\ pc' = [pc EXCEPT ![c] = "lent"]
          /\ fut' = [fut EXCEPT ![c] = "none"]
          /\ bgDial' = [bgDial EXCEPT ![key[c]] = IF fut[c] = "dial" THEN @ + 1 ELSE @]
          /\ UNCHANGED <<connecting, key>>
      BY <2>4 DEF WaiterServed, poolVars
    <3>1. FutInv'
      BY <3>0 DEF FutInv, TypeOK
    <3>2. CASE ~shared
      BY <3>1, <3>2 DEF ConnectingExclusive
    <3>3. CASE fut[c] # "dial"
      <4>1. \A j \in Keys : GuardOwners(j)' = GuardOwners(j)
        BY <3>0, <3>3 DEF GuardOwners, TypeOK
      <4>2. bgDial' = bgDial
        BY <3>0, <3>3 DEF TypeOK
      <4> QED BY <3>0, <3>1, <4>1, <4>2, GuardFrame
    <3>4. CASE shared /\ fut[c] = "dial"
      <4>1. c \in GuardOwners(key[c])
        BY <3>4 DEF GuardOwners
      <4>2. bgDial[key[c]] = 0 /\ key[c] \in connecting /\ GuardOwners(key[c]) = {c}
        BY <3>4, <4>1 DEF ConnectingExclusive, TypeOK
      <4>3. GuardOwners(key[c])' = {}
        BY <3>0, <4>2 DEF GuardOwners, TypeOK
      <4>4. \A j \in Keys \ {key[c]} :
              GuardOwners(j)' = GuardOwners(j) /\ bgDial'[j] = bgDial[j]
        BY <3>0 DEF GuardOwners, TypeOK
      <4>5. bgDial'[key[c]] = 1
        BY <3>0, <3>4, <4>2 DEF TypeOK
      <4>6. ConnectingExclusive'
        BY <3>0, <3>4, <4>2, <4>3, <4>4, <4>5 DEF ConnectingExclusive, TypeOK
      <4> QED BY <3>1, <4>6
    <3> QED BY <3>2, <3>3, <3>4
  <2>5. ASSUME NEW c \in Callers, WaiterFailed(c) \/ CancelSelect(c) PROVE GuardInv'
    <3>0. /\ pc[c] = "select"
          /\ pc' = [pc EXCEPT ![c] = IF Guarded(c) THEN "dropConnecting" ELSE "out"]
          /\ fut' = [fut EXCEPT ![c] = "none"]
          /\ UNCHANGED <<connecting, key, bgDial>>
      BY <2>5 DEF WaiterFailed, CancelSelect, poolVars, bgVars
    <3>1. FutInv'
      BY <3>0 DEF FutInv, TypeOK
    <3>2. CASE ~shared
      BY <3>1, <3>2 DEF ConnectingExclusive
    <3>3. CASE shared
      <4>1. \A j \in Keys : GuardOwners(j)' = GuardOwners(j)
        BY <3>0, <3>3 DEF GuardOwners, Guarded, TypeOK
      <4> QED BY <3>0, <3>1, <4>1, GuardFrame
    <3> QED BY <3>2, <3>3
  <2>6. ASSUME NEW c \in Callers, DialErr(c) \/ DropConnecting(c)
                                  \/ \E cn \in Conns : DialOk(c, cn)
        PROVE  GuardInv'
    <3>0. /\ \/ pc[c] = "select" /\ fut[c] = "dial"
             \/ pc[c] = "dropConnecting"
          /\ \E p \in {"dropCheckout", "out"} : pc' = [pc EXCEPT ![c] = p]
          /\ \/ fut' = [fut EXCEPT ![c] = "none"]
             \/ fut' = fut /\ pc[c] = "dropConnecting"
          /\ shared => connecting' = connecting \ {key[c]}
          /\ UNCHANGED <<key, bgDial>>
      <4>1. CASE DialErr(c)
        BY <4>1 DEF DialErr, Connected, bgVars
      <4>2. CASE DropConnecting(c)
        BY <4>2 DEF DropConnecting, Connected, bgVars
      <4>3. CASE \E cn \in Conns : DialOk(c, cn)
        BY <4>3 DEF DialOk, bgVars
      <4> QED BY <2>6, <4>1, <4>2, <4>3
    <3>1. FutInv'
      BY <3>0 DEF FutInv, TypeOK
    <3>2. CASE ~shared
      BY <3>1, <3>2 DEF ConnectingExclusive
    <3>3. CASE shared
      <4>1. c \in GuardOwners(key[c])
        BY <3>0 DEF GuardOwners
      <4>2. bgDial[key[c]] = 0 /\ GuardOwners(key[c]) = {c}
        <5>1. key[c] \in Keys /\ bgDial[key[c]] \in Nat
          BY DEF TypeOK
        <5>2. GuardOwners(key[c]) = {c}
          BY <3>3, <4>1, <5>1 DEF ConnectingExclusive
        <5>3. ~(bgDial[key[c]] > 0)
          BY <3>3, <4>1, <5>1 DEF ConnectingExclusive
        <5> QED BY <5>1, <5>2, <5>3
      <4>3. GuardOwners(key[c])' = {}
        BY <3>0, <4>2 DEF GuardOwners, FutInv, TypeOK
      <4>4. \A j \in Keys \ {key[c]} :
              GuardOwners(j)' = GuardOwners(j) /\ bgDial'[j] = bgDial[j]
        BY <3>0 DEF GuardOwners, TypeOK
      <4> QED BY <3>0, <3>1, <3>3, <4>1, <4>2, <4>3, <4>4, GuardReleased DEF TypeOK
    <3> QED BY <3>2, <3>3
  <2>7. ASSUME NEW k \in Keys, BgDialErr(k) \/ \E cn \in Conns : BgDialOk(k, cn)
        PROVE  GuardInv'
    <3>0. /\ bgDial[k] > 0
          /\ bgDial' = [bgDial EXCEPT ![k] = @ - 1]
          /\ shared => connecting' = connecting \ {k}
          /\ UNCHANGED <<pc, key, fut>>
      BY <2>7 DEF BgDialErr, BgDialOk, Connected, callerVars
    <3>1. FutInv' /\ \A j \in Keys : GuardOwners(j)' = GuardOwners(j)
      BY <3>0 DEF FutInv, GuardOwners
    <3>2. CASE ~shared
      BY <3>1, <3>2 DEF ConnectingExclusive
    <3>3. CASE shared
      <4>1. bgDial[k] = 1 /\ GuardOwners(k) = {}
        BY <3>0, <3>3 DEF ConnectingExclusive
      <4>2. bgDial'[k] = 0 /\ \A j \in Keys \ {k} : bgDial'[j] = bgDial[j]
        BY <3>0, <4>1 DEF TypeOK
      <4> QED BY <3>0, <3>1, <3>3, <4>1, <4>2, GuardReleased
    <3> QED BY <3>2, <3>3
  <2>8. CASE ClearExpired \/ Tick \/ \E cn \in Conns : BgDrop(cn) \/ Break(cn)
    <3>1. UNCHANGED <<connecting, pc, key, fut, bgDial>>
      BY <2>8 DEF ClearExpired, Tick, BgDrop, Break, poolVars, callerVars, bgVars
    <3>2. \A k \in Keys : GuardOwners(k)' = GuardOwners(k)
      BY <3>1 DEF GuardOwners
    <3> QED BY <3>1, <3>2, GuardFrame DEF FutInv
  <2> QED
    BY <2>0, <2>1, <2>2, <2>3, <2>4, <2>5, <2>6, <2>7, <2>8, StepCases
<1> QED BY <1>1, <1>2, TypeCorrect, PTL DEF Spec

(* Mutual exclusion of multiplex connects: a key is in Inner::connecting   *)
(* exactly while one task owns its Connecting guard, so connected() always *)
(* finds the mark it removes.                                              *)
THEOREM GuardsExclusive == Spec => []ConnectingExclusive
<1>1. GuardInv => ConnectingExclusive
  BY DEF GuardInv
<1> QED BY <1>1, GuardInvariant, PTL

-----------------------------------------------------------------------------
(* A sender in a waiter list belongs to a get that still waits, its token  *)
(* is older than the list's counter, and only waiting gets have mail.      *)
SenderInv ==
  /\ SendersOpen
  /\ \A w \in waiters : w.token < counter[w.key]
  /\ \A c \in Callers : rx[c] # "none" => pc[c] \in {"select", "dropCheckout"}

(* A step that adds no sender and keeps the remaining ones waiting. *)
LEMMA SenderFrame ==
  ASSUME TypeOK, SenderInv, waiters' \subseteq waiters,
         \A w \in waiters' : /\ pc'[w.caller] \in {"select", "dropCheckout"}
                             /\ key'[w.caller] = key[w.caller]
                             /\ token'[w.caller] = token[w.caller]
                             /\ rx'[w.caller] = rx[w.caller]
                             /\ counter'[w.key] = counter[w.key],
         \A c \in Callers : rx'[c] # "none" => pc'[c] \in {"select", "dropCheckout"}
  PROVE  SenderInv'
<1>1. \A w \in waiters' : Open(w)' /\ rx'[w.caller] = "none"
  BY DEF SenderInv, SendersOpen, Open
<1>2. \A v, w \in waiters' : v.key = w.key /\ v.token = w.token => v = w
  BY DEF SenderInv, SendersOpen
<1>3. \A w \in waiters' : w.token < counter'[w.key]
  BY DEF SenderInv
<1> QED BY <1>1, <1>2, <1>3 DEF SenderInv, SendersOpen

(* Pool::connected, and put of a multiplex connection, remove all senders  *)
(* of the key.                                                             *)
LEMMA SenderCleared ==
  ASSUME TypeOK, SenderInv, NEW k \in Keys,
         waiters' = {v \in waiters : v.key # k},
         counter' = [counter EXCEPT ![k] = 0],
         \A c \in Callers : pc[c] \in {"select", "dropCheckout"} =>
                              pc'[c] \in {"select", "dropCheckout"},
         UNCHANGED <<key, token>>,
         \A c \in Callers :
           \/ rx'[c] = rx[c]
           \/ \E w \in OpenWaiters(k) : w.caller = c
  PROVE  SenderInv'
<1>1. ASSUME NEW w \in waiters'
      PROVE  /\ pc'[w.caller] \in {"select", "dropCheckout"}
             /\ rx'[w.caller] = rx[w.caller]
             /\ counter'[w.key] = counter[w.key]
  <2>1. w \in waiters /\ w.key # k /\ w.caller \in Callers /\ w.key \in Keys
    BY DEF TypeOK, Waiter
  <2>2. Open(w)
    BY <2>1 DEF SenderInv, SendersOpen
  <2>3. ~\E v \in OpenWaiters(k) : v.caller = w.caller
    BY <2>1, <2>2 DEF OpenWaiters, Open
  <2>4. rx'[w.caller] = rx[w.caller]
    BY <2>1, <2>3
  <2>5. pc'[w.caller] \in {"select", "dropCheckout"}
    BY <2>1, <2>2 DEF Open
  <2>6. counter'[w.key] = counter[w.key]
    BY <2>1 DEF TypeOK
  <2> QED BY <2>4, <2>5, <2>6
<1>2. ASSUME NEW c \in Callers, rx'[c] # "none"
      PROVE  pc'[c] \in {"select", "dropCheckout"}
  <2>1. CASE rx'[c] = rx[c]
    BY <1>2, <2>1 DEF SenderInv
  <2>2. CASE \E w \in OpenWaiters(k) : w.caller = c
    BY <2>2 DEF OpenWaiters, Open
  <2> QED BY <2>1, <2>2
<1> QED BY <1>1, <1>2, SenderFrame

(* SenderInv is inductive. *)
LEMMA SenderInvariant == Spec => []SenderInv
<1>1. Init => SenderInv
  BY DEF Init, SenderInv, SendersOpen
<1>2. TypeOK /\ HandInv /\ SenderInv /\ [Next]_vars => SenderInv'
  <2> SUFFICES ASSUME TypeOK, HandInv, SenderInv, [Next]_vars PROVE SenderInv'
    OBVIOUS
  <2> USE PoolAssumption
  <2>w. \A w \in waiters : /\ w.caller \in Callers /\ w.key \in Keys /\ w.token \in Nat
                           /\ pc[w.caller] \in {"select", "dropCheckout"}
                           /\ key[w.caller] = w.key
                           /\ token[w.caller] = w.token
                           /\ rx[w.caller] = "none"
    BY DEF TypeOK, Waiter, SenderInv, SendersOpen, Open
  <2>0. CASE UNCHANGED <<waiters, counter, rx, pc, key, token>>
    BY <2>0, <2>w, SenderFrame DEF SenderInv
  <2>1. ASSUME NEW c \in Callers, NEW k \in Keys,
               LookupMiss(c, k) \/ LookupFast(c, k) \/ LookupPop(c, k)
        PROVE  SenderInv'
    <3>1. /\ pc[c] \in {"out", "lookup"}
          /\ key' = [key EXCEPT ![c] = k]
          /\ \E p \in {"register", "lent", "check"} : pc' = [pc EXCEPT ![c] = p]
          /\ UNCHANGED <<waiters, counter, token, rx>>
      BY <2>1 DEF LookupMiss, LookupFast, LookupPop, Enter
    <3>2. \A w \in waiters : w.caller # c
      BY <2>w, <3>1
    <3>3. rx[c] = "none"
      BY <3>1 DEF SenderInv
    <3>4. \A d \in Callers : d # c => pc'[d] = pc[d] /\ key'[d] = key[d]
      BY <3>1 DEF TypeOK
    <3> QED BY <2>w, <3>1, <3>2, <3>3, <3>4, SenderFrame DEF SenderInv
  <2>2. ASSUME NEW c \in Callers,
               CheckReusable(c) \/ Reserve(c) \/ CancelCheck(c) \/ Discard(c)
        PROVE  SenderInv'
    <3>1. /\ pc[c] \notin {"select", "dropCheckout"}
          /\ \E p \in PCs : pc' = [pc EXCEPT ![c] = p]
          /\ UNCHANGED <<waiters, counter, key, token, rx>>
      BY <2>2 DEF CheckReusable, Reserve, CancelCheck, Discard, poolVars, PCs
    <3>2. \A w \in waiters : w.caller # c
      BY <2>w, <3>1
    <3>3. rx[c] = "none"
      BY <3>1 DEF SenderInv
    <3>4. \A d \in Callers : d # c => pc'[d] = pc[d]
      BY <3>1 DEF TypeOK
    <3> QED BY <2>w, <3>1, <3>2, <3>3, <3>4, SenderFrame DEF SenderInv
  <2>3. ASSUME NEW c \in Callers, Register(c) PROVE SenderInv'
    <3> DEFINE k == key[c]
               n == [key |-> k, token |-> counter[k], caller |-> c]
    <3>1. /\ pc[c] = "register"
          /\ waiters' = waiters \cup {n}
          /\ token' = [token EXCEPT ![c] = counter[k]]
          /\ counter' = [counter EXCEPT ![k] = @ + 1]
          /\ pc' = [pc EXCEPT ![c] = "select"]
          /\ UNCHANGED <<key, rx>>
      BY <2>3 DEF Register
    <3>2. k \in Keys /\ counter[k] \in Nat
      BY DEF TypeOK
    <3>3. \A w \in waiters : w.caller # c
      BY <2>w, <3>1
    <3>4. rx[c] = "none"
      BY <3>1 DEF SenderInv
    <3>5. \A w \in waiters' : Open(w)' /\ rx'[w.caller] = "none"
      BY <2>w, <3>1, <3>2, <3>3, <3>4 DEF Open, TypeOK
    <3>6. \A w \in waiters : counter[w.key] \in Nat /\ w.token < counter[w.key]
      BY <2>w DEF SenderInv, TypeOK
    <3>7. \A w \in waiters' : w.token < counter'[w.key]
      BY <2>w, <3>1, <3>2, <3>6 DEF TypeOK
    <3>8. ASSUME NEW v \in waiters', NEW w \in waiters',
                 v.key = w.key, v.token = w.token
          PROVE  v = w
      <4>1. CASE v \in waiters /\ w \in waiters
        BY <3>8, <4>1 DEF SenderInv, SendersOpen
      <4>2. \A u \in waiters : ~(u.key = k /\ u.token = counter[k])
        BY <2>w, <3>2, <3>6
      <4> QED BY <3>1, <3>8, <4>1, <4>2
    <3>9. \A d \in Callers : rx'[d] # "none" => pc'[d] \in {"select", "dropCheckout"}
      BY <3>1, <3>4 DEF SenderInv, TypeOK
    <3> QED BY <3>5, <3>7, <3>8, <3>9 DEF SenderInv, SendersOpen
  <2>4. ASSUME NEW c \in Callers, StartConnector(c) PROVE SenderInv'
    BY <2>4, <2>0 DEF StartConnector
  <2>5. ASSUME NEW c \in Callers, WaiterServed(c) \/ WaiterFailed(c) PROVE SenderInv'
    <3>1. /\ pc[c] = "select"
          /\ \E p \in PCs : pc' = [pc EXCEPT ![c] = p]
          /\ rx[c] # "none" \/ SenderDropped(c)
          /\ rx' = [rx EXCEPT ![c] = "none"]
          /\ UNCHANGED <<waiters, counter, key, token>>
      <4>1. CASE WaiterServed(c)
        BY <4>1 DEF WaiterServed, poolVars, PCs
      <4>2. CASE WaiterFailed(c)
        <5>1. rx' = rx /\ rx[c] = "none"
          BY <4>2 DEF WaiterFailed, SenderDropped
        <5>2. rx' = [rx EXCEPT ![c] = "none"]
          BY <5>1 DEF TypeOK
        <5> QED BY <4>2, <5>2 DEF WaiterFailed, poolVars, PCs
      <4> QED BY <2>5, <4>1, <4>2
    <3>2. \A w \in waiters : w.caller # c
      BY <2>w, <3>1 DEF SenderDropped, Open
    <3>3. rx'[c] = "none" /\ \A d \in Callers : d # c => pc'[d] = pc[d] /\ rx'[d] = rx[d]
      BY <3>1 DEF TypeOK
    <3> QED BY <2>w, <3>1, <3>2, <3>3, SenderFrame DEF SenderInv
  <2>6. ASSUME NEW c \in Callers, DropCheckout(c) \/ CancelSelect(c) PROVE SenderInv'
    <3>1. /\ waiters' = {w \in waiters : ~(w.key = key[c] /\ w.token = token[c])}
          /\ rx' = [rx EXCEPT ![c] = "none"]
          /\ \E p \in PCs : pc' = [pc EXCEPT ![c] = p]
          /\ UNCHANGED <<counter, key, token>>
      BY <2>6 DEF DropCheckout, CancelSelect, RemoveToken, PCs
    <3>2. \A w \in waiters' : w.caller # c
      BY <2>w, <3>1
    <3>3. rx'[c] = "none" /\ \A d \in Callers : d # c => pc'[d] = pc[d] /\ rx'[d] = rx[d]
      BY <3>1 DEF TypeOK
    <3> QED BY <2>w, <3>1, <3>2, <3>3, SenderFrame DEF SenderInv
  <2>7. ASSUME NEW c \in Callers, NEW cn \in Conns, DialOk(c, cn) PROVE SenderInv'
    <3>1. /\ pc[c] = "select"
          /\ pc' = [pc EXCEPT ![c] = "dropCheckout"]
          /\ UNCHANGED <<key, token>>
      BY <2>7 DEF DialOk
    <3>2. \A d \in Callers : pc[d] \in {"select", "dropCheckout"} =>
                               pc'[d] \in {"select", "dropCheckout"}
      BY <3>1 DEF TypeOK
    <3>3. CASE PutShared(key[c], cn)
      <4>1. /\ waiters' = {v \in waiters : v.key # key[c]}
            /\ counter' = [counter EXCEPT ![key[c]] = 0]
            /\ \A d \in Callers :
                 rx'[d] = rx[d] \/ \E w \in OpenWaiters(key[c]) : w.caller = d
        BY <3>3 DEF PutShared
      <4> QED BY <3>1, <3>2, <4>1, SenderCleared DEF TypeOK
    <3>4. CASE UNCHANGED <<poolVars, rx>>
      BY <2>w, <3>1, <3>2, <3>4, SenderFrame DEF SenderInv, poolVars
    <3> QED BY <2>7, <3>3, <3>4 DEF DialOk
  <2>8. ASSUME NEW c \in Callers, DialErr(c) PROVE SenderInv'
    <3>1. /\ pc[c] = "select"
          /\ pc' = [pc EXCEPT ![c] = "dropCheckout"]
          /\ UNCHANGED <<key, token, rx>>
      BY <2>8 DEF DialErr
    <3>2. \A d \in Callers : pc[d] \in {"select", "dropCheckout"} =>
                               pc'[d] \in {"select", "dropCheckout"}
      BY <3>1 DEF TypeOK
    <3>3. CASE Connected(key[c])
      BY <3>1, <3>2, <3>3, SenderCleared DEF TypeOK, Connected
    <3>4. CASE UNCHANGED <<connecting, waiters, counter>>
      BY <2>w, <3>1, <3>2, <3>4, SenderFrame DEF SenderInv
    <3> QED BY <2>8, <3>3, <3>4 DEF DialErr
  <2>9. ASSUME NEW c \in Callers, DropConnecting(c) PROVE SenderInv'
    <3>1. \A d \in Callers : pc[d] \in {"select", "dropCheckout"} =>
                               pc'[d] \in {"select", "dropCheckout"}
      BY <2>9 DEF DropConnecting, TypeOK
    <3> QED BY <2>9, <3>1, SenderCleared DEF DropConnecting, Connected, TypeOK
  <2>10. ASSUME NEW c \in Callers, Reuse(c) PROVE SenderInv'
    <3>1. /\ pc[c] = "lent"
          /\ pc' = [pc EXCEPT ![c] = "out"]
          /\ UNCHANGED <<key, token>>
      BY <2>10 DEF Reuse
    <3>2. rx[c] = "none" /\ \A w \in waiters : w.caller # c
      BY <2>w, <3>1 DEF SenderInv
    <3>3. \A d \in Callers : d # c => pc'[d] = pc[d]
      BY <3>1 DEF TypeOK
    <3>4. CASE UNCHANGED <<idleKeys, idle, waiters, counter, rx>>
      BY <2>w, <3>1, <3>2, <3>3, <3>4, SenderFrame DEF SenderInv
    <3>5. CASE PutUnique(key[c], conn[c])
      <4> DEFINE k == key[c]
      <4>0. k \in Keys /\ conn[c] \in Conns
        BY <3>1 DEF TypeOK, HandInv
      <4>1. ASSUME NEW w \in OpenWaiters(k),
                   waiters' = {v \in waiters : v.key = k => v.token > w.token},
                   rx' = [rx EXCEPT ![w.caller] = conn[c]]
            PROVE  SenderInv'
        <5>1. w \in waiters /\ w.key = k
          BY DEF OpenWaiters
        <5>2. \A v \in waiters' : v.caller # w.caller
          <6> SUFFICES ASSUME NEW v \in waiters', v.caller = w.caller PROVE FALSE
            OBVIOUS
          <6>1. v \in waiters /\ (v.key = k => v.token > w.token)
            BY <4>1
          <6>2. v.key = w.key /\ v.token = w.token /\ w.token \in Nat
            BY <2>w, <5>1, <6>1
          <6> QED BY <5>1, <6>1, <6>2
        <5>3. \A d \in Callers : d # w.caller => rx'[d] = rx[d]
          BY <4>1 DEF TypeOK
        <5>4. \A v \in waiters' : counter'[v.key] = counter[v.key]
          BY <2>w, <3>5, <4>0, <4>1 DEF PutUnique, TypeOK
        <5>5. w.caller # c /\ pc'[w.caller] \in {"select", "dropCheckout"}
          BY <2>w, <3>2, <3>3, <5>1
        <5> QED
          BY <2>w, <3>1, <3>2, <3>3, <4>1, <5>2, <5>3, <5>4, <5>5, SenderFrame DEF SenderInv
      <4>2. CASE OpenWaiters(k) = {} /\ waiters' = {v \in waiters : v.key # k} /\ UNCHANGED rx
        <5>1. \A v \in waiters' : counter'[v.key] = counter[v.key]
          BY <2>w, <3>5, <4>0, <4>2 DEF PutUnique, TypeOK
        <5> QED BY <2>w, <3>1, <3>2, <3>3, <4>2, <5>1, SenderFrame DEF SenderInv
      <4> QED BY <3>5, <4>1, <4>2 DEF PutUnique
    <3> QED BY <2>10, <3>4, <3>5 DEF Reuse
  <2>11. ASSUME NEW k \in Keys, NEW cn \in Conns, BgDialOk(k, cn) PROVE SenderInv'
    <3>1. UNCHANGED <<pc, key, token>>
      BY <2>11 DEF BgDialOk
    <3>2. CASE PutShared(k, cn)
      <4>1. /\ waiters' = {v \in waiters : v.key # k}
            /\ counter' = [counter EXCEPT ![k] = 0]
            /\ \A d \in Callers :
                 rx'[d] = rx[d] \/ \E w \in OpenWaiters(k) : w.caller = d
        BY <3>2 DEF PutShared
      <4> QED BY <3>1, <4>1, SenderCleared
    <3>3. CASE UNCHANGED <<poolVars, rx>>
      BY <2>0, <3>1, <3>3 DEF poolVars
    <3> QED BY <2>11, <3>2, <3>3 DEF BgDialOk
  <2>12. ASSUME NEW k \in Keys, BgDialErr(k) PROVE SenderInv'
    <3>1. CASE Connected(k)
      BY <2>12, <3>1, SenderCleared DEF BgDialErr, Connected, callerVars
    <3>2. CASE UNCHANGED <<connecting, waiters, counter>>
      BY <2>12, <2>0, <3>2 DEF BgDialErr, callerVars
    <3> QED BY <2>12, <3>1, <3>2 DEF BgDialErr
  <2>13. CASE ClearExpired \/ Tick \/ \E cn \in Conns : BgDrop(cn) \/ Break(cn)
    BY <2>13, <2>0 DEF ClearExpired, Tick, BgDrop, Break, poolVars, callerVars
  <2>14. CASE UNCHANGED vars
    BY <2>14, <2>0 DEF vars, poolVars, callerVars
  <2> QED
    BY <2>1, <2>2, <2>3, <2>4, <2>5, <2>6, <2>7, <2>8, <2>9, <2>10, <2>11, <2>12,
       <2>13, <2>14, StepCases
<1> QED BY <1>1, <1>2, TypeCorrect, PTL DEF Spec

(* Senders and receivers agree: put never meets a closed sender, no sender *)
(* is left behind by a finished or cancelled get, and tokens are unique    *)
(* inside a list.                                                          *)
THEOREM SendersAlwaysOpen == Spec => []SendersOpen
<1>1. SenderInv => SendersOpen
  BY DEF SenderInv
<1> QED BY <1>1, SenderInvariant, PTL

-----------------------------------------------------------------------------
(* A get that left connecting to another task, in a step that does not     *)
(* touch it: its key stays marked, or its sender goes with the mark.       *)
LEMMA StillServed ==
  ASSUME TypeOK, NoStrandedWaiter, NEW d \in Callers,
         fut[d] = "stuck" /\ pc[d] = "select",
         pc'[d] = pc[d] /\ key'[d] = key[d] /\ token'[d] = token[d],
         rx'[d] = rx[d] \/ rx'[d] # "none",
         \A w \in waiters' : w \in waiters \/ w.caller # d,
         \/ key[d] \in connecting => key[d] \in connecting'
         \/ \A w \in waiters' : w.key # key[d]
  PROVE  rx'[d] # "none" \/ SenderDropped(d)' \/ key'[d] \in connecting'
<1>1. ASSUME SenderDropped(d), rx'[d] = "none" PROVE SenderDropped(d)'
  BY <1>1 DEF SenderDropped, Open
<1>2. ASSUME \A w \in waiters' : w.key # key[d], rx'[d] = "none"
      PROVE  SenderDropped(d)'
  BY <1>2 DEF SenderDropped, Open
<1> QED BY <1>1, <1>2 DEF NoStrandedWaiter

(* No get is stranded on future::pending(): while one waits for another    *)
(* task's connect, that task exists and owns the key's guard               *)
(* (GuardsExclusive), or the outcome has already reached the waiter.       *)
THEOREM NobodyStranded == Spec => []NoStrandedWaiter
<1>1. Init => NoStrandedWaiter
  BY DEF Init, NoStrandedWaiter
<1>2. TypeOK /\ HandInv /\ FutInv /\ NoStrandedWaiter /\ [Next]_vars => NoStrandedWaiter'
  <2> SUFFICES ASSUME TypeOK, HandInv, FutInv, NoStrandedWaiter, [Next]_vars,
                      NEW d \in Callers, pc'[d] = "select", fut'[d] = "stuck"
               PROVE  rx'[d] # "none" \/ SenderDropped(d)' \/ key'[d] \in connecting'
    BY DEF NoStrandedWaiter
  <2> USE PoolAssumption
  <2> DEFINE Goal == rx'[d] # "none" \/ SenderDropped(d)' \/ key'[d] \in connecting'
             Same == pc'[d] = pc[d] /\ key'[d] = key[d] /\ token'[d] = token[d]
                     /\ fut'[d] = fut[d]
  <2>0. CASE UNCHANGED <<waiters, connecting, rx, pc, key, token, fut>>
    BY <2>0, StillServed
  <2>1. ASSUME NEW c \in Callers, NEW k \in Keys,
               LookupMiss(c, k) \/ LookupFast(c, k) \/ LookupPop(c, k)
        PROVE  Goal
    <3>1. /\ key' = [key EXCEPT ![c] = k]
          /\ \E p \in {"register", "lent", "check"} : pc' = [pc EXCEPT ![c] = p]
          /\ UNCHANGED <<waiters, connecting, token, rx, fut>>
      BY <2>1 DEF LookupMiss, LookupFast, LookupPop, Enter
    <3>2. d # c
      BY <3>1 DEF TypeOK
    <3>3. Same
      BY <3>1, <3>2 DEF TypeOK
    <3> QED BY <3>1, <3>3, StillServed
  <2>2. ASSUME NEW c \in Callers,
               \/ CheckReusable(c) \/ Reserve(c) \/ CancelCheck(c) \/ Discard(c)
               \/ WaiterServed(c) \/ WaiterFailed(c) \/ DropCheckout(c) \/ CancelSelect(c)
        PROVE  Goal
    <3>1. /\ \E p \in PCs \ {"select"} : pc' = [pc EXCEPT ![c] = p]
          /\ \E r \in Conns \cup {"none"} : rx' = [rx EXCEPT ![c] = r]
          /\ fut' = fut \/ fut' = [fut EXCEPT ![c] = "none"]
          /\ waiters' \subseteq waiters
          /\ UNCHANGED <<connecting, key, token>>
      <4>1. rx = [rx EXCEPT ![c] = rx[c]] /\ rx[c] \in Conns \cup {"none"}
        BY DEF TypeOK
      <4>2. CASE CheckReusable(c) \/ Reserve(c) \/ CancelCheck(c) \/ Discard(c)
        BY <4>1, <4>2 DEF CheckReusable, Reserve, CancelCheck, Discard, poolVars, PCs
      <4>3. CASE WaiterServed(c) \/ WaiterFailed(c)
        BY <4>1, <4>3 DEF WaiterServed, WaiterFailed, poolVars, PCs
      <4>4. CASE DropCheckout(c) \/ CancelSelect(c)
        BY <4>4 DEF DropCheckout, CancelSelect, RemoveToken, PCs
      <4> QED BY <2>2, <4>2, <4>3, <4>4
    <3>2. d # c
      BY <3>1 DEF TypeOK
    <3>3. Same /\ rx'[d] = rx[d]
      BY <3>1, <3>2 DEF TypeOK
    <3> QED BY <3>1, <3>3, StillServed
  <2>3. ASSUME NEW c \in Callers, Register(c) PROVE Goal
    <3>1. d # c
      BY <2>3 DEF Register, TypeOK
    <3>2. Same /\ rx'[d] = rx[d] /\ connecting' = connecting
      BY <2>3, <3>1 DEF Register, TypeOK
    <3>3. \A w \in waiters' : w \in waiters \/ w.caller # d
      BY <2>3, <3>1 DEF Register
    <3> QED BY <3>2, <3>3, StillServed
  <2>4. ASSUME NEW c \in Callers, StartConnector(c) PROVE Goal
    <3>1. connecting \subseteq connecting' /\ UNCHANGED <<waiters, rx, pc, key, token>>
      BY <2>4 DEF StartConnector
    <3>2. CASE d = c
      <4>1. key[c] \in connecting
        BY <2>4, <3>2 DEF StartConnector, TypeOK
      <4> QED BY <3>1, <3>2, <4>1
    <3>3. CASE d # c
      <4>1. fut'[d] = fut[d]
        BY <2>4, <3>3 DEF StartConnector, TypeOK
      <4> QED BY <3>1, <4>1, StillServed
    <3> QED BY <3>2, <3>3
  <2>5. ASSUME NEW c \in Callers, DialErr(c) \/ DropConnecting(c) PROVE Goal
    <3>1. /\ \E p \in {"dropCheckout", "out"} : pc' = [pc EXCEPT ![c] = p]
          /\ fut' = fut \/ fut' = [fut EXCEPT ![c] = "none"]
          /\ Connected(key[c]) \/ UNCHANGED <<connecting, waiters, counter>>
          /\ UNCHANGED <<key, token, rx>>
      BY <2>5 DEF DialErr, DropConnecting
    <3>2. d # c
      BY <3>1 DEF TypeOK
    <3>3. Same
      BY <3>1, <3>2 DEF TypeOK
    <3>4. CASE Connected(key[c])
      BY <3>1, <3>3, <3>4, StillServed DEF Connected
    <3>5. CASE UNCHANGED <<connecting, waiters, counter>>
      BY <3>1, <3>3, <3>5, StillServed
    <3> QED BY <3>1, <3>4, <3>5
  <2>6. ASSUME NEW c \in Callers, NEW cn \in Conns, DialOk(c, cn) PROVE Goal
    <3>1. d # c
      BY <2>6 DEF DialOk, TypeOK
    <3>2. Same
      BY <2>6, <3>1 DEF DialOk, TypeOK
    <3>3. CASE PutShared(key[c], cn) /\ connecting' = connecting \ {key[c]}
      <4>1. rx'[d] = rx[d] \/ rx'[d] # "none"
        BY <3>3 DEF PutShared
      <4> QED BY <3>2, <3>3, <4>1, StillServed DEF PutShared
    <3>4. CASE UNCHANGED <<poolVars, rx>>
      BY <3>2, <3>4, StillServed DEF poolVars
    <3> QED BY <2>6, <3>3, <3>4 DEF DialOk
  <2>7. ASSUME NEW c \in Callers, Reuse(c) PROVE Goal
    <3>1. d # c
      BY <2>7 DEF Reuse, TypeOK
    <3>2. Same /\ connecting' = connecting
      BY <2>7, <3>1 DEF Reuse, TypeOK
    <3>3. waiters' \subseteq waiters
      BY <2>7 DEF Reuse, PutUnique
    <3>4. rx'[d] = rx[d] \/ rx'[d] # "none"
      <4>1. conn[c] \in Conns /\ conn[c] # "none"
        BY <2>7 DEF Reuse, HandInv, TypeOK
      <4>2. CASE PutUnique(key[c], conn[c])
        BY <4>1, <4>2 DEF PutUnique, OpenWaiters, TypeOK
      <4> QED BY <2>7, <4>2 DEF Reuse
    <3> QED BY <3>2, <3>3, <3>4, StillServed
  <2>8. ASSUME NEW k \in Keys, NEW cn \in Conns, BgDialOk(k, cn) PROVE Goal
    <3>1. UNCHANGED <<pc, key, token, fut>>
      BY <2>8 DEF BgDialOk
    <3>2. CASE PutShared(k, cn) /\ connecting' = connecting \ {k}
      <4>1. rx'[d] = rx[d] \/ rx'[d] # "none"
        BY <3>2 DEF PutShared
      <4> QED BY <3>1, <3>2, <4>1, StillServed DEF PutShared
    <3>3. CASE UNCHANGED <<poolVars, rx>>
      BY <3>1, <3>3, <2>0 DEF poolVars
    <3> QED BY <2>8, <3>2, <3>3 DEF BgDialOk
  <2>9. ASSUME NEW k \in Keys, BgDialErr(k) PROVE Goal
    <3>1. UNCHANGED <<pc, key, token, fut, rx>>
      BY <2>9 DEF BgDialErr, callerVars
    <3>2. CASE Connected(k)
      BY <3>1, <3>2, StillServed DEF Connected
    <3>3. CASE UNCHANGED <<connecting, waiters, counter>>
      BY <3>1, <3>3, <2>0
    <3> QED BY <2>9, <3>2, <3>3 DEF BgDialErr
  <2>10. CASE ClearExpired \/ Tick \/ \E cn \in Conns : BgDrop(cn) \/ Break(cn)
    BY <2>10, <2>0 DEF ClearExpired, Tick, BgDrop, Break, poolVars, callerVars
  <2>11. CASE UNCHANGED vars
    BY <2>11, <2>0 DEF vars, poolVars, callerVars
  <2> QED
    BY <2>1, <2>2, <2>3, <2>4, <2>5, <2>6, <2>7, <2>8, <2>9, <2>10, <2>11, StepCases
<1>3. GuardInv => FutInv
  BY DEF GuardInv
<1> QED BY <1>1, <1>2, <1>3, TypeCorrect, GuardInvariant, PTL DEF Spec
=============================================================================
