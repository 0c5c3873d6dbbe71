----------------------------- MODULE MCPoolsLive ----------------------------
(* The pools of the Thrift and of the HTTP client for TLC, with fairness. A   *)
(* behaviour is one of one of them; the other rests in an initial state.      *)
EXTENDS ThriftPool

CONSTANTS Reqs, Alpn

VARIABLES
    part,       \* whose behaviour this is
    hConnecting, keyed, hIdle, hWaiters, hPc, ver, dial, guard, hRx, held,
    proto, open, busy, returned, waiting

httpVars == <<hConnecting, keyed, hIdle, hWaiters, hPc, ver, dial, guard, hRx, held,
              proto, open, busy, returned, waiting>>
allVars == <<part, vars, httpVars>>

H == INSTANCE HttpPool WITH
       connecting <- hConnecting, idle <- hIdle, waiters <- hWaiters, pc <- hPc, rx <- hRx

SomeKey == CHOOSE k \in Keys : TRUE

\* The address of a connection is set when it is made and a caller's when it calls:
\* the initial ones are never used.
MCInit ==
    /\ Init /\ H!Init
    /\ peer = [c \in Conns |-> SomeKey] /\ key = [c \in Callers |-> SomeKey]
    /\ \/ part = "thrift" /\ ver = [r \in Reqs |-> "h1"]
       \/ part = "http" /\ ~shared

MCNext ==
    \/ part = "thrift" /\ Next /\ UNCHANGED <<part, httpVars>>
    \/ part = "http" /\ H!Next /\ UNCHANGED <<part, vars>>

\* The fairness of ThriftPool's and of HttpPool's FairSpec, with one condition for
\* all spawned connects: each of them ends once.
MCFairSpec ==
    /\ MCInit /\ [][MCNext]_allVars
    /\ \A c \in Callers : WF_vars(part = "thrift" /\ GetStep(c))
    /\ WF_vars(part = "thrift" /\ \E k \in Keys : BgDialDone(k))
    /\ \A r \in Reqs :
         /\ WF_httpVars(part = "http" /\ H!ReqStep(r))
         /\ WF_httpVars(part = "http" /\ H!DialStep(r))

\* Every request that asks the HTTP pool for a connection gets one or an error
\* (HttpPool).
RequestEnds == H!RequestEnds
=============================================================================
