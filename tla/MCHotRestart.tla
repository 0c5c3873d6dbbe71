---------------------------- MODULE MCHotRestart ----------------------------
(* Instances of HotRestart for TLC: three generations of processes with one, two *)
(* or three listeners, or three rival processes.                                 *)
EXTENDS HotRestart

CONSTANTS a, b, c

MCOrderly == [Procs -> {{a}, {a, b}, {a, b, c}}]
MCRival == {[p \in Procs |-> IF p < N THEN {a, b} ELSE {a}]}
=============================================================================
