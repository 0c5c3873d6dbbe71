---------------------------- MODULE MCMuxClient ----------------------------
(* Instances of MuxClient for TLC: two calls that want a reply, one of them   *)
(* with an rpc timeout, and one one-way call.                                 *)
EXTENDS MuxClient

CONSTANTS a, b, w
=============================================================================
