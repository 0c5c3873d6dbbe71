---------------------------- MODULE MCMuxServer ----------------------------
(* Instances of MuxServer for TLC: three requests share a channel with room   *)
(* for one response, so a handler can find it full, beside a one-way request. *)
EXTENDS MuxServer

CONSTANTS a, b, c, w
=============================================================================
