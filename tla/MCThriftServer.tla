--------------------------- MODULE MCThriftServer ---------------------------
(* Instances of ThriftServer for TLC.                                         *)
EXTENDS ThriftServer

CONSTANTS x, y, z
=============================================================================
