------------------------------- MODULE MCCall -------------------------------
(***************************************************************************)
(* Model-checking instance of Call: two writes per argument into           *)
(* fragments with room for two items, so that an argument can span two    *)
(* fragments and two arguments can share one; one frame of send buffer.   *)
(***************************************************************************)
EXTENDS Call

MCMaxWrites == 2
MCFragCap == 2
MCSendBufferSize == 1
====
