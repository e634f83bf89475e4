--------------------------- MODULE MCReqResWriter ---------------------------
(***************************************************************************)
(* Model-checking instance of ReqResWriter.  Two writes per argument and a *)
(* fragment with room for two items make arguments span fragments and     *)
(* share them; a send buffer of one frame makes the buffer-full path      *)
(* reachable after a single unsent frame.                                  *)
(***************************************************************************)
EXTENDS ReqResWriter

MCMaxWrites == 2
MCFragCap == 2
MCSendBufferSize == 1
====
