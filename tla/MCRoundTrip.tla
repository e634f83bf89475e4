----------------------------- MODULE MCRoundTrip -----------------------------
(***************************************************************************)
(* Model-checking instance of RoundTrip: one write per argument, one item  *)
(* per fragment and one frame of send buffer in each direction, so that    *)
(* each argument has its own frame and a full buffer can fail either       *)
(* writer.                                                                 *)
(***************************************************************************)
EXTENDS RoundTrip

MCMaxWrites == 1
MCFragCap == 1
MCSendBufferSize == 1
====
