--------------------------- MODULE MCNopJoinMTObject ---------------------------
(***************************************************************************)
(* Instance of NopJoinMTObject for TLC, with the inputs of MCNopJoinMT.    *)
(***************************************************************************)
EXTENDS NopJoinMTObject, MCNopJoinMT
================================================================================
