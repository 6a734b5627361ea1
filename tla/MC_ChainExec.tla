---------------------------- MODULE MC_ChainExec ----------------------------
(* The five chains of the repository, two inputs: the empty one and an   *)
(* 80-byte block header (model values: the chains never look inside).    *)
EXTENDS ChainExec, Catalog

CONSTANTS empty, header80

MCMsgs == {empty, header80}
=============================================================================
