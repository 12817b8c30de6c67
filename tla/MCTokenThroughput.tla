-------------------------- MODULE MCTokenThroughput --------------------------
(***************************************************************************)
(* Instances of TokenThroughput for TLC.                                   *)
(***************************************************************************)
EXTENDS MCTokenQueue, TokenThroughput
=============================================================================
