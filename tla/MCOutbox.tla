------------------------------ MODULE MCOutbox ------------------------------
(***************************************************************************)
(* Instances of Outbox for TLC.                                            *)
(***************************************************************************)
EXTENDS Outbox

CONSTANTS e1, e2, t1, t2, g1, g2, j1, j2

MCTopicOf == [e \in Events |-> t1]
=============================================================================
