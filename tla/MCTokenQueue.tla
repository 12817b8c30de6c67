---------------------------- MODULE MCTokenQueue ----------------------------
(***************************************************************************)
(* Instances of TokenQueue for TLC.                                        *)
(***************************************************************************)
EXTENDS TokenQueue

CONSTANTS q1, q2, q3, q4, j1, j2

\* User 2 asks twice, the second time he may look or pay instead; user 1 asks once.
MCUserOf == [r \in Requests |-> IF r = q4 THEN 3 ELSE IF r = q3 THEN 1 ELSE 2]
=============================================================================
