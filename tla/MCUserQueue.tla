----------------------------- MODULE MCUserQueue -----------------------------
(***************************************************************************)
(* Instances of UserQueue for TLC.                                         *)
(***************************************************************************)
EXTENDS UserQueue

CONSTANTS r1, r2, r3, r4, j1, j2, u1, u2, u3

\* One user asks twice, two ask once.
MCUserOf == [r \in Requests |-> IF r = r3 THEN u2 ELSE IF r = r4 THEN u3 ELSE u1]
=============================================================================
