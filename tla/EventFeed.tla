------------------------------ MODULE EventFeed ------------------------------
(***************************************************************************)
(* What the transactional outbox promises of an event, with no status, log,*)
(* consumer or retry: it is recorded with the change it tells of, sent only*)
(* once it is recorded, and the data platform is called about it once at   *)
(* most.                                                                   *)
(***************************************************************************)
EXTENDS Naturals

CONSTANT Events

VARIABLES recorded, sent, \* sets of events
          told            \* of an event: calls of the data platform about it

feedVars == <<recorded, sent, told>>

Init ==
  /\ recorded = {}
  /\ sent = {}
  /\ told = [e \in Events |-> 0]

Record(e) ==
  /\ e \notin recorded
  /\ recorded' = recorded \cup {e}
  /\ UNCHANGED <<sent, told>>

Send(e) ==
  /\ e \in recorded
  /\ sent' = sent \cup {e}
  /\ UNCHANGED <<recorded, told>>

Tell(e) ==
  /\ e \in sent /\ told[e] = 0
  /\ told' = [told EXCEPT ![e] = 1]
  /\ UNCHANGED <<recorded, sent>>

Next == \E e \in Events : Record(e) \/ Send(e) \/ Tell(e)

Spec == Init /\ [][Next]_feedVars
=============================================================================
