----------------------------- MODULE WaitingLine -----------------------------
(***************************************************************************)
(* What the waiting queue promises, whether PostgreSQL or Redis keeps it:  *)
(* whoever had entered the queue when a later one arrived is admitted no   *)
(* later than he is.  To be admitted is to have one's turn: a queue that   *)
(* hands out tokens may fail to hand out this one.                         *)
(***************************************************************************)
EXTENDS Integers, TLAPS

CONSTANTS Tickets, Places, Null

VARIABLES
  at,        \* of a ticket: its place on the queue's own clock, Null at first
  before,    \* of a ticket: those that had entered when it was given its place
  entered,   \* tickets in the queue, for all to see
  admitted   \* tickets whose turn has come

lineVars == <<at, before, entered, admitted>>

Init ==
  /\ at = [t \in Tickets |-> Null]
  /\ before = [t \in Tickets |-> {}]
  /\ entered = {}
  /\ admitted = {}

Arrive(t, place) ==
  /\ at[t] = Null
  /\ at' = [at EXCEPT ![t] = place]
  /\ before' = [before EXCEPT ![t] = entered]
  /\ UNCHANGED <<entered, admitted>>

Enter(t) ==
  /\ at[t] # Null
  /\ entered' = entered \cup {t}
  /\ UNCHANGED <<at, before, admitted>>

(* Tickets are admitted together with all that entered before they         *)
(* arrived; on an equal place the queue may admit either first.            *)
Admit(S) ==
  /\ S \subseteq entered
  /\ \A t \in S : \A e \in before[t] : at[e] < at[t] => e \in admitted \cup S
  /\ admitted' = admitted \cup S
  /\ UNCHANGED <<at, before, entered>>

Next ==
  \/ \E t \in Tickets : Enter(t) \/ \E place \in Places : Arrive(t, place)
  \/ \E S \in SUBSET Tickets : Admit(S)

Spec == Init /\ [][Next]_lineVars

-----------------------------------------------------------------------------
(* Whoever has been admitted left nobody behind who had entered when he    *)
(* arrived and has a smaller place.                                        *)
NoOvertaking ==
  \A t \in admitted : \A e \in before[t] : at[e] < at[t] => e \in admitted

(* A ticket enters with a place that it keeps.                             *)
LineInv ==
  /\ DOMAIN at = Tickets /\ DOMAIN before = Tickets
  /\ admitted \subseteq entered /\ entered \subseteq Tickets
  /\ \A t \in entered : at[t] # Null
  /\ \A t \in Tickets : before[t] \subseteq entered

LEMMA LineInductive ==
  ASSUME Null \notin Places, LineInv, NoOvertaking, [Next]_lineVars
  PROVE  LineInv' /\ NoOvertaking'
<1> USE DEF LineInv, NoOvertaking
<1>1. ASSUME NEW t \in Tickets, NEW place \in Places, Arrive(t, place)
      PROVE  LineInv' /\ NoOvertaking'
  <2>1. /\ t \notin entered /\ place # Null
        /\ \A e \in entered : at'[e] = at[e] /\ before'[e] = before[e]
    BY <1>1 DEF Arrive
  <2>2. LineInv'
    BY <1>1, <2>1 DEF Arrive
  <2>3. \A e \in admitted : before[e] \subseteq entered
    OBVIOUS
  <2>4. NoOvertaking'
    BY <1>1, <2>1, <2>3 DEF Arrive
  <2>5. QED
    BY <2>2, <2>4
<1>2. ASSUME NEW t \in Tickets, Enter(t) PROVE LineInv' /\ NoOvertaking'
  BY <1>2 DEF Enter
<1>3. ASSUME NEW S \in SUBSET Tickets, Admit(S) PROVE LineInv' /\ NoOvertaking'
  BY <1>3 DEF Admit
<1>4. CASE UNCHANGED lineVars
  BY <1>4 DEF lineVars
<1>5. QED
  BY <1>1, <1>2, <1>3, <1>4 DEF Next

(* What every implementation of the queue inherits: nobody is overtaken.   *)
THEOREM NobodyIsOvertaken == ASSUME Null \notin Places PROVE Spec => []NoOvertaking
<1>1. Init => LineInv /\ NoOvertaking
  BY DEF Init, LineInv, NoOvertaking
<1>2. LineInv /\ NoOvertaking /\ [Next]_lineVars => LineInv' /\ NoOvertaking'
  BY LineInductive
<1>3. QED
  BY <1>1, <1>2, PTL DEF Spec
=============================================================================
