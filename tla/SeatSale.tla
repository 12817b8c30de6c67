------------------------------ MODULE SeatSale ------------------------------
(***************************************************************************)
(* What the booking service promises, with no requests, transactions or    *)
(* versions: a seat is held for a while, a held seat is sold once, to a    *)
(* user who pays for it out of a balance that only charging raises.        *)
(***************************************************************************)
EXTENDS Integers

CONSTANTS Users, Seats, Price, HoldTime, MaxPoint, InitialPoint, Null

VARIABLES
  clock,
  hold,     \* of a seat: when its last hold lapses, Null before the first
  buyers,   \* of a seat: the users who bought it
  balance   \* of a user

saleVars == <<clock, hold, buyers, balance>>

Init ==
  /\ clock = 0
  /\ hold = [s \in Seats |-> Null]
  /\ buyers = [s \in Seats |-> {}]
  /\ balance = InitialPoint

(* A seat nobody bought and nobody holds any longer is held, for HoldTime  *)
(* at most from now.                                                       *)
Hold(s, until) ==
  /\ buyers[s] = {}
  /\ hold[s] # Null => hold[s] <= clock /\ hold[s] < until
  /\ until <= clock + HoldTime
  /\ hold' = [hold EXCEPT ![s] = until]
  /\ UNCHANGED <<clock, buyers, balance>>

Sell(s, u) ==
  /\ buyers[s] = {}
  /\ hold[s] # Null
  /\ 0 < Price[s] /\ Price[s] <= balance[u]
  /\ buyers' = [buyers EXCEPT ![s] = {u}]
  /\ balance' = [balance EXCEPT ![u] = @ - Price[s]]
  /\ UNCHANGED <<clock, hold>>

Charge(u, amount) ==
  /\ 0 < amount /\ balance[u] + amount <= MaxPoint
  /\ balance' = [balance EXCEPT ![u] = @ + amount]
  /\ UNCHANGED <<clock, hold, buyers>>

TimePasses ==
  /\ clock' = clock + 1
  /\ UNCHANGED <<hold, buyers, balance>>

Next ==
  \/ \E s \in Seats : \E until \in 0 .. clock + HoldTime : Hold(s, until)
  \/ \E s \in Seats, u \in Users : Sell(s, u)
  \/ \E u \in Users : \E amount \in 1 .. MaxPoint : Charge(u, amount)
  \/ TimePasses

Spec == Init /\ [][Next]_saleVars
=============================================================================
