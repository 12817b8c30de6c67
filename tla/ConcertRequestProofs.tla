------------------------ MODULE ConcertRequestProofs ------------------------
(***************************************************************************)
(* Proofs of what ConcertBooking owes to the order of its row locks, that  *)
(* no requests wait for one another in a circle; to SELECT ... FOR UPDATE, *)
(* that the balances are what the history says; to its transactions, that  *)
(* what each client is told is true; and to its check of the schedule, that*)
(* a seat is booked early only where that check looks at another schedule. *)
(***************************************************************************)
EXTENDS ConcertSaleProofs

(* A lock is held by a request that has taken it and not ended since.      *)
BookingLockers == {"readPaidSeat", "updatePaidSeat", "usePoint", "commitPayment"}

PointLockers == {"commitPayment", "commitCharge"}

LocksOK(r) ==
  /\ \A s \in Seats : seatLock[s] = r => pc[r] \in SeatWriters
  /\ \A b \in BookRequests : bookingLock[b] = r => pc[r] \in BookingLockers
  /\ \A u \in Users : pointLock[u] = r => pc[r] \in PointLockers

LockInv == \A r \in Requests : LocksOK(r)

LEMMA InitLocks == Init => LockInv
BY NullAssumption DEF Init, LockInv, LocksOK

(* A step of r: nobody else moves, or gets a lock.                         *)
LockFrame(r) ==
  /\ \A q \in Requests \ {r} : pc'[q] = pc[q]
  /\ \A s \in Seats : seatLock'[s] \in {seatLock[s], r, Null}
  /\ \A b \in BookRequests : bookingLock'[b] \in {bookingLock[b], r, Null}
  /\ \A u \in Users : pointLock'[u] \in {pointLock[u], r, Null}

LEMMA OthersKeepLocks ==
  ASSUME LockInv, NEW r \in Requests, LockFrame(r), LocksOK(r)'
  PROVE  LockInv'
<1>1. ASSUME NEW q \in Requests, q # r PROVE LocksOK(q)'
  BY <1>1, NullAssumption DEF LockInv, LocksOK, LockFrame
<1>2. QED
  BY <1>1 DEF LockInv

(* A step that ends the transaction, by a commit or a rollback.            *)
LEMMA EndReleases ==
  ASSUME TypeOK, LockInv, NEW r \in Requests, NEW step, EndTransaction(r), Goto(r, step)
  PROVE  LockInv'
<1>1. LocksOK(r)'
  BY NullAssumption DEF EndTransaction, UnlockedBy, LocksOK, TypeOK
<1>2. LockFrame(r)
  BY DEF EndTransaction, UnlockedBy, Goto, LockFrame, TypeOK
<1>3. QED
  BY <1>1, <1>2, OthersKeepLocks

(* A step that changes no lock, and loses none that r has.                 *)
LEMMA LocksUnchanged ==
  ASSUME TypeOK, LockInv, NEW r \in Requests, NEW step, UNCHANGED locks, Goto(r, step),
         pc[r] \in SeatWriters => step \in SeatWriters,
         pc[r] \in BookingLockers => step \in BookingLockers,
         pc[r] \in PointLockers => step \in PointLockers
  PROVE  LockInv'
<1>1. LocksOK(r)'
  BY DEF LockInv, LocksOK, Goto, locks, TypeOK
<1>2. LockFrame(r)
  BY DEF Goto, LockFrame, locks, TypeOK
<1>3. QED
  BY <1>1, <1>2, OthersKeepLocks

LEMMA BookLocks ==
  ASSUME TypeOK, LockInv, NEW r \in BookRequests, StartBook(r) \/ BookStep(r)
  PROVE  LockInv'
<1> USE DEF SeatWriters, BookingLockers, PointLockers
<1>1. r \in Requests
  BY DEF Requests
<1>2. CASE Reject(r)
  BY <1>1, <1>2, EndReleases DEF Reject, Abort
<1>3. CASE StartBook(r)
  BY <1>1, <1>3, LocksUnchanged DEF StartBook
<1>4. CASE ValidateSchedule(r) /\ ~Reject(r)
  BY <1>1, <1>4, LocksUnchanged DEF ValidateSchedule
<1>5. CASE ReadSeat(r) /\ ~Reject(r)
  BY <1>1, <1>5, LocksUnchanged DEF ReadSeat, locks
<1>6. CASE UpdateSeat(r) /\ ~Reject(r)
  <2>1. LocksOK(r)'
    BY <1>1, <1>6 DEF UpdateSeat, WriteSeat, Goto, LockInv, LocksOK, TypeOK
  <2>2. LockFrame(r)
    BY <1>1, <1>6 DEF UpdateSeat, WriteSeat, Goto, LockFrame, TypeOK
  <2>3. QED
    BY <1>1, <2>1, <2>2, OthersKeepLocks
<1>7. CASE SaveBooking(r)
  BY <1>1, <1>7, LocksUnchanged DEF SaveBooking
<1>8. CASE CommitBooking(r)
  BY <1>1, <1>8, EndReleases DEF CommitBooking
<1>9. CASE PublishBooking(r)
  BY <1>1, <1>9, LocksUnchanged DEF PublishBooking
<1>10. QED
  BY <1>2, <1>3, <1>4, <1>5, <1>6, <1>7, <1>8, <1>9 DEF BookStep

LEMMA PayLocks ==
  ASSUME TypeOK, LockInv, NEW r \in PayRequests, StartPay(r) \/ PayStep(r)
  PROVE  LockInv'
<1> USE DEF SeatWriters, BookingLockers, PointLockers
<1>1. r \in Requests
  BY DEF Requests
<1>2. CASE Reject(r)
  BY <1>1, <1>2, EndReleases DEF Reject, Abort
<1>3. CASE StartPay(r)
  BY <1>1, <1>3, LocksUnchanged DEF StartPay
<1>4. CASE ReadBooking(r) /\ ~Reject(r)
  BY <1>1, <1>4, LocksUnchanged DEF ReadBooking
<1>5. CASE UpdateBooking(r) /\ ~Reject(r)
  <2>1. LocksOK(r)'
    BY <1>1, <1>5 DEF UpdateBooking, Goto, LockInv, LocksOK, TypeOK
  <2>2. LockFrame(r)
    BY <1>1, <1>5 DEF UpdateBooking, Goto, LockFrame, TypeOK
  <2>3. QED
    BY <1>1, <2>1, <2>2, OthersKeepLocks
<1>6. CASE ReadPaidSeat(r) /\ ~Reject(r)
  BY <1>1, <1>6, LocksUnchanged DEF ReadPaidSeat
<1>7. CASE UpdatePaidSeat(r) /\ ~Reject(r)
  <2>1. LocksOK(r)'
    BY <1>1, <1>7 DEF UpdatePaidSeat, WriteSeat, Goto, LockInv, LocksOK, TypeOK
  <2>2. LockFrame(r)
    BY <1>1, <1>7 DEF UpdatePaidSeat, WriteSeat, Goto, LockFrame, TypeOK
  <2>3. QED
    BY <1>1, <2>1, <2>2, OthersKeepLocks
<1>8. CASE UsePoint(r) /\ ~Reject(r)
  <2>1. LocksOK(r)'
    BY <1>1, <1>8 DEF UsePoint, WritePoint, Goto, LockInv, LocksOK, TypeOK
  <2>2. LockFrame(r)
    BY <1>1, <1>8 DEF UsePoint, WritePoint, Goto, LockFrame, TypeOK
  <2>3. QED
    BY <1>1, <2>1, <2>2, OthersKeepLocks
<1>9. CASE CommitPayment(r)
  BY <1>1, <1>9, EndReleases DEF CommitPayment
<1>10. CASE PublishPayment(r)
  BY <1>1, <1>10, LocksUnchanged DEF PublishPayment
<1>11. CASE ExpireToken(r)
  BY <1>1, <1>11, LocksUnchanged DEF ExpireToken
<1>12. QED
  BY <1>2, <1>3, <1>4, <1>5, <1>6, <1>7, <1>8, <1>9, <1>10, <1>11 DEF PayStep

LEMMA ChargeLocks ==
  ASSUME TypeOK, LockInv, NEW r \in ChargeRequests, StartCharge(r) \/ ChargeStep(r)
  PROVE  LockInv'
<1> USE DEF SeatWriters, BookingLockers, PointLockers
<1>1. r \in Requests
  BY DEF Requests
<1>2. CASE Reject(r)
  BY <1>1, <1>2, EndReleases DEF Reject, Abort
<1>3. CASE StartCharge(r)
  BY <1>1, <1>3, LocksUnchanged DEF StartCharge
<1>4. CASE ChargePoint(r) /\ ~Reject(r)
  <2>1. LocksOK(r)'
    BY <1>1, <1>4 DEF ChargePoint, WritePoint, Goto, LockInv, LocksOK, TypeOK
  <2>2. LockFrame(r)
    BY <1>1, <1>4 DEF ChargePoint, WritePoint, Goto, LockFrame, TypeOK
  <2>3. QED
    BY <1>1, <2>1, <2>2, OthersKeepLocks
<1>5. CASE CommitCharge(r)
  BY <1>1, <1>5, EndReleases DEF CommitCharge
<1>6. QED
  BY <1>2, <1>3, <1>4, <1>5 DEF ChargeStep

LEMMA NextLocks == TypeOK /\ LockInv /\ [Next]_vars => LockInv'
<1> SUFFICES ASSUME TypeOK, LockInv, [Next]_vars PROVE LockInv'
  OBVIOUS
<1>1. ASSUME NEW r \in Requests, Fail(r) PROVE LockInv'
  BY <1>1, EndReleases DEF Fail, Abort
<1>2. CASE Tick \/ UNCHANGED vars
  BY <1>2 DEF Tick, vars, locks, LockInv, LocksOK
<1>3. QED
  BY <1>1, <1>2, BookLocks, PayLocks, ChargeLocks DEF Next

LEMMA LocksInductive == Spec => [](IInv /\ LockInv)
<1>1. IInv /\ LockInv /\ [Next]_vars => LockInv'
  BY NextLocks DEF IInv, TypeInv
<1>2. QED
  BY <1>1, InitLocks, InductiveInv, PTL DEF Spec

-----------------------------------------------------------------------------
(* The order of the locks.                                                 *)

(* How far a transaction has come: it waits for a row only at a stage that *)
(* no holder of such a row can be at, or before.                           *)
Stage(r) ==
  CASE pc[r] = "updateBooking" -> 1
    [] pc[r] \in {"readPaidSeat", "updatePaidSeat", "updateSeat"} -> 2
    [] pc[r] \in {"usePoint", "chargePoint", "saveBooking", "commitBooking"} -> 3
    [] pc[r] \in PointLockers -> 4
    [] OTHER -> 0

LEMMA StageIsSmall == \A r : Stage(r) \in 0 .. 4
BY DEF Stage, PointLockers

(* The rows that requests wait for are those of the tables.                *)
LEMMA WantedRows ==
  ASSUME IInv, NEW r \in Requests
  PROVE  /\ pc[r] = "updateBooking" => dto[r].booking \in BookRequests
         /\ pc[r] \in {"updateSeat", "updatePaidSeat"} => SeatOf(r) \in Seats
         /\ pc[r] \in {"usePoint", "chargePoint"} => dto[r].user \in Users
<1> USE DEF IInv, TypeInv, ControlOK, BookPC, PayPC, ChargePC, Terminal
<1>1. CASE r \in BookRequests
  BY <1>1 DEF BookDto, SeatOf
<1>2. CASE r \in PayRequests
  BY <1>2, RequestsAssumption DEF PayDto, SeatOf, BookingRow
<1>3. CASE r \in ChargeRequests
  BY <1>3 DEF ChargeDto
<1>4. QED
  BY <1>1, <1>2, <1>3 DEF Requests

LEMMA WaitsForHigherStage ==
  ASSUME IInv, LockInv, NEW r \in Requests, NEW q \in Requests, WaitsFor(r, q)
  PROVE  Stage(r) < Stage(q)
<1>1. CASE pc[r] = "updateBooking" /\ bookingLock[dto[r].booking] = q
  <2>1. pc[q] \in BookingLockers
    BY <1>1, WantedRows DEF LockInv, LocksOK
  <2>2. QED
    BY <1>1, <2>1 DEF Stage, BookingLockers, PointLockers
<1>2. CASE pc[r] \in {"updateSeat", "updatePaidSeat"} /\ seatLock[SeatOf(r)] = q
  <2>1. pc[q] \in SeatWriters
    BY <1>2, WantedRows DEF LockInv, LocksOK
  <2>2. QED
    BY <1>2, <2>1 DEF Stage, SeatWriters, PointLockers
<1>3. CASE pc[r] \in {"usePoint", "chargePoint"} /\ pointLock[dto[r].user] = q
  <2>1. pc[q] \in PointLockers
    BY <1>3, WantedRows DEF LockInv, LocksOK
  <2>2. QED
    BY <1>3, <2>1 DEF Stage, PointLockers
<1>4. QED
  BY <1>1, <1>2, <1>3 DEF WaitsFor

LEMMA NoCircle ==
  ASSUME IInv, LockInv, NEW R \in (SUBSET Requests) \ {{}}
  PROVE  \E r \in R : \A q \in R : ~WaitsFor(r, q)
<1> SUFFICES ASSUME \A r \in R : \E q \in R : WaitsFor(r, q) PROVE FALSE
  OBVIOUS
<1>1. \A r \in R : \E q \in R : Stage(r) < Stage(q)
  BY WaitsForHigherStage
<1>2. PICK r0 \in R : TRUE
  OBVIOUS
<1>3. PICK r1 \in R : Stage(r0) < Stage(r1)
  BY <1>1
<1>4. PICK r2 \in R : Stage(r1) < Stage(r2)
  BY <1>1
<1>5. PICK r3 \in R : Stage(r2) < Stage(r3)
  BY <1>1
<1>6. PICK r4 \in R : Stage(r3) < Stage(r4)
  BY <1>1
<1>7. PICK r5 \in R : Stage(r4) < Stage(r5)
  BY <1>1
<1>8. QED
  BY <1>3, <1>4, <1>5, <1>6, <1>7, StageIsSmall

(* For any number of requests, users and rows: no circle of waiting        *)
(* requests, and no lock left behind by a request that has ended.          *)
THEOREM NoRequestsDeadlock == Spec => []NoDeadlock
<1>1. ASSUME IInv, LockInv, NEW r \in Requests, NEW q \in Requests, WaitsFor(r, q)
      PROVE  pc[q] \notin {"idle", "publish", "expireToken"} \cup Terminal
  <2>1. Stage(q) > 0
    BY <1>1, WaitsForHigherStage, StageIsSmall
  <2>2. QED
    BY <2>1 DEF Stage, Terminal, PointLockers
<1>2. IInv /\ LockInv => NoDeadlock
  BY <1>1, NoCircle DEF NoDeadlock
<1>3. QED
  BY <1>2, LocksInductive, PTL

-----------------------------------------------------------------------------
(* The ledger.  A commit adds one row to the history: the sums, counted    *)
(* point by point, grow by its amount, and no row is there before.         *)

Types == {"CHARGE", "USE"}

LedgerInv ==
  /\ \A u \in Users, type \in Types : IsFiniteSet(HistoryPoints(u, type))
  /\ Ledger
  /\ \A r \in ChargeRequests : pc[r] \notin Done => history[r] = Null

PointsOf(r, amount) == {r} \X (1 .. amount)

LEMMA AmountOfPoints ==
  ASSUME NEW r, NEW amount \in Nat
  PROVE  IsFiniteSet(PointsOf(r, amount)) /\ Cardinality(PointsOf(r, amount)) = amount
<1>1. IsFiniteSet({r}) /\ Cardinality({r}) = 1
  BY FS_Singleton
<1>2. IsFiniteSet(1 .. amount) /\ Cardinality(1 .. amount) = amount
  BY FS_Interval
<1>3. /\ IsFiniteSet({r} \X (1 .. amount))
      /\ Cardinality({r} \X (1 .. amount)) = 1 * amount
  BY <1>1, <1>2, FS_Product
<1>4. QED
  BY <1>3 DEF PointsOf

(* The row that r inserts.                                                 *)
Inserts(r, user, amount, type) ==
  /\ r \in PayRequests \cup ChargeRequests /\ history[r] = Null
  /\ history'[r] = [user |-> user, amount |-> amount, type |-> type]
  /\ \A q \in (PayRequests \cup ChargeRequests) \ {r} : history'[q] = history[q]

LEMMA InsertedPoints ==
  ASSUME NEW r, NEW user \in Users, NEW amount \in Nat \ {0}, NEW type \in Types,
         Inserts(r, user, amount, type)
  PROVE  /\ HistoryPoints(user, type)' = HistoryPoints(user, type) \cup PointsOf(r, amount)
         /\ HistoryPoints(user, type) \cap PointsOf(r, amount) = {}
         /\ \A u \in Users, y \in Types :
              u # user \/ y # type => HistoryPoints(u, y)' = HistoryPoints(u, y)
<1> DEFINE Row(u, y) == {q \in PayRequests \cup ChargeRequests :
                           history[q] # Null /\ history[q].user = u /\ history[q].type = y}
           Row2(u, y) == {q \in PayRequests \cup ChargeRequests :
                           history'[q] # Null /\ history'[q].user = u /\ history'[q].type = y}
<1>1. history'[r] \in HistoryRow
  BY DEF Inserts, HistoryRow, Types
<1>2. history'[r] # Null
  BY <1>1, NullAssumption
<1>3. Row2(user, type) = Row(user, type) \cup {r} /\ r \notin Row(user, type)
  BY <1>2 DEF Inserts
<1>4. \A u \in Users, y \in Types : u # user \/ y # type => Row2(u, y) = Row(u, y)
  BY DEF Inserts
<1>5. \A u, y : r \notin Row(u, y)
  BY DEF Inserts
<1>6. \A u, y : \A q \in Row(u, y) : history'[q].amount = history[q].amount
  BY <1>5 DEF Inserts
<1>7. history'[r].amount = amount
  BY DEF Inserts
<1> HIDE DEF Row, Row2
<1>8. \A u, y : HistoryPoints(u, y) = UNION {{q} \X (1 .. history[q].amount) : q \in Row(u, y)}
  BY DEF HistoryPoints, Row
<1>9. \A u, y :
        HistoryPoints(u, y)' = UNION {{q} \X (1 .. history'[q].amount) : q \in Row2(u, y)}
  BY DEF HistoryPoints, Row2
<1>10. HistoryPoints(user, type)' = HistoryPoints(user, type) \cup PointsOf(r, amount)
  BY <1>3, <1>6, <1>7, <1>8, <1>9 DEF PointsOf
<1>11. HistoryPoints(user, type) \cap PointsOf(r, amount) = {}
  BY <1>3, <1>8 DEF PointsOf
<1>12. ASSUME NEW u \in Users, NEW y \in Types, u # user \/ y # type
       PROVE  HistoryPoints(u, y)' = HistoryPoints(u, y)
  <2>1. Row2(u, y) = Row(u, y)
    BY <1>4, <1>12
  <2>2. \A q \in Row(u, y) : {q} \X (1 .. history'[q].amount) = {q} \X (1 .. history[q].amount)
    BY <1>6
  <2>3. {{q} \X (1 .. history'[q].amount) : q \in Row2(u, y)}
          = {{q} \X (1 .. history[q].amount) : q \in Row(u, y)}
    BY <2>1, <2>2
  <2>4. QED
    BY <1>8, <1>9, <2>3
<1>13. QED
  BY <1>10, <1>11, <1>12

(* The sums after that insertion.                                          *)
LEMMA InsertedSums ==
  ASSUME LedgerInv,
         NEW r, NEW user \in Users, NEW amount \in Nat \ {0}, NEW type \in Types,
         Inserts(r, user, amount, type)
  PROVE  /\ \A u \in Users, y \in Types : IsFiniteSet(HistoryPoints(u, y)')
         /\ Cardinality(HistoryPoints(user, type)')
              = Cardinality(HistoryPoints(user, type)) + amount
         /\ \A u \in Users, y \in Types : u # user \/ y # type =>
              Cardinality(HistoryPoints(u, y)') = Cardinality(HistoryPoints(u, y))
<1> DEFINE old == HistoryPoints(user, type)  new == PointsOf(r, amount)
<1>1. /\ HistoryPoints(user, type)' = old \cup new /\ old \cap new = {}
      /\ \A u \in Users, y \in Types :
           u # user \/ y # type => HistoryPoints(u, y)' = HistoryPoints(u, y)
  BY InsertedPoints
<1>2. IsFiniteSet(new) /\ Cardinality(new) = amount
  BY AmountOfPoints
<1>3. \A u \in Users, y \in Types : IsFiniteSet(HistoryPoints(u, y))
  BY DEF LedgerInv
<1>4. IsFiniteSet(old) /\ Cardinality(old) \in Nat
  BY <1>3, FS_CardinalityType
<1>5. Cardinality({}) = 0
  BY FS_EmptySet
<1>6. /\ IsFiniteSet(old \cup new)
      /\ Cardinality(old \cup new) = Cardinality(old) + Cardinality(new) - Cardinality(old \cap new)
  BY <1>2, <1>4, FS_Union
<1>7. Cardinality(old \cup new) = Cardinality(old) + amount
  BY <1>1, <1>2, <1>4, <1>5, <1>6
<1>8. ASSUME NEW u \in Users, NEW y \in Types PROVE IsFiniteSet(HistoryPoints(u, y)')
  BY <1>1, <1>3, <1>6
<1>9. QED
  BY <1>1, <1>7, <1>8

LEMMA InitLedger == Init => LedgerInv
<1> SUFFICES ASSUME Init PROVE LedgerInv
  OBVIOUS
<1>1. \A u, y : HistoryPoints(u, y) = {}
  BY DEF Init, HistoryPoints
<1>2. IsFiniteSet({}) /\ Cardinality({}) = 0
  BY FS_EmptySet
<1>3. \A u \in Users : InitialPoint[u] = InitialPoint[u] + 0 - 0
  BY PointAssumption
<1>4. QED
  BY <1>1, <1>2, <1>3 DEF Init, LedgerInv, Ledger

(* Steps that touch no balance and no history row.                         *)
LEMMA LedgerKept ==
  ASSUME LedgerInv, point' = point, history' = history,
         \A r \in ChargeRequests : pc[r] \in Done => pc'[r] \in Done
  PROVE  LedgerInv'
<1>1. \A u, y : HistoryPoints(u, y)' = HistoryPoints(u, y)
  BY DEF HistoryPoints
<1>2. QED
  BY <1>1 DEF LedgerInv, Ledger

LEMMA CommitPaymentLedger ==
  ASSUME IInv, SaleInv, LedgerInv, NEW r \in PayRequests, CommitPayment(r)
  PROVE  LedgerInv'
<1>0. PICK b0, u0, s0 : b0 = dto[r].booking /\ u0 = dto[r].user /\ s0 = txBooking[r].seat
  OBVIOUS
<1>1. PaymentCommits(r, b0, u0, s0)
  BY <1>0, CommitPaymentFacts
<1>2. PICK price : price = Price[s0] /\ price \in Nat \ {0}
  BY <1>1 DEF PaymentCommits
<1>3. /\ u0 \in Users /\ history[r] = Null
      /\ history'[r] = [user |-> u0, amount |-> price, type |-> "USE"]
      /\ point' = [point EXCEPT ![u0] = point[u0] - price]
  BY <1>1, <1>2 DEF PaymentCommits, SaleInv, RowsOK, PaymentIsWhole
<1>4. /\ \A q \in (PayRequests \cup ChargeRequests) \ {r} : history'[q] = history[q]
      /\ \A q \in ChargeRequests : pc'[q] = pc[q]
  BY RequestsAssumption DEF CommitPayment, Goto, IInv, TypeInv, TypeOK, Requests
<1>5. Inserts(r, u0, price, "USE")
  BY <1>3, <1>4 DEF Inserts
<1>6. "USE" \in Types /\ "CHARGE" \in Types
  BY DEF Types
<1>7. /\ \A u \in Users, y \in Types : IsFiniteSet(HistoryPoints(u, y)')
      /\ Cardinality(HistoryPoints(u0, "USE")') = Cardinality(HistoryPoints(u0, "USE")) + price
      /\ \A u \in Users, y \in Types : u # u0 \/ y # "USE" =>
           Cardinality(HistoryPoints(u, y)') = Cardinality(HistoryPoints(u, y))
  BY <1>2, <1>3, <1>5, <1>6, InsertedSums
<1>8. ASSUME NEW u \in Users
      PROVE  point'[u] = InitialPoint[u] + Cardinality(HistoryPoints(u, "CHARGE")')
                                         - Cardinality(HistoryPoints(u, "USE")')
  <2>1. point[u] = InitialPoint[u] + Cardinality(HistoryPoints(u, "CHARGE"))
                                   - Cardinality(HistoryPoints(u, "USE"))
    BY DEF LedgerInv, Ledger
  <2>2. /\ Cardinality(HistoryPoints(u, "CHARGE")) \in Nat
        /\ Cardinality(HistoryPoints(u, "USE")) \in Nat
    BY <1>6, FS_CardinalityType DEF LedgerInv
  <2>3. Cardinality(HistoryPoints(u, "CHARGE")') = Cardinality(HistoryPoints(u, "CHARGE"))
    BY <1>6, <1>7
  <2>4. InitialPoint[u] \in Int /\ point \in [Users -> Int]
    BY PointAssumption DEF IInv, TypeInv, TypeOK
  <2>5. CASE u = u0
    <3>1. point'[u] = point[u] - price
      BY <1>3, <2>4, <2>5
    <3>2. Cardinality(HistoryPoints(u, "USE")') = Cardinality(HistoryPoints(u, "USE")) + price
      BY <1>7, <2>5
    <3>3. QED
      BY <1>2, <2>1, <2>2, <2>3, <2>4, <3>1, <3>2
  <2>6. CASE u # u0
    <3>1. point'[u] = point[u]
      BY <1>3, <2>4, <2>6
    <3>2. Cardinality(HistoryPoints(u, "USE")') = Cardinality(HistoryPoints(u, "USE"))
      BY <1>6, <1>7, <2>6
    <3>3. QED
      BY <2>1, <2>3, <3>1, <3>2
  <2>7. QED
    BY <2>5, <2>6
<1>9. Ledger'
  BY <1>8 DEF Ledger
<1>10. \A q \in ChargeRequests : pc'[q] \notin Done => history'[q] = Null
  BY <1>4, RequestsAssumption DEF LedgerInv
<1>11. QED
  BY <1>7, <1>9, <1>10 DEF LedgerInv

LEMMA CommitChargeLedger ==
  ASSUME IInv, SaleInv, LedgerInv, NEW r \in ChargeRequests, CommitCharge(r)
  PROVE  LedgerInv'
<1>0. PICK u0, amount : u0 = dto[r].user /\ amount = dto[r].amount
  OBVIOUS
<1>1. /\ u0 \in Users /\ amount \in Nat \ {0}
      /\ point' = [point EXCEPT ![u0] = point[u0] + amount]
  BY <1>0, CommitChargeFacts
<1>2. /\ pc[r] \notin Done /\ pc'[r] \in Done
      /\ history'[r] = [user |-> u0, amount |-> amount, type |-> "CHARGE"]
      /\ \A q \in (PayRequests \cup ChargeRequests) \ {r} : history'[q] = history[q]
      /\ \A q \in ChargeRequests \ {r} : pc'[q] = pc[q]
  BY <1>0 DEF CommitCharge, NewHistory, Goto, Done, Terminal, IInv, TypeInv, TypeOK, Requests
<1>3. history[r] = Null
  BY <1>2 DEF LedgerInv
<1>4. Inserts(r, u0, amount, "CHARGE")
  BY <1>2, <1>3 DEF Inserts
<1>5. "USE" \in Types /\ "CHARGE" \in Types
  BY DEF Types
<1>6. /\ \A u \in Users, y \in Types : IsFiniteSet(HistoryPoints(u, y)')
      /\ Cardinality(HistoryPoints(u0, "CHARGE")')
           = Cardinality(HistoryPoints(u0, "CHARGE")) + amount
      /\ \A u \in Users, y \in Types : u # u0 \/ y # "CHARGE" =>
           Cardinality(HistoryPoints(u, y)') = Cardinality(HistoryPoints(u, y))
  BY <1>1, <1>4, <1>5, InsertedSums
<1>7. ASSUME NEW u \in Users
      PROVE  point'[u] = InitialPoint[u] + Cardinality(HistoryPoints(u, "CHARGE")')
                                         - Cardinality(HistoryPoints(u, "USE")')
  <2>1. point[u] = InitialPoint[u] + Cardinality(HistoryPoints(u, "CHARGE"))
                                   - Cardinality(HistoryPoints(u, "USE"))
    BY DEF LedgerInv, Ledger
  <2>2. /\ Cardinality(HistoryPoints(u, "CHARGE")) \in Nat
        /\ Cardinality(HistoryPoints(u, "USE")) \in Nat
    BY <1>5, FS_CardinalityType DEF LedgerInv
  <2>3. Cardinality(HistoryPoints(u, "USE")') = Cardinality(HistoryPoints(u, "USE"))
    BY <1>5, <1>6
  <2>4. InitialPoint[u] \in Int /\ point \in [Users -> Int]
    BY PointAssumption DEF IInv, TypeInv, TypeOK
  <2>5. CASE u = u0
    <3>1. point'[u] = point[u] + amount
      BY <1>1, <2>4, <2>5
    <3>2. Cardinality(HistoryPoints(u, "CHARGE")')
            = Cardinality(HistoryPoints(u, "CHARGE")) + amount
      BY <1>6, <2>5
    <3>3. QED
      BY <1>1, <2>1, <2>2, <2>3, <2>4, <3>1, <3>2
  <2>6. CASE u # u0
    <3>1. point'[u] = point[u]
      BY <1>1, <2>4, <2>6
    <3>2. Cardinality(HistoryPoints(u, "CHARGE")') = Cardinality(HistoryPoints(u, "CHARGE"))
      BY <1>5, <1>6, <2>6
    <3>3. QED
      BY <2>1, <2>3, <3>1, <3>2
  <2>7. QED
    BY <2>5, <2>6
<1>8. Ledger'
  BY <1>7 DEF Ledger
<1>9. \A q \in ChargeRequests : pc'[q] \notin Done => history'[q] = Null
  BY <1>2 DEF LedgerInv
<1>10. QED
  BY <1>6, <1>8, <1>9 DEF LedgerInv

LEMMA NextLedger == IInv /\ SaleInv /\ LedgerInv /\ [Next]_vars => LedgerInv'
<1> SUFFICES ASSUME IInv, SaleInv, LedgerInv, [Next]_vars PROVE LedgerInv'
  OBVIOUS
<1>1. ASSUME NEW r \in Requests, Frame(r),
             r \in ChargeRequests /\ pc[r] \in Done => pc'[r] \in Done
      PROVE  LedgerInv'
  BY <1>1, LedgerKept DEF Frame, Requests
<1>2. ASSUME NEW r \in BookRequests, StartBook(r) \/ BookStep(r), ~CommitBooking(r)
      PROVE  LedgerInv'
  BY <1>1, <1>2, BookFrame, RequestsAssumption DEF Requests
<1>3. ASSUME NEW r \in BookRequests, CommitBooking(r) PROVE LedgerInv'
  <2>1. /\ point' = point /\ history' = history
        /\ \A q \in ChargeRequests : pc'[q] = pc[q]
    BY <1>3, RequestsAssumption DEF CommitBooking, Goto, Requests, IInv, TypeInv, TypeOK
  <2>2. QED
    BY <2>1, LedgerKept
<1>4. ASSUME NEW r \in PayRequests, StartPay(r) \/ PayStep(r), ~CommitPayment(r)
      PROVE  LedgerInv'
  BY <1>1, <1>4, PayFrame, RequestsAssumption DEF Requests
<1>5. ASSUME NEW r \in ChargeRequests, StartCharge(r) \/ ChargePoint(r) PROVE LedgerInv'
  <2>1. pc[r] \notin Done
    BY <1>5 DEF StartCharge, ChargePoint, Done, Terminal
  <2>2. QED
    BY <1>1, <1>5, <2>1, ChargeFrame DEF Requests
<1>6. ASSUME NEW r \in Requests, Fail(r) PROVE LedgerInv'
  <2>1. Abort(r, "failed") /\ pc'[r] \in Done
    BY <1>6 DEF Fail, Abort, Goto, Done, Terminal, IInv, TypeInv, TypeOK
  <2>2. QED
    BY <1>1, <2>1, AbortFrame
<1>7. CASE Tick \/ UNCHANGED vars
  <2>1. point' = point /\ history' = history /\ pc' = pc
    BY <1>7 DEF Tick, vars, tables
  <2>2. QED
    BY <2>1, LedgerKept
<1>8. QED
  BY <1>2, <1>3, <1>4, <1>5, <1>6, <1>7, CommitPaymentLedger, CommitChargeLedger
     DEF Next, ChargeStep

(* Whatever number of charges and payments race for a user's row: his      *)
(* balance is what he began with, plus every charge and less every payment *)
(* in the history, and no update of it is lost.                            *)
THEOREM BalancesAddUp == Spec => []Ledger
<1>1. Init => LedgerInv
  BY InitLedger
<1>2. IInv /\ SaleInv /\ LedgerInv /\ [Next]_vars => LedgerInv'
  BY NextLedger
<1>3. LedgerInv => Ledger
  BY DEF LedgerInv
<1>4. QED
  BY <1>1, <1>2, <1>3, SaleInductive, PTL DEF Spec

-----------------------------------------------------------------------------
(* The answers.                                                            *)

ToldBook(r) ==
  /\ pc[r] = "answered" => booking[r] # Null /\ r \in outbox \cap published
  /\ pc[r] = "rejected" => booking[r] = Null /\ r \notin outbox

ToldPay(r) ==
  /\ pc[r] \in {"expireToken", "answered"} =>
       payment[r] # Null /\ r \in outbox \cap published
  /\ pc[r] = "answered" => r \in expireSent
  /\ pc[r] = "rejected" => payment[r] = Null

ToldCharge(r) ==
  /\ pc[r] = "answered" => history[r] # Null
  /\ pc[r] = "rejected" => history[r] = Null

Told(r) ==
  /\ r \in BookRequests => ToldBook(r)
  /\ r \in PayRequests => ToldPay(r)
  /\ r \in ChargeRequests => ToldCharge(r)

ToldInv == \A r \in Requests : Told(r)

(* What has been told to a request stays so through the steps of another.  *)
LEMMA OthersKeepAnswers ==
  ASSUME ToldInv, NEW r \in Requests, Frame(r), Told(r)',
         published \subseteq published', expireSent \subseteq expireSent'
  PROVE  ToldInv'
<1>1. ASSUME NEW q \in Requests, q # r PROVE Told(q)'
  BY <1>1 DEF ToldInv, Told, ToldBook, ToldPay, ToldCharge, Frame
<1>2. QED
  BY <1>1 DEF ToldInv

(* Nothing is committed yet when a request is refused.                     *)
LEMMA RejectTold ==
  ASSUME IInv, SaleInv, LedgerInv, ToldInv, NEW r \in Requests, pc[r] \notin Done, Reject(r)
  PROVE  ToldInv'
<1>1. Frame(r) /\ pc'[r] = "rejected" /\ published' = published /\ expireSent' = expireSent
  BY AbortFrame DEF Reject, Abort, Goto, calls, IInv, TypeInv, TypeOK
<1>2. /\ r \in BookRequests => booking[r] = Null /\ r \notin outbox
      /\ r \in PayRequests => payment[r] = Null
      /\ r \in ChargeRequests => history[r] = Null
  BY DEF SaleInv, BookKnows, PayKnows, LedgerInv
<1>3. Told(r)'
  BY <1>1, <1>2 DEF Told, ToldBook, ToldPay, ToldCharge, Frame
<1>4. QED
  BY <1>1, <1>3, OthersKeepAnswers

(* Steps that tell the client nothing.                                     *)
LEMMA SilentTold ==
  ASSUME ToldInv, NEW r \in Requests, Frame(r), UNCHANGED calls,
         pc'[r] \notin {"expireToken", "answered", "rejected"}
  PROVE  ToldInv'
<1>1. Told(r)'
  BY DEF Told, ToldBook, ToldPay, ToldCharge
<1>2. QED
  BY <1>1, OthersKeepAnswers DEF calls

LEMMA QuietBookTold ==
  ASSUME IInv, SaleInv, LedgerInv, ToldInv, NEW r \in BookRequests,
         StartBook(r) \/ BookStep(r), ~CommitBooking(r)
  PROVE  ToldInv'
<1>1. r \in Requests /\ Frame(r)
  BY BookFrame DEF Requests
<1>2. CASE Reject(r) /\ pc[r] \notin Done
  BY <1>1, <1>2, RejectTold
<1>3. CASE PublishBooking(r)
  <2>1. booking[r] # Null /\ r \in outbox
    BY <1>3 DEF PublishBooking, SaleInv, BookKnows
  <2>2. published' = published \cup {r} /\ expireSent' = expireSent /\ pc'[r] = "answered"
    BY <1>1, <1>3 DEF PublishBooking, Goto, IInv, TypeInv, TypeOK
  <2>3. Told(r)'
    BY <1>1, <2>1, <2>2, RequestsAssumption DEF Told, ToldBook, Frame
  <2>4. QED
    BY <1>1, <2>2, <2>3, OthersKeepAnswers
<1>4. CASE ~(Reject(r) /\ pc[r] \notin Done) /\ ~PublishBooking(r)
  <2>1. /\ UNCHANGED calls
        /\ pc'[r] \notin {"expireToken", "answered", "rejected"}
    BY <1>1, <1>4 DEF StartBook, BookStep, ValidateSchedule, ReadSeat, UpdateSeat, WriteSeat,
       SaveBooking, Goto, Done, Terminal, IInv, TypeInv, TypeOK
  <2>2. QED
    BY <1>1, <2>1, SilentTold
<1>5. QED
  BY <1>2, <1>3, <1>4

LEMMA QuietPayTold ==
  ASSUME IInv, SaleInv, LedgerInv, ToldInv, NEW r \in PayRequests,
         StartPay(r) \/ PayStep(r), ~CommitPayment(r)
  PROVE  ToldInv'
<1>1. r \in Requests /\ Frame(r)
  BY PayFrame DEF Requests
<1>2. CASE Reject(r) /\ pc[r] \notin Done
  BY <1>1, <1>2, RejectTold
<1>3. CASE PublishPayment(r)
  <2>1. payment[r] # Null /\ r \in outbox
    BY <1>3 DEF PublishPayment, SaleInv, PayKnows
  <2>2. published' = published \cup {r} /\ expireSent' = expireSent /\ pc'[r] = "expireToken"
    BY <1>1, <1>3 DEF PublishPayment, Goto, IInv, TypeInv, TypeOK
  <2>3. Told(r)'
    BY <1>1, <2>1, <2>2, RequestsAssumption DEF Told, ToldPay, Frame
  <2>4. QED
    BY <1>1, <2>2, <2>3, OthersKeepAnswers
<1>4. CASE ExpireToken(r)
  <2>1. payment[r] # Null /\ r \in outbox \cap published
    BY <1>1, <1>4 DEF ExpireToken, ToldInv, Told, ToldPay
  <2>2. published' = published /\ expireSent' = expireSent \cup {r} /\ pc'[r] = "answered"
    BY <1>1, <1>4 DEF ExpireToken, Goto, IInv, TypeInv, TypeOK
  <2>3. Told(r)'
    BY <1>1, <2>1, <2>2, RequestsAssumption DEF Told, ToldPay, Frame
  <2>4. QED
    BY <1>1, <2>2, <2>3, OthersKeepAnswers
<1>5. CASE ~(Reject(r) /\ pc[r] \notin Done) /\ ~PublishPayment(r) /\ ~ExpireToken(r)
  <2>1. /\ UNCHANGED calls
        /\ pc'[r] \notin {"expireToken", "answered", "rejected"}
    BY <1>1, <1>5 DEF StartPay, PayStep, ReadBooking, UpdateBooking, ReadPaidSeat, UpdatePaidSeat,
       WriteSeat, UsePoint, WritePoint, Goto, Done, Terminal, IInv, TypeInv, TypeOK
  <2>2. QED
    BY <1>1, <2>1, SilentTold
<1>6. QED
  BY <1>2, <1>3, <1>4, <1>5

LEMMA QuietChargeTold ==
  ASSUME IInv, SaleInv, LedgerInv, ToldInv, NEW r \in ChargeRequests,
         StartCharge(r) \/ ChargePoint(r)
  PROVE  ToldInv'
<1>1. r \in Requests /\ Frame(r)
  BY ChargeFrame DEF Requests
<1>2. CASE Reject(r) /\ pc[r] \notin Done
  BY <1>1, <1>2, RejectTold
<1>3. CASE ~(Reject(r) /\ pc[r] \notin Done)
  <2>1. /\ UNCHANGED calls
        /\ pc'[r] \notin {"expireToken", "answered", "rejected"}
    BY <1>1, <1>3 DEF StartCharge, ChargePoint, WritePoint, Goto, Done, Terminal, IInv, TypeInv,
       TypeOK
  <2>2. QED
    BY <1>1, <2>1, SilentTold
<1>4. QED
  BY <1>2, <1>3

LEMMA CommitTold ==
  ASSUME IInv, SaleInv, ToldInv,
         \/ \E r \in BookRequests : CommitBooking(r)
         \/ \E r \in PayRequests : CommitPayment(r)
         \/ \E r \in ChargeRequests : CommitCharge(r)
  PROVE  ToldInv'
<1>1. ASSUME NEW r \in BookRequests, CommitBooking(r) PROVE ToldInv'
  <2>1. /\ r \in Requests /\ pc'[r] = "publish" /\ UNCHANGED <<payment, history, calls>>
        /\ \A q \in Requests \ {r} : pc'[q] = pc[q]
        /\ \A q \in BookRequests \ {r} : booking'[q] = booking[q]
        /\ outbox' = outbox \cup {r}
    BY <1>1 DEF CommitBooking, Goto, Requests, IInv, TypeInv, TypeOK
  <2>2. QED
    BY <2>1 DEF ToldInv, Told, ToldBook, ToldPay, ToldCharge, calls
<1>2. ASSUME NEW r \in PayRequests, CommitPayment(r) PROVE ToldInv'
  <2>0. PICK b0, u0, s0 : b0 = dto[r].booking /\ u0 = dto[r].user /\ s0 = txBooking[r].seat
    OBVIOUS
  <2>1. PaymentCommits(r, b0, u0, s0)
    BY <1>2, <2>0, CommitPaymentFacts
  <2>2. \A b \in BookRequests : booking'[b] = Null <=> booking[b] = Null
    BY <2>1 DEF PaymentCommits, IInv, TypeInv, TypeOK
  <2>3. /\ r \in Requests /\ pc'[r] = "publish" /\ UNCHANGED calls
        /\ \A q \in Requests \ {r} : pc'[q] = pc[q]
        /\ \A q \in PayRequests \ {r} : payment'[q] = payment[q]
        /\ \A q \in ChargeRequests : history'[q] = history[q]
        /\ outbox' = outbox \cup {r}
    BY <1>2, RequestsAssumption DEF CommitPayment, Goto, Requests, IInv, TypeInv, TypeOK
  <2>4. r \notin BookRequests /\ r \notin ChargeRequests
    BY RequestsAssumption
  <2>5. QED
    BY <2>2, <2>3, <2>4 DEF ToldInv, Told, ToldBook, ToldPay, ToldCharge, calls
<1>3. ASSUME NEW r \in ChargeRequests, CommitCharge(r) PROVE ToldInv'
  <2>1. /\ r \in Requests /\ UNCHANGED <<booking, payment, outbox, calls>>
        /\ \A q \in Requests \ {r} : pc'[q] = pc[q]
        /\ \A q \in ChargeRequests \ {r} : history'[q] = history[q]
        /\ history'[r] = NewHistory(dto[r].user, dto[r].amount, "CHARGE")
        /\ pc'[r] = "answered"
    BY <1>3 DEF CommitCharge, Goto, Requests, IInv, TypeInv, TypeOK
  <2>2. dto[r].user \in Users /\ dto[r].amount \in Nat \ {0}
    BY <1>3, CommitChargeFacts
  <2>3. history'[r] # Null
    BY <2>1, <2>2, NullAssumption DEF NewHistory, HistoryRow
  <2>4. r \notin BookRequests /\ r \notin PayRequests
    BY RequestsAssumption
  <2>5. QED
    BY <2>1, <2>3, <2>4 DEF ToldInv, Told, ToldBook, ToldPay, ToldCharge, calls
<1>4. QED
  BY <1>1, <1>2, <1>3

LEMMA NextTold == IInv /\ SaleInv /\ LedgerInv /\ ToldInv /\ [Next]_vars => ToldInv'
<1> SUFFICES ASSUME IInv, SaleInv, LedgerInv, ToldInv, [Next]_vars PROVE ToldInv'
  OBVIOUS
<1>1. ASSUME NEW r \in BookRequests, StartBook(r) \/ BookStep(r) PROVE ToldInv'
  BY <1>1, QuietBookTold, CommitTold
<1>2. ASSUME NEW r \in PayRequests, StartPay(r) \/ PayStep(r) PROVE ToldInv'
  BY <1>2, QuietPayTold, CommitTold
<1>3. ASSUME NEW r \in ChargeRequests, StartCharge(r) \/ ChargeStep(r) PROVE ToldInv'
  BY <1>3, QuietChargeTold, CommitTold DEF ChargeStep
<1>4. ASSUME NEW r \in Requests, Fail(r) PROVE ToldInv'
  <2>1. Frame(r) /\ pc'[r] = "failed" /\ UNCHANGED calls
    BY <1>4, AbortFrame DEF Fail, Abort, Goto, IInv, TypeInv, TypeOK
  <2>2. QED
    BY <2>1, SilentTold
<1>5. CASE Tick \/ UNCHANGED vars
  BY <1>5 DEF Tick, vars, tables, calls, ToldInv, Told, ToldBook, ToldPay, ToldCharge
<1>6. QED
  BY <1>1, <1>2, <1>3, <1>4, <1>5 DEF Next

(* A client who gets a success has his booking, payment or charge, and one *)
(* whose request was refused has left nothing in any table.                *)
THEOREM ClientsAreToldTheTruth == Spec => []AnswersAreTrue
<1>1. Init => ToldInv
  BY DEF Init, ToldInv, Told, ToldBook, ToldPay, ToldCharge
<1>2. IInv /\ SaleInv /\ LedgerInv /\ [Next]_vars => LedgerInv'
  BY NextLedger
<1>3. IInv /\ SaleInv /\ LedgerInv /\ ToldInv /\ [Next]_vars => ToldInv'
  BY NextTold
<1>4. SaleInv /\ ToldInv => AnswersAreTrue
  BY DEF SaleInv, RowsOK, PaymentIsWhole, ToldInv, Told, ToldBook, ToldPay, ToldCharge,
     AnswersAreTrue, Requests
<1>5. QED
  BY <1>1, <1>2, <1>3, <1>4, InitLedger, SaleInductive, PTL DEF Spec

-----------------------------------------------------------------------------
(* The schedules.  The one that a request names is open when it is looked  *)
(* at, before the transaction, and the booking has it from there.          *)

Validated == {"readSeat", "updateSeat", "saveBooking", "commitBooking"}

BookOpen(r) ==
  /\ pc[r] \in Validated => Opens[dto[r].schedule] <= now
  /\ pc[r] = "commitBooking" => Opens[txBooking[r].schedule] <= now

PayOpen(r) == pc[r] \in BookingReaders => Opens[txBooking[r].schedule] <= now

RowsOpen == \A b \in BookRequests : booking[b] # Null => Opens[booking[b].schedule] <= now

OpenInv ==
  /\ RowsOpen
  /\ \A r \in BookRequests : BookOpen(r)
  /\ \A r \in PayRequests : PayOpen(r)

(* No booking names a schedule that is not that of its seat: what the use  *)
(* case does not compare.                                                  *)
NamesOwnSchedule ==
  \A b \in BookRequests : booking[b] # Null =>
    booking[b].schedule = ScheduleOf[booking[b].seat]

OpenUnlessMismatched == NamesOwnSchedule => NotBookedBeforeOpening

(* A step that commits nothing disturbs what its own request knows only.   *)
LEMMA FrameOpen ==
  ASSUME OpenInv, NEW r \in Requests, Frame(r),
         r \in BookRequests => BookOpen(r)', r \in PayRequests => PayOpen(r)'
  PROVE  OpenInv'
<1>1. RowsOpen'
  BY DEF OpenInv, RowsOpen, Frame
<1>2. ASSUME NEW q \in BookRequests PROVE BookOpen(q)'
  BY <1>2 DEF OpenInv, BookOpen, Frame, Requests
<1>3. ASSUME NEW q \in PayRequests PROVE PayOpen(q)'
  BY <1>3 DEF OpenInv, PayOpen, Frame, Requests
<1>4. QED
  BY <1>1, <1>2, <1>3 DEF OpenInv

LEMMA AbortOpen ==
  ASSUME IInv, OpenInv, NEW r \in Requests, NEW outcome \in Terminal, Abort(r, outcome)
  PROVE  OpenInv'
<1>1. Frame(r) /\ pc'[r] = outcome
  BY AbortFrame DEF Abort, Goto, IInv, TypeInv, TypeOK
<1>2. QED
  BY <1>1, FrameOpen DEF BookOpen, PayOpen, Validated, BookingReaders, Terminal

LEMMA QuietBookOpen ==
  ASSUME IInv, OpenInv, NEW r \in BookRequests, StartBook(r) \/ BookStep(r), ~CommitBooking(r)
  PROVE  OpenInv'
<1> USE DEF IInv, TypeInv, TypeOK, Goto
<1>1. r \in Requests /\ Frame(r) /\ r \notin PayRequests /\ BookOpen(r) /\ now' = now
  BY BookFrame, RequestsAssumption DEF Requests, OpenInv, Frame
<1>2. CASE Reject(r)
  BY <1>1, <1>2, AbortOpen DEF Reject, Terminal
<1>3. CASE ValidateSchedule(r) /\ ~Reject(r)
  BY <1>1, <1>3, FrameOpen DEF ValidateSchedule, IsBookable, BookOpen
<1>4. CASE (ReadSeat(r) \/ UpdateSeat(r)) /\ ~Reject(r)
  <2>1. dto'[r] = dto[r] /\ pc[r] \in Validated /\ pc'[r] \in {"updateSeat", "saveBooking"}
    BY <1>1, <1>4 DEF ReadSeat, UpdateSeat, WriteSeat, Validated
  <2>2. QED
    BY <1>1, <2>1, FrameOpen DEF BookOpen
<1>5. CASE SaveBooking(r)
  <2>1. dto'[r] = dto[r] /\ txBooking'[r] = NewBooking(dto[r]) /\ pc[r] = "saveBooking"
    BY <1>1, <1>5 DEF SaveBooking
  <2>2. txBooking'[r].schedule = dto[r].schedule
    BY <2>1 DEF NewBooking
  <2>3. BookOpen(r)'
    BY <1>1, <2>1, <2>2 DEF BookOpen, Validated
  <2>4. QED
    BY <1>1, <2>3, FrameOpen
<1>6. CASE StartBook(r) \/ PublishBooking(r)
  <2>1. pc'[r] \notin Validated
    BY <1>1, <1>6 DEF StartBook, PublishBooking, Validated
  <2>2. QED
    BY <1>1, <2>1, FrameOpen DEF BookOpen, Validated
<1>7. QED
  BY <1>2, <1>3, <1>4, <1>5, <1>6 DEF BookStep

LEMMA QuietPayOpen ==
  ASSUME IInv, OpenInv, NEW r \in PayRequests, StartPay(r) \/ PayStep(r), ~CommitPayment(r)
  PROVE  OpenInv'
<1> USE DEF IInv, TypeInv, TypeOK, Goto
<1>1. r \in Requests /\ Frame(r) /\ r \notin BookRequests /\ PayOpen(r) /\ now' = now
  BY PayFrame, RequestsAssumption DEF Requests, OpenInv, Frame
<1>2. CASE Reject(r)
  BY <1>1, <1>2, AbortOpen DEF Reject, Terminal
<1>3. CASE ReadBooking(r) /\ ~Reject(r)
  <2> DEFINE row == booking[dto[r].booking]
  <2>1. row # Null /\ txBooking'[r] = Paid(row) /\ dto[r].booking \in BookRequests
    BY <1>1, <1>3 DEF ReadBooking, CanPayBooking, ControlOK, PayPC, PayDto
  <2>2. row \in BookingRow /\ Opens[row.schedule] <= now
    BY <2>1 DEF OpenInv, RowsOpen
  <2>3. Opens[txBooking'[r].schedule] <= now
    BY <2>1, <2>2 DEF Paid, BookingRow
  <2>4. QED
    BY <1>1, <2>3, FrameOpen DEF PayOpen
<1>4. CASE (UpdateBooking(r) \/ ReadPaidSeat(r) \/ UpdatePaidSeat(r) \/ UsePoint(r)) /\ ~Reject(r)
  <2>1. txBooking'[r] = txBooking[r] /\ pc[r] \in BookingReaders
    BY <1>1, <1>4 DEF UpdateBooking, ReadPaidSeat, UpdatePaidSeat, WriteSeat, UsePoint, WritePoint,
                      BookingReaders, tx
  <2>2. QED
    BY <1>1, <2>1, FrameOpen DEF PayOpen
<1>5. CASE StartPay(r) \/ PublishPayment(r) \/ ExpireToken(r)
  <2>1. pc'[r] \notin BookingReaders
    BY <1>1, <1>5 DEF StartPay, PublishPayment, ExpireToken, BookingReaders
  <2>2. QED
    BY <1>1, <2>1, FrameOpen DEF PayOpen
<1>6. QED
  BY <1>2, <1>3, <1>4, <1>5 DEF PayStep

LEMMA CommitBookingOpen ==
  ASSUME IInv, OpenInv, NEW r \in BookRequests, CommitBooking(r)
  PROVE  OpenInv'
<1> USE DEF IInv, TypeInv, TypeOK
<1>1. /\ r \in Requests /\ now' = now /\ dto' = dto
      /\ booking' = [booking EXCEPT ![r] = txBooking[r]]
      /\ pc[r] = "commitBooking" /\ pc'[r] = "publish"
      /\ \A q \in Requests \ {r} : pc'[q] = pc[q] /\ txBooking'[q] = txBooking[q]
  BY DEF CommitBooking, EndTransaction, Goto, Requests
<1>2. RowsOpen'
  BY <1>1 DEF OpenInv, RowsOpen, BookOpen
<1>3. ASSUME NEW q \in BookRequests PROVE BookOpen(q)'
  BY <1>1, <1>3 DEF OpenInv, BookOpen, Validated, Requests
<1>4. ASSUME NEW q \in PayRequests PROVE PayOpen(q)'
  BY <1>1, <1>4, RequestsAssumption DEF OpenInv, PayOpen, Requests
<1>5. QED
  BY <1>2, <1>3, <1>4 DEF OpenInv

LEMMA CommitPaymentOpen ==
  ASSUME IInv, OpenInv, NEW r \in PayRequests, CommitPayment(r)
  PROVE  OpenInv'
<1> USE DEF IInv, TypeInv, TypeOK
<1>1. /\ r \in Requests /\ now' = now /\ dto' = dto
      /\ booking' = [booking EXCEPT ![dto[r].booking] = NextVersion(txBooking[r])]
      /\ pc[r] = "commitPayment" /\ pc'[r] = "publish"
      /\ \A q \in Requests \ {r} : pc'[q] = pc[q] /\ txBooking'[q] = txBooking[q]
  BY DEF CommitPayment, EndTransaction, Goto, Requests
<1>2. txBooking[r] \in BookingRow /\ Opens[txBooking[r].schedule] <= now
  BY <1>1 DEF OpenInv, PayOpen, BookingReaders, ControlOK, PayPC
<1>3. NextVersion(txBooking[r]).schedule = txBooking[r].schedule
  BY <1>2 DEF NextVersion, BookingRow
<1>4. RowsOpen'
  BY <1>1, <1>2, <1>3 DEF OpenInv, RowsOpen
<1>5. ASSUME NEW q \in BookRequests PROVE BookOpen(q)'
  BY <1>1, <1>5, RequestsAssumption DEF OpenInv, BookOpen, Requests
<1>6. ASSUME NEW q \in PayRequests PROVE PayOpen(q)'
  BY <1>1, <1>6 DEF OpenInv, PayOpen, BookingReaders, Requests
<1>7. QED
  BY <1>4, <1>5, <1>6 DEF OpenInv

LEMMA ChargeOpen ==
  ASSUME IInv, OpenInv, NEW r \in ChargeRequests, StartCharge(r) \/ ChargeStep(r)
  PROVE  OpenInv'
<1>1. r \in Requests /\ r \notin BookRequests /\ r \notin PayRequests
  BY RequestsAssumption DEF Requests
<1>2. CASE StartCharge(r) \/ ChargePoint(r)
  BY <1>1, <1>2, ChargeFrame, FrameOpen
<1>3. CASE CommitCharge(r)
  <2>1. /\ now' = now /\ booking' = booking
        /\ \A q \in Requests \ {r} :
             pc'[q] = pc[q] /\ dto'[q] = dto[q] /\ txBooking'[q] = txBooking[q]
    BY <1>1, <1>3 DEF CommitCharge, EndTransaction, Goto, IInv, TypeInv, TypeOK
  <2>2. QED
    BY <1>1, <2>1, RequestsAssumption
    DEF OpenInv, RowsOpen, BookOpen, PayOpen, Requests
<1>4. QED
  BY <1>2, <1>3 DEF ChargeStep

(* Time goes on, and nothing that was open is no longer so.                *)
LEMMA TickOpen == IInv /\ OpenInv /\ Tick => OpenInv'
<1> SUFFICES ASSUME IInv, OpenInv, Tick PROVE OpenInv'
  OBVIOUS
<1> USE DEF IInv, TypeInv, TypeOK
<1>1. /\ now \in Nat /\ now' = now + 1 /\ UNCHANGED <<booking, pc, dto, txBooking>>
  BY MaxTimeAssumption DEF Tick, tables, tx
<1>2. \A schedule \in Schedules : Opens[schedule] <= now => Opens[schedule] <= now'
  BY <1>1, CatalogueAssumption
<1>3. RowsOpen'
  BY <1>1, <1>2 DEF OpenInv, RowsOpen, BookingRow
<1>4. ASSUME NEW q \in BookRequests PROVE BookOpen(q)'
  <2>1. /\ pc[q] \in Validated => dto[q].schedule \in Schedules
        /\ pc[q] = "commitBooking" => txBooking[q].schedule \in Schedules
    BY DEF ControlOK, BookPC, Validated, BookDto, BookingRow
  <2>2. QED
    BY <1>1, <1>2, <2>1 DEF OpenInv, BookOpen
<1>5. ASSUME NEW q \in PayRequests PROVE PayOpen(q)'
  <2>1. pc[q] \in BookingReaders => txBooking[q].schedule \in Schedules
    BY DEF ControlOK, PayPC, BookingReaders, BookingRow
  <2>2. QED
    BY <1>1, <1>2, <2>1 DEF OpenInv, PayOpen
<1>6. QED
  BY <1>3, <1>4, <1>5 DEF OpenInv

LEMMA NextOpen == IInv /\ OpenInv /\ [Next]_vars => OpenInv'
<1> SUFFICES ASSUME IInv, OpenInv, [Next]_vars PROVE OpenInv'
  OBVIOUS
<1>1. ASSUME NEW r \in BookRequests, StartBook(r) \/ BookStep(r) PROVE OpenInv'
  BY <1>1, QuietBookOpen, CommitBookingOpen
<1>2. ASSUME NEW r \in PayRequests, StartPay(r) \/ PayStep(r) PROVE OpenInv'
  BY <1>2, QuietPayOpen, CommitPaymentOpen
<1>3. ASSUME NEW r \in Requests, Fail(r) PROVE OpenInv'
  BY <1>3, AbortOpen DEF Fail, Terminal
<1>4. CASE UNCHANGED vars
  BY <1>4 DEF vars, tables, tx, OpenInv, RowsOpen, BookOpen, PayOpen
<1>5. QED
  BY <1>1, <1>2, <1>3, <1>4, ChargeOpen, TickOpen DEF Next

(* A seat is held before its schedule opens only if some booking names     *)
(* another schedule than the seat's: it is that comparison, and nothing    *)
(* else, that the use case lacks (NotBookedBeforeOpening alone does not    *)
(* hold).                                                                  *)
THEOREM OnlyMismatchBooksEarly == Spec => []OpenUnlessMismatched
<1>1. Init => OpenInv
  BY DEF Init, OpenInv, RowsOpen, BookOpen, PayOpen, Validated, BookingReaders, Requests
<1>2. IInv /\ OpenInv /\ [Next]_vars => OpenInv'
  BY NextOpen
<1>3. SaleInv /\ OpenInv => OpenUnlessMismatched
  <2> SUFFICES ASSUME SaleInv, OpenInv, NamesOwnSchedule, NEW s \in Seats,
                      seat[s].reservedUntil # Null
               PROVE  Opens[ScheduleOf[s]] <= now
    BY DEF OpenUnlessMismatched, NotBookedBeforeOpening
  <2>1. PICK b \in BookRequests : booking[b] # Null /\ booking[b].seat = s
    BY DEF SaleInv, RowsOK, HoldIsBacked
  <2>2. QED
    BY <2>1 DEF OpenInv, RowsOpen, NamesOwnSchedule
<1>4. QED
  BY <1>1, <1>2, <1>3, SaleInductive, PTL DEF Spec
=============================================================================
