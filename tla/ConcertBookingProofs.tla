------------------------ MODULE ConcertBookingProofs ------------------------
(***************************************************************************)
(* Proofs about ConcertBooking, for every set of users, seats and requests *)
(* and any clock bound.                                                    *)
(***************************************************************************)
EXTENDS ConcertBooking, TLAPS

TypeInv == TypeOK /\ ControlOK

LEMMA InitTypeInv == Init => TypeInv
BY RequestsAssumption, CatalogueAssumption, PointAssumption, MaxTimeAssumption
DEF Init, TypeInv, TypeOK, ControlOK, Requests, SeatRow, PC, BookPC, PayPC, ChargePC,
    SeatReaders, SeatWriters, Terminal

(* What the updates of a row change and what they keep.                    *)
LEMMA BookedRow ==
  ASSUME NEW row \in SeatRow, now \in Nat
  PROVE  /\ Booked(row) \in SeatRow
         /\ Booked(row).isPaid = row.isPaid
         /\ Booked(row).version = row.version
         /\ Booked(row).reservedUntil = now + HoldTime
BY CatalogueAssumption DEF Booked, SeatRow

LEMMA PaidSeatRow ==
  ASSUME NEW row \in SeatRow
  PROVE  /\ Paid(row) \in SeatRow
         /\ Paid(row).isPaid
         /\ Paid(row).version = row.version
         /\ Paid(row).reservedUntil = row.reservedUntil
BY DEF Paid, SeatRow

LEMMA PaidBookingRow ==
  ASSUME NEW row \in BookingRow
  PROVE  /\ Paid(row) \in BookingRow
         /\ Paid(row).isPaid
         /\ Paid(row).version = row.version
         /\ Paid(row).user = row.user
         /\ Paid(row).seat = row.seat
         /\ Paid(row).schedule = row.schedule
         /\ Paid(row).price = row.price
         /\ Paid(row).expiresAt = row.expiresAt
BY DEF Paid, BookingRow

LEMMA NextSeatRow ==
  ASSUME NEW row \in SeatRow
  PROVE  /\ NextVersion(row) \in SeatRow
         /\ NextVersion(row).isPaid = row.isPaid
         /\ NextVersion(row).version = row.version + 1
         /\ NextVersion(row).reservedUntil = row.reservedUntil
BY DEF NextVersion, SeatRow

LEMMA NextBookingRow ==
  ASSUME NEW row \in BookingRow
  PROVE  /\ NextVersion(row) \in BookingRow
         /\ NextVersion(row).isPaid = row.isPaid
         /\ NextVersion(row).version = row.version + 1
         /\ NextVersion(row).user = row.user
         /\ NextVersion(row).seat = row.seat
         /\ NextVersion(row).price = row.price
         /\ NextVersion(row).expiresAt = row.expiresAt
BY DEF NextVersion, BookingRow

(* A lock function with some entries reset is a lock function.             *)
LEMMA UnlockedByType ==
  ASSUME NEW S, NEW lock \in [S -> Requests \cup {Null}], NEW r
  PROVE  UnlockedBy(lock, r) \in [S -> Requests \cup {Null}]
BY DEF UnlockedBy

(* Locks and objects stay well-typed when a transaction ends.              *)
LEMMA EndTransactionType ==
  ASSUME NEW r \in Requests, TypeOK, EndTransaction(r)
  PROVE  /\ seatLock' \in [Seats -> Requests \cup {Null}]
         /\ bookingLock' \in [BookRequests -> Requests \cup {Null}]
         /\ pointLock' \in [Users -> Requests \cup {Null}]
         /\ txSeat' \in [Requests -> SeatRow \cup {Null}]
         /\ txBooking' \in [Requests -> BookingRow \cup {Null}]
         /\ txPoint' \in [Requests -> (0 .. MaxPoint) \cup {Null}]
BY UnlockedByType DEF TypeOK, EndTransaction

(* A request that is rejected or fails leaves well-typed state.            *)
LEMMA AbortType ==
  ASSUME TypeInv, NEW r \in Requests, NEW outcome \in Terminal, Abort(r, outcome)
  PROVE  TypeInv'
<1>1. TypeOK'
  <2>1. pc' \in [Requests -> PC]
    BY DEF TypeInv, TypeOK, Abort, Goto, PC
  <2>2. dto' \in [Requests -> BookDto \cup PayDto \cup ChargeDto \cup {Null}]
    BY DEF TypeInv, TypeOK, Abort
  <2>3. QED
    BY <2>1, <2>2, EndTransactionType DEF TypeInv, TypeOK, Abort, tables, calls
<1>2. ControlOK'
  BY DEF TypeInv, TypeOK, ControlOK, Abort, Goto, EndTransaction, Terminal, BookPC, PayPC,
         ChargePC, SeatReaders, SeatWriters, Requests
<1>3. QED
  BY <1>1, <1>2 DEF TypeInv

LEMMA StartBookType ==
  ASSUME TypeInv, NEW r \in BookRequests, StartBook(r)
  PROVE  TypeInv'
<1>1. TypeOK'
  BY RequestsAssumption
     DEF StartBook, TypeInv, TypeOK, Requests, Goto, PC, Terminal, tables, locks, tx, calls
<1>2. ControlOK'
  BY RequestsAssumption
     DEF StartBook, TypeInv, TypeOK, ControlOK, Requests, Goto, Terminal, BookPC, PayPC, ChargePC,
         SeatReaders, SeatWriters, tables, locks, tx, calls
<1>3. QED
  BY <1>1, <1>2 DEF TypeInv

LEMMA StartPayType ==
  ASSUME TypeInv, NEW r \in PayRequests, StartPay(r)
  PROVE  TypeInv'
<1>1. TypeOK'
  BY RequestsAssumption
     DEF StartPay, TypeInv, TypeOK, Requests, Goto, PC, Terminal, tables, locks, tx, calls
<1>2. ControlOK'
  BY RequestsAssumption
     DEF StartPay, TypeInv, TypeOK, ControlOK, Requests, Goto, Terminal, BookPC, PayPC, ChargePC,
         SeatReaders, SeatWriters, tables, locks, tx, calls
<1>3. QED
  BY <1>1, <1>2 DEF TypeInv

LEMMA StartChargeType ==
  ASSUME TypeInv, NEW r \in ChargeRequests, StartCharge(r)
  PROVE  TypeInv'
<1>1. TypeOK'
  BY RequestsAssumption
     DEF StartCharge, TypeInv, TypeOK, Requests, Goto, PC, Terminal, tables, locks, tx, calls
<1>2. ControlOK'
  BY RequestsAssumption
     DEF StartCharge, TypeInv, TypeOK, ControlOK, Requests, Goto, Terminal, BookPC, PayPC, ChargePC,
         SeatReaders, SeatWriters, tables, locks, tx, calls
<1>3. QED
  BY <1>1, <1>2 DEF TypeInv

LEMMA ValidateScheduleType ==
  ASSUME TypeInv, NEW r \in BookRequests, ValidateSchedule(r)
  PROVE  TypeInv'
<1>1. CASE Reject(r)
  BY <1>1, AbortType DEF Reject, Requests, Terminal
<1>2. CASE ~Reject(r)
  <2>1. TypeOK'
    BY <1>2, RequestsAssumption
       DEF ValidateSchedule, TypeInv, TypeOK, Requests, Goto, PC, Terminal, tables, locks, tx, calls
  <2>2. ControlOK'
    BY <1>2, RequestsAssumption DEF ValidateSchedule, TypeInv, TypeOK, ControlOK, Requests, Goto,
       Terminal, BookPC, PayPC, ChargePC,
         SeatReaders, SeatWriters, tables, locks, tx, calls
  <2>3. QED
    BY <2>1, <2>2 DEF TypeInv
<1>3. QED
  BY <1>1, <1>2

LEMMA ReadSeatType ==
  ASSUME TypeInv, NEW r \in BookRequests, ReadSeat(r)
  PROVE  TypeInv'
<1>1. CASE Reject(r)
  BY <1>1, AbortType DEF Reject, Requests, Terminal
<1>2. CASE ~Reject(r)
  <2>1. seat[dto[r].seat] \in SeatRow /\ now \in Nat
    BY DEF TypeInv, TypeOK, ControlOK, BookPC, BookDto, ReadSeat
  <2>2. Booked(seat[dto[r].seat]) \in SeatRow
    BY <2>1, BookedRow
  <2>3. TypeOK'
    BY <1>2, <2>2, RequestsAssumption
       DEF ReadSeat, TypeInv, TypeOK, Requests, Goto, PC, Terminal, tables, locks, tx, calls
  <2>4. ControlOK'
    BY <1>2, <2>2, RequestsAssumption
       DEF ReadSeat, TypeInv, TypeOK, ControlOK, Requests, Goto, Terminal, BookPC, PayPC, ChargePC,
           SeatReaders, SeatWriters, tables, locks, tx, calls
  <2>5. QED
    BY <2>3, <2>4 DEF TypeInv
<1>3. QED
  BY <1>1, <1>2

LEMMA UpdateSeatType ==
  ASSUME TypeInv, NEW r \in BookRequests, UpdateSeat(r)
  PROVE  TypeInv'
<1>1. CASE Reject(r)
  BY <1>1, AbortType DEF Reject, Requests, Terminal
<1>2. CASE ~Reject(r)
  <2>1. TypeOK'
    BY <1>2, RequestsAssumption DEF UpdateSeat, WriteSeat, BookDto, ControlOK, BookPC, TypeInv,
       TypeOK, Requests, Goto, PC, Terminal, tables, locks, tx, calls
  <2>2. ControlOK'
    BY <1>2, RequestsAssumption DEF UpdateSeat, WriteSeat, TypeInv, TypeOK, ControlOK, Requests,
       Goto, Terminal, BookPC, PayPC, ChargePC,
         SeatReaders, SeatWriters, tables, locks, tx, calls
  <2>3. QED
    BY <2>1, <2>2 DEF TypeInv
<1>3. QED
  BY <1>1, <1>2

LEMMA SaveBookingType ==
  ASSUME TypeInv, NEW r \in BookRequests, SaveBooking(r)
  PROVE  TypeInv'
<1>1. TypeOK'
  BY CatalogueAssumption, RequestsAssumption DEF SaveBooking, NewBooking, BookingRow, BookDto,
     ControlOK, BookPC, TypeInv, TypeOK, Requests, Goto, PC, Terminal, tables, locks, tx, calls
<1>2. ControlOK'
  BY CatalogueAssumption, RequestsAssumption DEF SaveBooking, NewBooking, BookingRow, BookDto,
     TypeInv, TypeOK, ControlOK, Requests, Goto, Terminal, BookPC, PayPC, ChargePC,
         SeatReaders, SeatWriters, tables, locks, tx, calls
<1>3. QED
  BY <1>1, <1>2 DEF TypeInv

LEMMA PublishBookingType ==
  ASSUME TypeInv, NEW r \in BookRequests, PublishBooking(r)
  PROVE  TypeInv'
<1>1. TypeOK'
  BY RequestsAssumption
     DEF PublishBooking, TypeInv, TypeOK, Requests, Goto, PC, Terminal, tables, locks, tx, calls
<1>2. ControlOK'
  BY RequestsAssumption
     DEF PublishBooking, TypeInv, TypeOK, ControlOK, Requests, Goto, Terminal, BookPC, PayPC,
     ChargePC,
         SeatReaders, SeatWriters, tables, locks, tx, calls
<1>3. QED
  BY <1>1, <1>2 DEF TypeInv

LEMMA ReadBookingType ==
  ASSUME TypeInv, NEW r \in PayRequests, ReadBooking(r)
  PROVE  TypeInv'
<1>1. CASE Reject(r)
  BY <1>1, AbortType DEF Reject, Requests, Terminal
<1>2. CASE ~Reject(r)
  <2>1. booking[dto[r].booking] \in BookingRow
    BY <1>2 DEF TypeInv, TypeOK, ControlOK, PayPC, PayDto, ReadBooking, CanPayBooking
  <2>2. Paid(booking[dto[r].booking]) \in BookingRow
    BY <2>1, PaidBookingRow
  <2>3. TypeOK'
    BY <1>2, <2>2, RequestsAssumption
       DEF ReadBooking, TypeInv, TypeOK, Requests, Goto, PC, Terminal, tables, locks, tx, calls
  <2>4. ControlOK'
    BY <1>2, <2>2, RequestsAssumption
       DEF ReadBooking, TypeInv, TypeOK, ControlOK, Requests, Goto, Terminal, BookPC, PayPC,
       ChargePC,
           SeatReaders, SeatWriters, tables, locks, tx, calls
  <2>5. QED
    BY <2>3, <2>4 DEF TypeInv
<1>3. QED
  BY <1>1, <1>2

LEMMA UpdateBookingType ==
  ASSUME TypeInv, NEW r \in PayRequests, UpdateBooking(r)
  PROVE  TypeInv'
<1>1. CASE Reject(r)
  BY <1>1, AbortType DEF Reject, Requests, Terminal
<1>2. CASE ~Reject(r)
  <2>1. TypeOK'
    BY <1>2, RequestsAssumption DEF UpdateBooking, PayDto, ControlOK, PayPC, TypeInv, TypeOK,
       Requests, Goto, PC, Terminal, tables, locks, tx, calls
  <2>2. ControlOK'
    BY <1>2, RequestsAssumption
       DEF UpdateBooking, TypeInv, TypeOK, ControlOK, Requests, Goto, Terminal, BookPC, PayPC,
       ChargePC,
         SeatReaders, SeatWriters, tables, locks, tx, calls
  <2>3. QED
    BY <2>1, <2>2 DEF TypeInv
<1>3. QED
  BY <1>1, <1>2

LEMMA ReadPaidSeatType ==
  ASSUME TypeInv, NEW r \in PayRequests, ReadPaidSeat(r)
  PROVE  TypeInv'
<1>1. CASE Reject(r)
  BY <1>1, AbortType DEF Reject, Requests, Terminal
<1>2. CASE ~Reject(r)
  <2>1. seat[txBooking[r].seat] \in SeatRow
    BY DEF TypeInv, TypeOK, ControlOK, PayPC, BookingRow, ReadPaidSeat
  <2>2. Paid(seat[txBooking[r].seat]) \in SeatRow
    BY <2>1, PaidSeatRow
  <2>3. TypeOK'
    BY <1>2, <2>2, RequestsAssumption
       DEF ReadPaidSeat, TypeInv, TypeOK, Requests, Goto, PC, Terminal, tables, locks, tx, calls
  <2>4. ControlOK'
    BY <1>2, <2>2, RequestsAssumption
       DEF ReadPaidSeat, TypeInv, TypeOK, ControlOK, Requests, Goto, Terminal, BookPC, PayPC,
       ChargePC,
           SeatReaders, SeatWriters, tables, locks, tx, calls
  <2>5. QED
    BY <2>3, <2>4 DEF TypeInv
<1>3. QED
  BY <1>1, <1>2

LEMMA UpdatePaidSeatType ==
  ASSUME TypeInv, NEW r \in PayRequests, UpdatePaidSeat(r)
  PROVE  TypeInv'
<1>1. CASE Reject(r)
  BY <1>1, AbortType DEF Reject, Requests, Terminal
<1>2. CASE ~Reject(r)
  <2>1. TypeOK'
    BY <1>2, RequestsAssumption DEF UpdatePaidSeat, WriteSeat, BookingRow, ControlOK, PayPC,
       TypeInv, TypeOK, Requests, Goto, PC, Terminal, tables, locks, tx, calls
  <2>2. ControlOK'
    BY <1>2, RequestsAssumption DEF UpdatePaidSeat, WriteSeat, TypeInv, TypeOK, ControlOK,
       Requests, Goto, Terminal, BookPC, PayPC, ChargePC,
         SeatReaders, SeatWriters, tables, locks, tx, calls
  <2>3. QED
    BY <2>1, <2>2 DEF TypeInv
<1>3. QED
  BY <1>1, <1>2

LEMMA PublishPaymentType ==
  ASSUME TypeInv, NEW r \in PayRequests, PublishPayment(r)
  PROVE  TypeInv'
<1>1. TypeOK'
  BY RequestsAssumption
     DEF PublishPayment, TypeInv, TypeOK, Requests, Goto, PC, Terminal, tables, locks, tx, calls
<1>2. ControlOK'
  BY RequestsAssumption
     DEF PublishPayment, TypeInv, TypeOK, ControlOK, Requests, Goto, Terminal, BookPC, PayPC,
     ChargePC,
         SeatReaders, SeatWriters, tables, locks, tx, calls
<1>3. QED
  BY <1>1, <1>2 DEF TypeInv

LEMMA ExpireTokenType ==
  ASSUME TypeInv, NEW r \in PayRequests, ExpireToken(r)
  PROVE  TypeInv'
<1>1. TypeOK'
  BY RequestsAssumption
     DEF ExpireToken, TypeInv, TypeOK, Requests, Goto, PC, Terminal, tables, locks, tx, calls
<1>2. ControlOK'
  BY RequestsAssumption
     DEF ExpireToken, TypeInv, TypeOK, ControlOK, Requests, Goto, Terminal, BookPC, PayPC, ChargePC,
         SeatReaders, SeatWriters, tables, locks, tx, calls
<1>3. QED
  BY <1>1, <1>2 DEF TypeInv

LEMMA UsePointType ==
  ASSUME TypeInv, NEW r \in PayRequests, UsePoint(r)
  PROVE  TypeInv'
<1>1. CASE Reject(r)
  BY <1>1, AbortType DEF Reject, Requests, Terminal
<1>2. CASE ~Reject(r)
  <2>1. /\ dto[r].user \in Users
        /\ point[dto[r].user] \in 0 .. MaxPoint
        /\ txBooking[r].price \in Nat
    BY DEF TypeInv, TypeOK, ControlOK, PayPC, PayDto, BookingRow, UsePoint
  <2>2. CanUse(point[dto[r].user], txBooking[r].price)
    BY <1>2 DEF UsePoint
  <2>3. /\ point[dto[r].user] - txBooking[r].price \in 0 .. MaxPoint
        /\ txBooking[r].price > 0
    BY <2>1, <2>2, PointAssumption DEF CanUse
  <2>4. TypeOK'
    BY <1>2, <2>1, <2>3, RequestsAssumption
       DEF UsePoint, WritePoint, TypeInv, TypeOK, Requests, Goto, PC, Terminal, tables, locks, tx,
       calls
  <2>5. ControlOK'
    BY <1>2, <2>3, RequestsAssumption DEF UsePoint, WritePoint, TypeInv, TypeOK, ControlOK,
       Requests, Goto, Terminal, BookPC, PayPC, ChargePC,
           SeatReaders, SeatWriters, tables, locks, tx, calls
  <2>6. QED
    BY <2>4, <2>5 DEF TypeInv
<1>3. QED
  BY <1>1, <1>2

LEMMA ChargePointType ==
  ASSUME TypeInv, NEW r \in ChargeRequests, ChargePoint(r)
  PROVE  TypeInv'
<1>1. CASE Reject(r)
  BY <1>1, AbortType DEF Reject, Requests, Terminal
<1>2. CASE ~Reject(r)
  <2>1. /\ dto[r].user \in Users
        /\ point[dto[r].user] \in 0 .. MaxPoint
        /\ dto[r].amount \in Int
    BY PointAssumption DEF TypeInv, TypeOK, ControlOK, ChargePC, ChargeDto, ChargePoint
  <2>2. CanCharge(point[dto[r].user], dto[r].amount)
    BY <1>2 DEF ChargePoint
  <2>3. /\ point[dto[r].user] + dto[r].amount \in 0 .. MaxPoint
        /\ dto[r].amount > 0
    BY <2>1, <2>2, PointAssumption DEF CanCharge
  <2>4. TypeOK'
    BY <1>2, <2>1, <2>3, RequestsAssumption DEF ChargePoint, WritePoint, TypeInv, TypeOK,
       Requests, Goto, PC, Terminal, tables, locks, tx, calls
  <2>5. ControlOK'
    BY <1>2, <2>3, RequestsAssumption DEF ChargePoint, WritePoint, TypeInv, TypeOK, ControlOK,
       Requests, Goto, Terminal, BookPC, PayPC, ChargePC,
           SeatReaders, SeatWriters, tables, locks, tx, calls
  <2>6. QED
    BY <2>4, <2>5 DEF TypeInv
<1>3. QED
  BY <1>1, <1>2

LEMMA CommitBookingType ==
  ASSUME TypeInv, NEW r \in BookRequests, CommitBooking(r)
  PROVE  TypeInv'
<1>1. /\ txSeat[r] \in SeatRow /\ txBooking[r] \in BookingRow
      /\ dto[r].seat \in Seats
  BY DEF TypeInv, ControlOK, CommitBooking, SeatReaders, SeatWriters, BookPC, BookDto
<1>2. NextVersion(txSeat[r]) \in SeatRow
  BY <1>1, NextSeatRow
<1>3. TypeOK'
  <2>1. pc' \in [Requests -> PC]
    BY DEF CommitBooking, TypeInv, TypeOK, Goto, PC
  <2>2. /\ seat' \in [Seats -> SeatRow]
        /\ booking' \in [BookRequests -> BookingRow \cup {Null}]
    BY <1>1, <1>2 DEF CommitBooking, TypeInv, TypeOK
  <2>3. QED
    BY <2>1, <2>2, EndTransactionType
    DEF CommitBooking, TypeInv, TypeOK, Requests, calls
<1>4. ControlOK'
  BY RequestsAssumption DEF CommitBooking, EndTransaction, TypeInv, TypeOK, ControlOK, Requests,
     Goto, Terminal, BookPC, PayPC, ChargePC,
         SeatReaders, SeatWriters, tables, locks, tx, calls
<1>5. QED
  BY <1>3, <1>4 DEF TypeInv

LEMMA CommitPaymentType ==
  ASSUME TypeInv, NEW r \in PayRequests, CommitPayment(r)
  PROVE  TypeInv'
<1>1. /\ txSeat[r] \in SeatRow /\ txBooking[r] \in BookingRow
      /\ txPoint[r] \in 0 .. MaxPoint /\ txBooking[r].price > 0
      /\ dto[r] \in PayDto
  BY DEF TypeInv, ControlOK, CommitPayment, NewPayment, NewHistory, SeatReaders, SeatWriters, PayPC
<1>2. NextVersion(txSeat[r]) \in SeatRow /\ NextVersion(txBooking[r]) \in BookingRow
  BY <1>1, NextSeatRow, NextBookingRow
<1>3. TypeOK'
  <2>1. pc' \in [Requests -> PC]
    BY DEF CommitPayment, NewPayment, NewHistory, TypeInv, TypeOK, Goto, PC
  <2>2. /\ seat' \in [Seats -> SeatRow]
        /\ booking' \in [BookRequests -> BookingRow \cup {Null}]
        /\ point' \in [Users -> 0 .. MaxPoint]
    BY <1>1, <1>2 DEF CommitPayment, NewPayment, NewHistory, TypeInv, TypeOK, BookingRow
  <2>3. payment' \in [PayRequests -> PaymentRow \cup {Null}]
    BY <1>1 DEF CommitPayment, NewPayment, NewHistory, TypeInv, TypeOK, PaymentRow, BookingRow,
       PayDto
  <2>4. history' \in [PayRequests \cup ChargeRequests -> HistoryRow \cup {Null}]
    BY <1>1 DEF CommitPayment, NewPayment, NewHistory, TypeInv, TypeOK, HistoryRow, BookingRow,
       PayDto
  <2>5. QED
    BY <2>1, <2>2, <2>3, <2>4, EndTransactionType
    DEF CommitPayment, NewPayment, NewHistory, TypeInv, TypeOK, Requests, calls
<1>4. ControlOK'
  BY RequestsAssumption DEF CommitPayment, NewPayment, NewHistory, EndTransaction, TypeInv,
     TypeOK, ControlOK, Requests, Goto, Terminal, BookPC, PayPC, ChargePC,
         SeatReaders, SeatWriters, tables, locks, tx, calls
<1>5. QED
  BY <1>3, <1>4 DEF TypeInv

LEMMA CommitChargeType ==
  ASSUME TypeInv, NEW r \in ChargeRequests, CommitCharge(r)
  PROVE  TypeInv'
<1>1. txPoint[r] \in 0 .. MaxPoint /\ dto[r].amount > 0 /\ dto[r] \in ChargeDto
  BY DEF TypeInv, ControlOK, CommitCharge, NewHistory, ChargePC
<1>2. TypeOK'
  <2>1. pc' \in [Requests -> PC]
    BY DEF CommitCharge, NewHistory, TypeInv, TypeOK, Goto, PC, Terminal
  <2>2. point' \in [Users -> 0 .. MaxPoint]
    BY <1>1 DEF CommitCharge, NewHistory, TypeInv, TypeOK
  <2>3. history' \in [PayRequests \cup ChargeRequests -> HistoryRow \cup {Null}]
    BY <1>1, PointAssumption DEF CommitCharge, NewHistory, TypeInv, TypeOK, HistoryRow, ChargeDto
  <2>4. dto' \in [Requests -> BookDto \cup PayDto \cup ChargeDto \cup {Null}]
    BY DEF CommitCharge, NewHistory, TypeInv, TypeOK
  <2>5. QED
    BY <2>1, <2>2, <2>3, <2>4, EndTransactionType
    DEF CommitCharge, NewHistory, TypeInv, TypeOK, Requests, calls
<1>3. ControlOK'
  BY RequestsAssumption DEF CommitCharge, NewHistory, EndTransaction, TypeInv, TypeOK, ControlOK,
     Requests, Goto, Terminal, BookPC, PayPC, ChargePC,
         SeatReaders, SeatWriters, tables, locks, tx, calls
<1>4. QED
  BY <1>2, <1>3 DEF TypeInv

LEMMA TickType == TypeInv /\ Tick => TypeInv'
BY MaxTimeAssumption DEF TypeInv, TypeOK, ControlOK, Tick, tables, locks, tx, calls

LEMMA NextTypeInv == TypeInv /\ [Next]_vars => TypeInv'
<1> SUFFICES ASSUME TypeInv, [Next]_vars PROVE TypeInv'
  OBVIOUS
<1>1. ASSUME NEW r \in BookRequests, StartBook(r) \/ BookStep(r) PROVE TypeInv'
  BY <1>1, StartBookType, ValidateScheduleType, ReadSeatType, UpdateSeatType, SaveBookingType,
     CommitBookingType, PublishBookingType DEF BookStep
<1>2. ASSUME NEW r \in PayRequests, StartPay(r) \/ PayStep(r) PROVE TypeInv'
  BY <1>2, StartPayType, ReadBookingType, UpdateBookingType, ReadPaidSeatType,
     UpdatePaidSeatType, UsePointType, CommitPaymentType, PublishPaymentType,
     ExpireTokenType DEF PayStep
<1>3. ASSUME NEW r \in ChargeRequests, StartCharge(r) \/ ChargeStep(r) PROVE TypeInv'
  BY <1>3, StartChargeType, ChargePointType, CommitChargeType DEF ChargeStep
<1>4. ASSUME NEW r \in Requests, Fail(r) PROVE TypeInv'
  BY <1>4, AbortType DEF Fail, Terminal
<1>5. CASE Tick
  BY <1>5, TickType
<1>6. CASE UNCHANGED vars
  BY <1>6 DEF vars, tables, locks, tx, calls, TypeInv, TypeOK, ControlOK
<1>7. QED
  BY <1>1, <1>2, <1>3, <1>4, <1>5, <1>6 DEF Next

(* Whatever the requests do, the tables hold rows of their types, within   *)
(* the width of their columns, and every object a transaction writes was   *)
(* read from them.                                                         *)
THEOREM TypeCorrect == Spec => []TypeOK
<1>1. Spec => []TypeInv
  BY InitTypeInv, NextTypeInv, PTL DEF Spec
<1>2. TypeInv => TypeOK
  BY DEF TypeInv
<1>3. QED
  BY <1>1, <1>2, PTL

-----------------------------------------------------------------------------
(* The seat invariant.                                                     *)

IInv == TypeInv /\ SeatInv

SeatRequests == BookRequests \cup PayRequests

LEMMA InitSeatInv == Init => SeatInv
BY DEF Init, SeatInv, SeatReaders, SeatWriters, Requests

(* What SeatInv asks of one request.                                       *)
SeatInvOf(r) ==
  /\ pc[r] \in SeatReaders => SeatReadOK(r)
  /\ pc[r] \in SeatWriters =>
       seatLock[SeatOf(r)] = r /\ txSeat[r].version = seat[SeatOf(r)].version

(* A step of request r that leaves the tables alone preserves the seat     *)
(* invariant if it does so for r and takes no lock of another request.     *)
LEMMA SeatFrame ==
  ASSUME IInv, NEW r \in Requests,
         seat' = seat, payment' = payment, now' = now,
         \A q \in Requests \ {r} : /\ pc'[q] = pc[q] /\ dto'[q] = dto[q]
                                   /\ txSeat'[q] = txSeat[q] /\ txBooking'[q] = txBooking[q],
         \A s \in Seats : seatLock[s] \notin {r, Null} => seatLock'[s] = seatLock[s],
         r \in SeatRequests => SeatInvOf(r)'
  PROVE  SeatInv'
<1>1. ASSUME NEW q \in SeatRequests, q # r PROVE SeatInvOf(q)'
  <2>1. q \in Requests
    BY DEF SeatRequests, Requests
  <2>2. SeatInvOf(q)
    BY DEF IInv, SeatInv, SeatInvOf, SeatRequests
  <2>3. SeatOf(q)' = SeatOf(q)
    BY <1>1, <2>1 DEF SeatOf
  <2>4. SeatReadOK(q)' = SeatReadOK(q)
    BY <1>1, <2>1, <2>3 DEF SeatReadOK
  <2>5. pc[q] \in SeatReaders => SeatOf(q) \in Seats
    BY <2>1 DEF IInv, TypeInv, ControlOK, SeatRequests, SeatReaders, SeatWriters, BookPC, PayPC,
                BookDto, BookingRow, SeatOf, Terminal
  <2>6. pc[q] \in SeatWriters /\ seatLock[SeatOf(q)] = q => seatLock'[SeatOf(q)] = q
    BY <1>1, <2>1, <2>5, NullAssumption DEF SeatReaders
  <2>7. QED
    BY <1>1, <2>1, <2>2, <2>3, <2>4, <2>6 DEF SeatInvOf
<1>2. \A q \in SeatRequests : SeatInvOf(q)'
  BY <1>1
<1>3. QED
  BY <1>2 DEF SeatInv, SeatInvOf, SeatRequests, IInv

LEMMA AbortSeatInv ==
  ASSUME IInv, NEW r \in Requests, NEW outcome \in Terminal, Abort(r, outcome)
  PROVE  SeatInv'
<1>1. /\ seat' = seat /\ payment' = payment /\ now' = now
      /\ \A q \in Requests \ {r} : /\ pc'[q] = pc[q] /\ dto'[q] = dto[q]
                                   /\ txSeat'[q] = txSeat[q] /\ txBooking'[q] = txBooking[q]
  BY DEF Abort, Goto, EndTransaction, tables, IInv, TypeInv, TypeOK
<1>2. \A s \in Seats : seatLock[s] \notin {r, Null} => seatLock'[s] = seatLock[s]
  BY DEF Abort, EndTransaction, UnlockedBy, IInv, TypeInv, TypeOK
<1>3. pc'[r] \notin SeatReaders
  BY DEF Abort, Goto, IInv, TypeInv, TypeOK, SeatReaders, SeatWriters, Terminal
<1>4. SeatInvOf(r)'
  BY <1>3 DEF SeatInvOf, SeatReaders
<1>5. QED
  BY <1>1, <1>2, <1>4, SeatFrame

LEMMA StartBookSeatInv ==
  ASSUME IInv, NEW r \in BookRequests, StartBook(r)
  PROVE  SeatInv'
<1>1. /\ r \in Requests /\ seat' = seat /\ payment' = payment /\ now' = now
      /\ seatLock' = seatLock
      /\ \A q \in Requests \ {r} : /\ pc'[q] = pc[q] /\ dto'[q] = dto[q]
                                   /\ txSeat'[q] = txSeat[q] /\ txBooking'[q] = txBooking[q]
  BY DEF StartBook, Requests, Goto, tables, locks, tx, IInv, TypeInv, TypeOK
<1>2. r \in SeatRequests => SeatInvOf(r)'
  BY <1>1, RequestsAssumption DEF StartBook, Goto, IInv, TypeInv, TypeOK, SeatInvOf, SeatReaders,
     SeatWriters, Terminal, SeatRequests
<1>3. QED
  BY <1>1, <1>2, SeatFrame

LEMMA StartPaySeatInv ==
  ASSUME IInv, NEW r \in PayRequests, StartPay(r)
  PROVE  SeatInv'
<1>1. /\ r \in Requests /\ seat' = seat /\ payment' = payment /\ now' = now
      /\ seatLock' = seatLock
      /\ \A q \in Requests \ {r} : /\ pc'[q] = pc[q] /\ dto'[q] = dto[q]
                                   /\ txSeat'[q] = txSeat[q] /\ txBooking'[q] = txBooking[q]
  BY DEF StartPay, Requests, Goto, tables, locks, tx, IInv, TypeInv, TypeOK
<1>2. r \in SeatRequests => SeatInvOf(r)'
  BY <1>1, RequestsAssumption DEF StartPay, Goto, IInv, TypeInv, TypeOK, SeatInvOf, SeatReaders,
     SeatWriters, Terminal, SeatRequests
<1>3. QED
  BY <1>1, <1>2, SeatFrame

LEMMA StartChargeSeatInv ==
  ASSUME IInv, NEW r \in ChargeRequests, StartCharge(r)
  PROVE  SeatInv'
<1>1. /\ r \in Requests /\ seat' = seat /\ payment' = payment /\ now' = now
      /\ seatLock' = seatLock
      /\ \A q \in Requests \ {r} : /\ pc'[q] = pc[q] /\ dto'[q] = dto[q]
                                   /\ txSeat'[q] = txSeat[q] /\ txBooking'[q] = txBooking[q]
  BY DEF StartCharge, Requests, Goto, tables, locks, tx, IInv, TypeInv, TypeOK
<1>2. r \in SeatRequests => SeatInvOf(r)'
  BY <1>1, RequestsAssumption DEF StartCharge, Goto, IInv, TypeInv, TypeOK, SeatInvOf, SeatReaders,
     SeatWriters, Terminal, SeatRequests
<1>3. QED
  BY <1>1, <1>2, SeatFrame

LEMMA PublishBookingSeatInv ==
  ASSUME IInv, NEW r \in BookRequests, PublishBooking(r)
  PROVE  SeatInv'
<1>1. /\ r \in Requests /\ seat' = seat /\ payment' = payment /\ now' = now
      /\ seatLock' = seatLock
      /\ \A q \in Requests \ {r} : /\ pc'[q] = pc[q] /\ dto'[q] = dto[q]
                                   /\ txSeat'[q] = txSeat[q] /\ txBooking'[q] = txBooking[q]
  BY DEF PublishBooking, Requests, Goto, tables, locks, tx, IInv, TypeInv, TypeOK
<1>2. r \in SeatRequests => SeatInvOf(r)'
  BY <1>1, RequestsAssumption
     DEF PublishBooking, Goto, IInv, TypeInv, TypeOK, SeatInvOf, SeatReaders,
     SeatWriters, Terminal, SeatRequests
<1>3. QED
  BY <1>1, <1>2, SeatFrame

LEMMA PublishPaymentSeatInv ==
  ASSUME IInv, NEW r \in PayRequests, PublishPayment(r)
  PROVE  SeatInv'
<1>1. /\ r \in Requests /\ seat' = seat /\ payment' = payment /\ now' = now
      /\ seatLock' = seatLock
      /\ \A q \in Requests \ {r} : /\ pc'[q] = pc[q] /\ dto'[q] = dto[q]
                                   /\ txSeat'[q] = txSeat[q] /\ txBooking'[q] = txBooking[q]
  BY DEF PublishPayment, Requests, Goto, tables, locks, tx, IInv, TypeInv, TypeOK
<1>2. r \in SeatRequests => SeatInvOf(r)'
  BY <1>1, RequestsAssumption
     DEF PublishPayment, Goto, IInv, TypeInv, TypeOK, SeatInvOf, SeatReaders,
     SeatWriters, Terminal, SeatRequests
<1>3. QED
  BY <1>1, <1>2, SeatFrame

LEMMA ExpireTokenSeatInv ==
  ASSUME IInv, NEW r \in PayRequests, ExpireToken(r)
  PROVE  SeatInv'
<1>1. /\ r \in Requests /\ seat' = seat /\ payment' = payment /\ now' = now
      /\ seatLock' = seatLock
      /\ \A q \in Requests \ {r} : /\ pc'[q] = pc[q] /\ dto'[q] = dto[q]
                                   /\ txSeat'[q] = txSeat[q] /\ txBooking'[q] = txBooking[q]
  BY DEF ExpireToken, Requests, Goto, tables, locks, tx, IInv, TypeInv, TypeOK
<1>2. r \in SeatRequests => SeatInvOf(r)'
  BY <1>1, RequestsAssumption DEF ExpireToken, Goto, IInv, TypeInv, TypeOK, SeatInvOf, SeatReaders,
     SeatWriters, Terminal, SeatRequests
<1>3. QED
  BY <1>1, <1>2, SeatFrame

(* A request that has written the seat keeps its knowledge of it through   *)
(* steps that touch neither the seat nor the request's object of it.       *)
LEMMA WriterKeepsSeat ==
  ASSUME IInv, NEW r \in SeatRequests, pc[r] \in SeatWriters,
         seat' = seat, now' = now, seatLock' = seatLock, dto' = dto, txSeat' = txSeat,
         SeatOf(r)' = SeatOf(r)
  PROVE  SeatInvOf(r)'
<1>1. SeatReadOK(r) /\ seatLock[SeatOf(r)] = r /\ txSeat[r].version = seat[SeatOf(r)].version
  BY DEF IInv, SeatInv, SeatRequests, SeatReaders
<1>2. SeatReadOK(r)'
  BY <1>1 DEF SeatReadOK
<1>3. QED
  BY <1>1, <1>2 DEF SeatInvOf

LEMMA SaveBookingSeatInv ==
  ASSUME IInv, NEW r \in BookRequests, SaveBooking(r)
  PROVE  SeatInv'
<1>1. /\ r \in Requests /\ seat' = seat /\ payment' = payment /\ now' = now
      /\ seatLock' = seatLock /\ dto' = dto /\ txSeat' = txSeat
      /\ \A q \in Requests \ {r} : pc'[q] = pc[q] /\ txBooking'[q] = txBooking[q]
  BY DEF SaveBooking, NewBooking, Requests, Goto, tables, locks, IInv, TypeInv, TypeOK
<1>2. SeatOf(r)' = SeatOf(r)
  BY <1>1 DEF SeatOf
<1>3. pc[r] \in SeatWriters /\ r \in SeatRequests
  BY DEF SaveBooking, NewBooking, SeatWriters, SeatRequests
<1>4. SeatInvOf(r)'
  BY <1>1, <1>2, <1>3, WriterKeepsSeat
<1>5. QED
  BY <1>1, <1>4, SeatFrame

LEMMA UsePointSeatInv ==
  ASSUME IInv, NEW r \in PayRequests, UsePoint(r)
  PROVE  SeatInv'
<1>1. CASE Reject(r)
  BY <1>1, AbortSeatInv DEF Reject, Requests, Terminal
<1>2. CASE ~Reject(r)
  <2>1. /\ r \in Requests /\ seat' = seat /\ payment' = payment /\ now' = now
        /\ seatLock' = seatLock /\ dto' = dto /\ txSeat' = txSeat /\ txBooking' = txBooking
        /\ \A q \in Requests \ {r} : pc'[q] = pc[q]
    BY <1>2 DEF UsePoint, WritePoint, Requests, Goto, tables, IInv, TypeInv, TypeOK
  <2>2. SeatOf(r)' = SeatOf(r)
    BY <2>1 DEF SeatOf
  <2>3. pc[r] \in SeatWriters /\ r \in SeatRequests
    BY DEF UsePoint, SeatWriters, SeatRequests
  <2>4. SeatInvOf(r)'
    BY <2>1, <2>2, <2>3, WriterKeepsSeat
  <2>5. QED
    BY <2>1, <2>4, SeatFrame
<1>3. QED
  BY <1>1, <1>2

LEMMA ChargePointSeatInv ==
  ASSUME IInv, NEW r \in ChargeRequests, ChargePoint(r)
  PROVE  SeatInv'
<1>1. CASE Reject(r)
  BY <1>1, AbortSeatInv DEF Reject, Requests, Terminal
<1>2. CASE ~Reject(r)
  <2>1. /\ r \in Requests /\ seat' = seat /\ payment' = payment /\ now' = now
        /\ seatLock' = seatLock /\ dto' = dto /\ txSeat' = txSeat /\ txBooking' = txBooking
        /\ \A q \in Requests \ {r} : pc'[q] = pc[q]
    BY <1>2 DEF ChargePoint, WritePoint, Requests, Goto, tables, IInv, TypeInv, TypeOK
  <2>2. r \notin SeatRequests
    BY RequestsAssumption DEF SeatRequests
  <2>3. QED
    BY <2>1, <2>2, SeatFrame
<1>3. QED
  BY <1>1, <1>2

LEMMA ValidateScheduleSeatInv ==
  ASSUME IInv, NEW r \in BookRequests, ValidateSchedule(r)
  PROVE  SeatInv'
<1>1. CASE Reject(r)
  BY <1>1, AbortSeatInv DEF Reject, Requests, Terminal
<1>2. CASE ~Reject(r)
  <2>1. /\ r \in Requests /\ seat' = seat /\ payment' = payment /\ now' = now
        /\ seatLock' = seatLock /\ dto' = dto /\ txSeat' = txSeat /\ txBooking' = txBooking
        /\ \A q \in Requests \ {r} : pc'[q] = pc[q]
        /\ pc'[r] = "readSeat"
    BY <1>2 DEF ValidateSchedule, Requests, Goto, tables, locks, tx, IInv, TypeInv, TypeOK
  <2>2. SeatInvOf(r)'
    BY <2>1 DEF SeatInvOf, SeatReaders, SeatWriters
  <2>3. QED
    BY <2>1, <2>2, SeatFrame
<1>3. QED
  BY <1>1, <1>2

LEMMA ReadBookingSeatInv ==
  ASSUME IInv, NEW r \in PayRequests, ReadBooking(r)
  PROVE  SeatInv'
<1>1. CASE Reject(r)
  BY <1>1, AbortSeatInv DEF Reject, Requests, Terminal
<1>2. CASE ~Reject(r)
  <2>1. /\ r \in Requests /\ seat' = seat /\ payment' = payment /\ now' = now
        /\ seatLock' = seatLock /\ dto' = dto /\ txSeat' = txSeat
        /\ \A q \in Requests \ {r} : pc'[q] = pc[q] /\ txBooking'[q] = txBooking[q]
        /\ pc'[r] = "updateBooking"
    BY <1>2 DEF ReadBooking, Requests, Goto, tables, locks, IInv, TypeInv, TypeOK
  <2>2. SeatInvOf(r)'
    BY <2>1 DEF SeatInvOf, SeatReaders, SeatWriters
  <2>3. QED
    BY <2>1, <2>2, SeatFrame
<1>3. QED
  BY <1>1, <1>2

LEMMA UpdateBookingSeatInv ==
  ASSUME IInv, NEW r \in PayRequests, UpdateBooking(r)
  PROVE  SeatInv'
<1>1. CASE Reject(r)
  BY <1>1, AbortSeatInv DEF Reject, Requests, Terminal
<1>2. CASE ~Reject(r)
  <2>1. /\ r \in Requests /\ seat' = seat /\ payment' = payment /\ now' = now
        /\ seatLock' = seatLock /\ dto' = dto /\ txSeat' = txSeat /\ txBooking' = txBooking
        /\ \A q \in Requests \ {r} : pc'[q] = pc[q]
        /\ pc'[r] = "readPaidSeat"
    BY <1>2 DEF UpdateBooking, Requests, Goto, tables, tx, IInv, TypeInv, TypeOK
  <2>2. SeatInvOf(r)'
    BY <2>1 DEF SeatInvOf, SeatReaders, SeatWriters
  <2>3. QED
    BY <2>1, <2>2, SeatFrame
<1>3. QED
  BY <1>1, <1>2

(* book() and pay() work on the row as it is when it is read.              *)
LEMMA ReadSeatSeatInv ==
  ASSUME IInv, NEW r \in BookRequests, ReadSeat(r)
  PROVE  SeatInv'
<1>1. CASE Reject(r)
  BY <1>1, AbortSeatInv DEF Reject, Requests, Terminal
<1>2. CASE ~Reject(r)
  <2> DEFINE row == seat[dto[r].seat]
  <2>1. /\ r \in Requests /\ seat' = seat /\ payment' = payment /\ now' = now
        /\ seatLock' = seatLock /\ dto' = dto /\ txBooking' = txBooking
        /\ \A q \in Requests \ {r} : pc'[q] = pc[q] /\ txSeat'[q] = txSeat[q]
        /\ pc'[r] = "updateSeat" /\ txSeat'[r] = Booked(row)
    BY <1>2 DEF ReadSeat, Requests, Goto, tables, locks, IInv, TypeInv, TypeOK
  <2>2. row \in SeatRow /\ now \in Nat /\ CanBook(row)
    BY <1>2 DEF ReadSeat, IInv, TypeInv, TypeOK, ControlOK, BookPC, BookDto
  <2>3. /\ Booked(row).version = row.version /\ ~Booked(row).isPaid
        /\ row.version \in Nat /\ ~row.isPaid
        /\ row.reservedUntil # Null => row.reservedUntil <= now
    BY <2>2, BookedRow DEF CanBook, SeatRow
  <2>4. SeatOf(r)' = dto[r].seat
    BY <2>1 DEF SeatOf
  <2>5. SeatReadOK(r)'
    BY <2>1, <2>3, <2>4, RequestsAssumption DEF SeatReadOK
  <2>6. SeatInvOf(r)'
    BY <2>1, <2>5 DEF SeatInvOf, SeatWriters
  <2>7. QED
    BY <2>1, <2>6, SeatFrame
<1>3. QED
  BY <1>1, <1>2

LEMMA ReadPaidSeatSeatInv ==
  ASSUME IInv, NEW r \in PayRequests, ReadPaidSeat(r)
  PROVE  SeatInv'
<1>1. CASE Reject(r)
  BY <1>1, AbortSeatInv DEF Reject, Requests, Terminal
<1>2. CASE ~Reject(r)
  <2> DEFINE row == seat[txBooking[r].seat]
  <2>1. /\ r \in Requests /\ seat' = seat /\ payment' = payment /\ now' = now
        /\ seatLock' = seatLock /\ dto' = dto /\ txBooking' = txBooking
        /\ \A q \in Requests \ {r} : pc'[q] = pc[q] /\ txSeat'[q] = txSeat[q]
        /\ pc'[r] = "updatePaidSeat" /\ txSeat'[r] = Paid(row)
    BY <1>2 DEF ReadPaidSeat, Requests, Goto, tables, locks, IInv, TypeInv, TypeOK
  <2>2. row \in SeatRow /\ CanPaySeat(row)
    BY <1>2 DEF ReadPaidSeat, IInv, TypeInv, TypeOK, ControlOK, PayPC, BookingRow
  <2>3. /\ Paid(row).version = row.version /\ Paid(row).isPaid
        /\ Paid(row).reservedUntil = row.reservedUntil
        /\ row.version \in Nat /\ ~row.isPaid /\ row.reservedUntil # Null
    BY <2>2, PaidSeatRow DEF CanPaySeat, SeatRow
  <2>4. SeatOf(r)' = txBooking[r].seat
    BY <2>1, RequestsAssumption DEF SeatOf
  <2>5. SeatReadOK(r)'
    BY <2>1, <2>3, <2>4, RequestsAssumption DEF SeatReadOK
  <2>6. SeatInvOf(r)'
    BY <2>1, <2>5 DEF SeatInvOf, SeatWriters
  <2>7. QED
    BY <2>1, <2>6, SeatFrame
<1>3. QED
  BY <1>1, <1>2

(* The UPDATE locks the row only at the version that was read.             *)
LEMMA WriteSeatSeatInv ==
  ASSUME IInv, NEW r \in SeatRequests, NEW next,
         pc[r] \in SeatReaders, WriteSeat(r, SeatOf(r), next)
  PROVE  SeatInv'
<1>1. CASE Reject(r)
  BY <1>1, AbortSeatInv DEF Reject, Requests, Terminal, SeatRequests
<1>2. CASE ~Reject(r)
  <2>1. /\ r \in Requests /\ seat' = seat /\ payment' = payment /\ now' = now
        /\ dto' = dto /\ txSeat' = txSeat /\ txBooking' = txBooking
        /\ \A q \in Requests \ {r} : pc'[q] = pc[q]
        /\ seatLock[SeatOf(r)] = Null
        /\ seatLock' = [seatLock EXCEPT ![SeatOf(r)] = r]
        /\ txSeat[r].version = seat[SeatOf(r)].version
    BY <1>2 DEF WriteSeat, VersionMatches, SeatRequests, Requests, Goto, tables, tx, IInv,
       TypeInv, TypeOK
  <2>2. SeatOf(r)' = SeatOf(r)
    BY <2>1 DEF SeatOf
  <2>3. SeatOf(r) \in Seats
    BY DEF IInv, TypeInv, ControlOK, SeatRequests, SeatReaders, SeatWriters, BookPC, PayPC,
           BookDto, BookingRow, SeatOf, Terminal
  <2>4. SeatReadOK(r)
    BY DEF IInv, SeatInv, SeatRequests
  <2>5. SeatReadOK(r)'
    BY <2>1, <2>2, <2>4 DEF SeatReadOK
  <2>6. seatLock'[SeatOf(r)'] = r
    BY <2>1, <2>2, <2>3 DEF IInv, TypeInv, TypeOK
  <2>7. SeatInvOf(r)'
    BY <2>1, <2>2, <2>5, <2>6 DEF SeatInvOf
  <2>8. \A s \in Seats : seatLock[s] \notin {r, Null} => seatLock'[s] = seatLock[s]
    BY <2>1, <2>3 DEF IInv, TypeInv, TypeOK
  <2>9. QED
    BY <2>1, <2>7, <2>8, SeatFrame
<1>3. QED
  BY <1>1, <1>2

LEMMA UpdateSeatSeatInv ==
  ASSUME IInv, NEW r \in BookRequests, UpdateSeat(r)
  PROVE  SeatInv'
<1>1. SeatOf(r) = dto[r].seat /\ pc[r] \in SeatReaders /\ r \in SeatRequests
  BY DEF SeatOf, UpdateSeat, SeatReaders, SeatRequests
<1>2. QED
  BY <1>1, WriteSeatSeatInv DEF UpdateSeat

LEMMA UpdatePaidSeatSeatInv ==
  ASSUME IInv, NEW r \in PayRequests, UpdatePaidSeat(r)
  PROVE  SeatInv'
<1>1. SeatOf(r) = txBooking[r].seat /\ pc[r] \in SeatReaders /\ r \in SeatRequests
  BY RequestsAssumption DEF SeatOf, UpdatePaidSeat, SeatReaders, SeatRequests
<1>2. QED
  BY <1>1, WriteSeatSeatInv DEF UpdatePaidSeat

(* The commit of a request that has written its seat: whoever else has     *)
(* read the row now holds an older version of it, and nobody else locks it. *)
LEMMA SeatCommit ==
  ASSUME IInv, NEW r \in SeatRequests, pc[r] \in SeatWriters,
         seat' = [seat EXCEPT ![SeatOf(r)] = NextVersion(txSeat[r])], now' = now,
         seatLock' = UnlockedBy(seatLock, r), pc'[r] \notin SeatReaders,
         \A q \in Requests \ {r} : /\ pc'[q] = pc[q] /\ dto'[q] = dto[q]
                                   /\ txSeat'[q] = txSeat[q] /\ txBooking'[q] = txBooking[q]
  PROVE  \A q \in SeatRequests : SeatInvOf(q)'
<1> DEFINE s0 == SeatOf(r)
<1>1. /\ r \in Requests /\ s0 \in Seats /\ txSeat[r] \in SeatRow /\ seat[s0] \in SeatRow
      /\ seat \in [Seats -> SeatRow] /\ seatLock \in [Seats -> Requests \cup {Null}]
  BY DEF IInv, TypeInv, TypeOK, ControlOK, SeatRequests, Requests, SeatReaders, SeatWriters,
         BookPC, PayPC, BookDto, BookingRow, SeatOf, Terminal
<1>2. seatLock[s0] = r /\ txSeat[r].version = seat[s0].version
  BY DEF IInv, SeatInv, SeatRequests
<1>3. seat'[s0].version = seat[s0].version + 1 /\ seat[s0].version \in Nat
  BY <1>1, <1>2, NextSeatRow DEF SeatRow
<1>4. \A s \in Seats \ {s0} : seat'[s] = seat[s]
  BY <1>1
<1>5. \A s \in Seats : seatLock[s] # r => seatLock'[s] = seatLock[s]
  BY <1>1 DEF UnlockedBy
<1>6. SeatInvOf(r)'
  BY DEF SeatInvOf, SeatReaders
<1>7. ASSUME NEW q \in SeatRequests, q # r, pc[q] \in SeatReaders PROVE SeatInvOf(q)'
  <2> DEFINE s == SeatOf(q)
  <2>1. q \in Requests /\ pc'[q] = pc[q] /\ txSeat'[q] = txSeat[q] /\ SeatOf(q)' = s
    BY <1>7 DEF SeatRequests, Requests, SeatOf
  <2>2. s \in Seats /\ txSeat[q].version \in Nat
    BY <1>7 DEF IInv, TypeInv, ControlOK, SeatRequests, SeatReaders, SeatWriters, BookPC, PayPC,
           BookDto, BookingRow, SeatRow, SeatOf, Terminal
  <2>3. SeatReadOK(q)
    BY <1>7 DEF IInv, SeatInv, SeatRequests
  <2>4. pc[q] \in SeatWriters => seatLock[s] = q /\ txSeat[q].version = seat[s].version
    BY DEF IInv, SeatInv, SeatRequests
  <2>5. CASE s = s0
    <3>1. txSeat[q].version < seat'[s].version
      BY <1>3, <2>2, <2>3, <2>5 DEF SeatReadOK
    <3>2. txSeat[q].version # seat'[s].version /\ txSeat[q].version <= seat'[s].version
      BY <1>1, <1>3, <2>2, <2>5, <3>1
    <3>3. SeatReadOK(q)'
      BY <2>1, <2>3, <3>2 DEF SeatReadOK
    <3>4. pc[q] \notin SeatWriters
      BY <1>2, <1>7, <2>4, <2>5
    <3>5. QED
      BY <2>1, <3>3, <3>4 DEF SeatInvOf
  <2>6. CASE s # s0
    <3>1. seat'[s] = seat[s]
      BY <1>4, <2>2, <2>6
    <3>2. SeatReadOK(q)'
      BY <2>1, <2>3, <3>1 DEF SeatReadOK
    <3>3. pc[q] \in SeatWriters => seatLock'[s] = q
      BY <1>5, <1>7, <2>2, <2>4
    <3>4. QED
      BY <2>1, <2>4, <3>1, <3>2, <3>3 DEF SeatInvOf
  <2>7. QED
    BY <2>5, <2>6
<1>8. ASSUME NEW q \in SeatRequests, q # r, pc[q] \notin SeatReaders PROVE SeatInvOf(q)'
  <2>1. pc'[q] = pc[q]
    BY <1>8 DEF SeatRequests, Requests
  <2>2. QED
    BY <1>8, <2>1 DEF SeatInvOf, SeatReaders
<1>9. QED
  BY <1>6, <1>7, <1>8

(* What a request that has written its seat knows of it.                   *)
LEMMA WriterKnowsSeat ==
  ASSUME IInv, NEW r \in SeatRequests, pc[r] \in SeatWriters
  PROVE  /\ SeatOf(r) \in Seats /\ txSeat[r] \in SeatRow
         /\ ~seat[SeatOf(r)].isPaid /\ SeatReadOK(r)
         /\ txSeat[r].version = seat[SeatOf(r)].version
<1>1. SeatOf(r) \in Seats /\ txSeat[r] \in SeatRow
  BY DEF IInv, TypeInv, ControlOK, SeatRequests, SeatReaders, SeatWriters, BookPC, PayPC,
         BookDto, BookingRow, SeatOf, Terminal
<1>2. SeatReadOK(r) /\ txSeat[r].version = seat[SeatOf(r)].version
  BY DEF IInv, SeatInv, SeatRequests, SeatReaders
<1>3. QED
  BY <1>1, <1>2 DEF SeatReadOK

LEMMA CommitBookingSeatInv ==
  ASSUME IInv, NEW r \in BookRequests, CommitBooking(r)
  PROVE  SeatInv'
<1>1. /\ r \in SeatRequests /\ r \in Requests /\ pc[r] \in SeatWriters
      /\ SeatOf(r) = dto[r].seat
  BY DEF CommitBooking, SeatRequests, Requests, SeatWriters, SeatOf
<1>2. /\ seat' = [seat EXCEPT ![SeatOf(r)] = NextVersion(txSeat[r])]
      /\ now' = now /\ payment' = payment /\ seatLock' = UnlockedBy(seatLock, r)
      /\ pc'[r] = "publish"
      /\ \A q \in Requests \ {r} : /\ pc'[q] = pc[q] /\ dto'[q] = dto[q]
                                   /\ txSeat'[q] = txSeat[q] /\ txBooking'[q] = txBooking[q]
  BY <1>1 DEF CommitBooking, EndTransaction, Goto, IInv, TypeInv, TypeOK
<1>3. pc'[r] \notin SeatReaders
  BY <1>2 DEF SeatReaders, SeatWriters
<1>4. \A q \in SeatRequests : SeatInvOf(q)'
  BY <1>1, <1>2, <1>3, SeatCommit
<1>5. ASSUME NEW p \in PayRequests, payment'[p] # Null PROVE seat'[payment'[p].seat].isPaid
  <2>1. seat[payment[p].seat].isPaid
    BY <1>2, <1>5 DEF IInv, SeatInv
  <2>2. payment[p].seat \in Seats
    BY <1>2, <1>5 DEF IInv, TypeInv, TypeOK, PaymentRow
  <2>3. payment[p].seat # SeatOf(r)
    BY <1>1, <2>1, WriterKnowsSeat
  <2>4. QED
    BY <1>2, <2>1, <2>2, <2>3 DEF IInv, TypeInv, TypeOK
<1>6. QED
  BY <1>4, <1>5 DEF SeatInv, SeatInvOf, SeatRequests

LEMMA CommitPaymentSeatInv ==
  ASSUME IInv, NEW r \in PayRequests, CommitPayment(r)
  PROVE  SeatInv'
<1>1. /\ r \in SeatRequests /\ r \in Requests /\ pc[r] \in SeatWriters
      /\ SeatOf(r) = txBooking[r].seat
  BY RequestsAssumption
     DEF CommitPayment, NewPayment, NewHistory, SeatRequests, Requests, SeatWriters, SeatOf
<1>2. /\ seat' = [seat EXCEPT ![SeatOf(r)] = NextVersion(txSeat[r])]
      /\ now' = now /\ seatLock' = UnlockedBy(seatLock, r)
      /\ pc'[r] = "publish"
      /\ \A q \in Requests \ {r} : /\ pc'[q] = pc[q] /\ dto'[q] = dto[q]
                                   /\ txSeat'[q] = txSeat[q] /\ txBooking'[q] = txBooking[q]
      /\ payment'[r].seat = SeatOf(r)
      /\ \A p \in PayRequests \ {r} : payment'[p] = payment[p]
  BY <1>1 DEF CommitPayment, NewPayment, NewHistory, EndTransaction, Goto, IInv, TypeInv, TypeOK
<1>3. pc'[r] \notin SeatReaders
  BY <1>2 DEF SeatReaders, SeatWriters
<1>4. \A q \in SeatRequests : SeatInvOf(q)'
  BY <1>1, <1>2, <1>3, SeatCommit
<1>5. SeatOf(r) \in Seats /\ ~seat[SeatOf(r)].isPaid /\ txSeat[r] \in SeatRow /\ txSeat[r].isPaid
  BY <1>1, WriterKnowsSeat DEF SeatReadOK
<1>6. seat'[SeatOf(r)].isPaid
  BY <1>2, <1>5, NextSeatRow DEF IInv, TypeInv, TypeOK
<1>7. ASSUME NEW p \in PayRequests \ {r}, payment'[p] # Null PROVE seat'[payment'[p].seat].isPaid
  <2>1. seat[payment[p].seat].isPaid
    BY <1>2, <1>7 DEF IInv, SeatInv
  <2>2. payment[p].seat \in Seats
    BY <1>2, <1>7 DEF IInv, TypeInv, TypeOK, PaymentRow
  <2>3. payment[p].seat # SeatOf(r)
    BY <1>5, <2>1
  <2>4. QED
    BY <1>2, <2>1, <2>2, <2>3 DEF IInv, TypeInv, TypeOK
<1>8. QED
  BY <1>2, <1>4, <1>6, <1>7 DEF SeatInv, SeatInvOf, SeatRequests

LEMMA CommitChargeSeatInv ==
  ASSUME IInv, NEW r \in ChargeRequests, CommitCharge(r)
  PROVE  SeatInv'
<1>1. /\ r \in Requests /\ r \notin SeatRequests
      /\ seat' = seat /\ payment' = payment /\ now' = now
      /\ \A q \in Requests \ {r} : /\ pc'[q] = pc[q] /\ dto'[q] = dto[q]
                                   /\ txSeat'[q] = txSeat[q] /\ txBooking'[q] = txBooking[q]
  BY RequestsAssumption
     DEF CommitCharge, NewHistory, EndTransaction, Goto, Requests, SeatRequests, IInv,
     TypeInv, TypeOK
<1>2. \A s \in Seats : seatLock[s] \notin {r, Null} => seatLock'[s] = seatLock[s]
  BY DEF CommitCharge, NewHistory, EndTransaction, UnlockedBy, IInv, TypeInv, TypeOK
<1>3. QED
  BY <1>1, <1>2, SeatFrame

(* A hold that has lapsed stays lapsed.                                    *)
LEMMA TickSeatInv ==
  ASSUME IInv, Tick
  PROVE  SeatInv'
<1>1. /\ now \in Nat /\ now' = now + 1 /\ seat' = seat /\ payment' = payment /\ pc' = pc
      /\ dto' = dto /\ txSeat' = txSeat /\ txBooking' = txBooking /\ seatLock' = seatLock
  BY MaxTimeAssumption DEF Tick, tables, locks, tx, IInv, TypeInv, TypeOK
<1>2. ASSUME NEW r \in SeatRequests, pc[r] \in SeatReaders PROVE SeatReadOK(r)'
  <2>1. SeatReadOK(r)
    BY <1>2 DEF IInv, SeatInv, SeatRequests
  <2>2. SeatOf(r)' = SeatOf(r)
    BY <1>1 DEF SeatOf
  <2>3. SeatOf(r) \in Seats
    BY <1>2 DEF IInv, TypeInv, ControlOK, SeatRequests, SeatReaders, SeatWriters, BookPC, PayPC,
           BookDto, BookingRow, SeatOf, Terminal
  <2>4. seat[SeatOf(r)].reservedUntil \in Nat \cup {Null}
    BY <2>3 DEF IInv, TypeInv, TypeOK, SeatRow
  <2>5. seat[SeatOf(r)].reservedUntil \in Nat /\ seat[SeatOf(r)].reservedUntil <= now
          => seat[SeatOf(r)].reservedUntil <= now'
    BY <1>1
  <2>6. QED
    BY <1>1, <2>1, <2>2, <2>4, <2>5 DEF SeatReadOK
<1>3. \A r \in SeatRequests : SeatOf(r)' = SeatOf(r)
  BY <1>1 DEF SeatOf
<1>4. QED
  BY <1>1, <1>2, <1>3 DEF IInv, SeatInv, SeatRequests

LEMMA NextSeatInv == IInv /\ [Next]_vars => SeatInv'
<1> SUFFICES ASSUME IInv, [Next]_vars PROVE SeatInv'
  OBVIOUS
<1>1. ASSUME NEW r \in BookRequests, StartBook(r) \/ BookStep(r) PROVE SeatInv'
  BY <1>1, StartBookSeatInv, ValidateScheduleSeatInv, ReadSeatSeatInv, UpdateSeatSeatInv,
     SaveBookingSeatInv, CommitBookingSeatInv, PublishBookingSeatInv DEF BookStep
<1>2. ASSUME NEW r \in PayRequests, StartPay(r) \/ PayStep(r) PROVE SeatInv'
  BY <1>2, StartPaySeatInv, ReadBookingSeatInv, UpdateBookingSeatInv, ReadPaidSeatSeatInv,
     UpdatePaidSeatSeatInv, UsePointSeatInv, CommitPaymentSeatInv, PublishPaymentSeatInv,
     ExpireTokenSeatInv DEF PayStep
<1>3. ASSUME NEW r \in ChargeRequests, StartCharge(r) \/ ChargeStep(r) PROVE SeatInv'
  BY <1>3, StartChargeSeatInv, ChargePointSeatInv, CommitChargeSeatInv DEF ChargeStep
<1>4. ASSUME NEW r \in Requests, Fail(r) PROVE SeatInv'
  BY <1>4, AbortSeatInv DEF Fail, Terminal
<1>5. CASE Tick
  BY <1>5, TickSeatInv
<1>6. CASE UNCHANGED vars
  BY <1>6 DEF vars, tables, locks, tx, calls, IInv, SeatInv, SeatReadOK, SeatOf
<1>7. QED
  BY <1>1, <1>2, <1>3, <1>4, <1>5, <1>6 DEF Next

LEMMA InductiveInv == Spec => []IInv
<1>1. Init => IInv
  BY InitTypeInv, InitSeatInv DEF IInv
<1>2. IInv /\ [Next]_vars => IInv'
  BY NextTypeInv, NextSeatInv DEF IInv
<1>3. QED
  BY <1>1, <1>2, PTL DEF Spec

(* A request's knowledge of the seat it has read is never wrong: while the *)
(* version is the one it read, the seat is unsold and its hold unchanged,  *)
(* and once it has written the row nobody else can.                        *)
THEOREM SeatKnowledge == Spec => []SeatInv
<1>1. IInv => SeatInv
  BY DEF IInv
<1>2. QED
  BY <1>1, InductiveInv, PTL

-----------------------------------------------------------------------------
(* Selling and holding seats.                                              *)

(* Seats and payments change at two commits only.                          *)
LEMMA OnlyCommitsChangeSeats ==
  ASSUME [Next]_vars
  PROVE  \/ seat' = seat /\ payment' = payment
         \/ \E r \in BookRequests : CommitBooking(r)
         \/ \E r \in PayRequests : CommitPayment(r)
<1>1. ASSUME NEW r \in BookRequests, StartBook(r) \/ BookStep(r)
      PROVE  (seat' = seat /\ payment' = payment) \/ CommitBooking(r)
  BY <1>1 DEF BookStep, StartBook, ValidateSchedule, ReadSeat, UpdateSeat, WriteSeat,
     SaveBooking, NewBooking, PublishBooking, Reject, Abort, tables
<1>2. ASSUME NEW r \in PayRequests, StartPay(r) \/ PayStep(r)
      PROVE  (seat' = seat /\ payment' = payment) \/ CommitPayment(r)
  BY <1>2 DEF PayStep, StartPay, ReadBooking, UpdateBooking, ReadPaidSeat, UpdatePaidSeat,
     WriteSeat, UsePoint, WritePoint, PublishPayment, ExpireToken, Reject, Abort, tables
<1>3. ASSUME NEW r \in ChargeRequests, StartCharge(r) \/ ChargeStep(r)
      PROVE  seat' = seat /\ payment' = payment
  BY <1>3 DEF ChargeStep, StartCharge, ChargePoint, CommitCharge, NewHistory, WritePoint, Reject,
     Abort,
     tables
<1>4. ASSUME NEW r \in Requests, Fail(r) PROVE seat' = seat /\ payment' = payment
  BY <1>4 DEF Fail, Abort, tables
<1>5. CASE Tick
  BY <1>5 DEF Tick, tables
<1>6. CASE UNCHANGED vars
  BY <1>6 DEF vars, tables
<1>7. QED
  BY <1>1, <1>2, <1>3, <1>4, <1>5, <1>6 DEF Next

(* What a commit of a booking does to the seats: one that is neither sold  *)
(* nor under a hold that lasts is held.                                    *)
LEMMA CommitBookingSeat ==
  ASSUME IInv, NEW r \in BookRequests, CommitBooking(r)
  PROVE  LET s0 == dto[r].seat IN
         /\ s0 \in Seats /\ ~seat[s0].isPaid
         /\ seat[s0].reservedUntil # Null => seat[s0].reservedUntil <= now
         /\ \A s \in Seats \ {s0} : seat'[s] = seat[s]
<1>1. r \in SeatRequests /\ pc[r] \in SeatWriters /\ SeatOf(r) = dto[r].seat
  BY DEF CommitBooking, SeatRequests, SeatWriters, SeatOf
<1>2. QED
  BY <1>1, WriterKnowsSeat DEF CommitBooking, SeatReadOK, IInv, TypeInv, TypeOK

(* What a commit of a payment does to the seats: one that is not sold and  *)
(* has a hold is sold, and keeps its hold.                                 *)
LEMMA CommitPaymentSeat ==
  ASSUME IInv, NEW r \in PayRequests, CommitPayment(r)
  PROVE  LET s0 == txBooking[r].seat IN
         /\ s0 \in Seats /\ ~seat[s0].isPaid
         /\ seat'[s0].isPaid /\ seat'[s0].reservedUntil = seat[s0].reservedUntil
         /\ \A s \in Seats \ {s0} : seat'[s] = seat[s]
         /\ payment'[r].seat = s0
         /\ \A p \in PayRequests \ {r} : payment'[p] = payment[p]
<1> DEFINE s0 == txBooking[r].seat
<1>1. r \in SeatRequests /\ pc[r] \in SeatWriters /\ SeatOf(r) = s0
  BY RequestsAssumption DEF CommitPayment, NewPayment, NewHistory, SeatRequests, SeatWriters, SeatOf
<1>2. /\ s0 \in Seats /\ ~seat[s0].isPaid /\ txSeat[r] \in SeatRow
      /\ txSeat[r].isPaid /\ txSeat[r].reservedUntil = seat[s0].reservedUntil
  BY <1>1, WriterKnowsSeat DEF SeatReadOK
<1>3. seat' = [seat EXCEPT ![s0] = NextVersion(txSeat[r])] /\ seat \in [Seats -> SeatRow]
  BY DEF CommitPayment, NewPayment, NewHistory, IInv, TypeInv, TypeOK
<1>4. seat'[s0].isPaid /\ seat'[s0].reservedUntil = seat[s0].reservedUntil
  BY <1>2, <1>3, NextSeatRow
<1>5. \A s \in Seats \ {s0} : seat'[s] = seat[s]
  BY <1>3
<1>6. payment'[r].seat = s0 /\ \A p \in PayRequests \ {r} : payment'[p] = payment[p]
  BY DEF CommitPayment, NewPayment, NewHistory, IInv, TypeInv, TypeOK
<1>7. QED
  BY <1>2, <1>4, <1>5, <1>6

LEMMA NextSoldOnce == IInv /\ SoldOnce /\ [Next]_vars => SoldOnce'
<1> SUFFICES ASSUME IInv, SoldOnce, [Next]_vars PROVE SoldOnce'
  OBVIOUS
<1>1. CASE payment' = payment
  BY <1>1 DEF SoldOnce, PaidFor
<1>2. ASSUME NEW r \in BookRequests, CommitBooking(r) PROVE SoldOnce'
  BY <1>2 DEF CommitBooking, SoldOnce, PaidFor
<1>3. ASSUME NEW r \in PayRequests, CommitPayment(r) PROVE SoldOnce'
  <2> DEFINE s0 == txBooking[r].seat
  <2>1. /\ s0 \in Seats /\ ~seat[s0].isPaid /\ payment'[r].seat = s0
        /\ \A p \in PayRequests \ {r} : payment'[p] = payment[p]
    BY <1>3, CommitPaymentSeat
  <2>2. \A s \in Seats : PaidFor(s)' \ {r} \subseteq PaidFor(s)
    BY <2>1 DEF PaidFor
  <2>3. PaidFor(s0) = {}
    BY <2>1 DEF PaidFor, IInv, SeatInv
  <2>4. \A s \in Seats : r \in PaidFor(s)' => s = s0
    BY <2>1 DEF PaidFor
  <2>5. ASSUME NEW s \in Seats, NEW p \in PaidFor(s)', NEW q \in PaidFor(s)' PROVE p = q
    BY <2>2, <2>3, <2>4 DEF SoldOnce
  <2>6. QED
    BY <2>5 DEF SoldOnce
<1>4. QED
  BY <1>1, <1>2, <1>3, OnlyCommitsChangeSeats

(* However many requests race for a seat, at most one payment for it ever  *)
(* commits.                                                                *)
THEOREM SeatSoldOnce == Spec => []SoldOnce
<1>1. Init => SoldOnce
  BY DEF Init, SoldOnce, PaidFor
<1>2. QED
  BY <1>1, NextSoldOnce, InductiveInv, PTL DEF Spec

(* No step of any request changes a seat that is paid for.                 *)
THEOREM PaidSeatStays == Spec => PaidSeatIsFinal
<1>1. ASSUME IInv, [Next]_vars, NEW s \in Seats, seat[s].isPaid PROVE seat'[s] = seat[s]
  <2>1. ASSUME NEW r \in BookRequests, CommitBooking(r) PROVE seat'[s] = seat[s]
    BY <1>1, <2>1, CommitBookingSeat
  <2>2. ASSUME NEW r \in PayRequests, CommitPayment(r) PROVE seat'[s] = seat[s]
    BY <1>1, <2>2, CommitPaymentSeat
  <2>3. QED
    BY <1>1, <2>1, <2>2, OnlyCommitsChangeSeats
<1>2. IInv /\ [Next]_vars => [\A s \in Seats : seat[s].isPaid => seat'[s] = seat[s]]_vars
  BY <1>1
<1>3. QED
  BY <1>2, InductiveInv, PTL DEF Spec, PaidSeatIsFinal

(* While a hold lasts, no step changes the seat but the commit of a        *)
(* payment, which keeps the hold.                                          *)
THEOREM HoldStays == Spec => HoldIsRespected
<1> DEFINE Lasts(s) == seat[s].reservedUntil # Null /\ now < seat[s].reservedUntil
           Kept(s) == \/ seat'[s] = seat[s]
                      \/ seat'[s].isPaid /\ seat'[s].reservedUntil = seat[s].reservedUntil
<1>1. ASSUME IInv, [Next]_vars, NEW s \in Seats, Lasts(s) PROVE Kept(s)
  <2>1. now \in Nat /\ seat[s].reservedUntil \in Nat /\ ~(seat[s].reservedUntil <= now)
    BY <1>1, MaxTimeAssumption DEF IInv, TypeInv, TypeOK, SeatRow
  <2>2. ASSUME NEW r \in BookRequests, CommitBooking(r) PROVE Kept(s)
    BY <1>1, <2>1, <2>2, CommitBookingSeat
  <2>3. ASSUME NEW r \in PayRequests, CommitPayment(r) PROVE Kept(s)
    BY <1>1, <2>3, CommitPaymentSeat
  <2>4. QED
    BY <1>1, <2>2, <2>3, OnlyCommitsChangeSeats
<1>2. IInv /\ [Next]_vars => [\A s \in Seats : Lasts(s) => Kept(s)]_vars
  BY <1>1
<1>3. QED
  BY <1>2, InductiveInv, PTL DEF Spec, HoldIsRespected

=============================================================================
