-------------------------- MODULE ConcertSaleProofs --------------------------
(***************************************************************************)
(* Proofs that the rows ConcertBooking commits fit together, and that it   *)
(* implements SeatSale and the sending side of EventFeed.                  *)
(***************************************************************************)
EXTENDS ConcertBookingProofs, FiniteSetTheorems

(* The bookings of a seat.                                                 *)
BookingsOf(s) == {b \in BookRequests : booking[b] # Null /\ booking[b].seat = s}

Done == {"publish", "expireToken"} \cup Terminal

(* What a request that books knows: it has committed nothing yet, or both  *)
(* rows; its hold is longer than the one of the row it read and ends no    *)
(* later than the booking it inserts expires.                              *)
BookKnows(r) ==
  /\ pc[r] \notin Done => booking[r] = Null /\ r \notin outbox
  /\ pc[r] = "publish" => booking[r] # Null /\ r \in outbox
  /\ pc[r] \in SeatReaders =>
       LET mine == txSeat[r]  row == seat[dto[r].seat] IN
       /\ mine.reservedUntil \in Nat /\ mine.reservedUntil <= now + HoldTime
       /\ mine.version = row.version /\ row.reservedUntil # Null =>
            row.reservedUntil < mine.reservedUntil
  /\ pc[r] = "commitBooking" =>
       /\ txBooking[r].price = Price[dto[r].seat] /\ ~txBooking[r].isPaid
       /\ txSeat[r].reservedUntil <= txBooking[r].expiresAt

BookingReaders ==
  {"updateBooking", "readPaidSeat", "updatePaidSeat", "usePoint", "commitPayment"}

(* What a request that pays knows: it has committed nothing yet, or all its *)
(* rows; the booking it has read is its user's and has not changed but for  *)
(* its payment; the balance it writes is the locked one less the price.     *)
PayKnows(r) ==
  /\ pc[r] \notin Done => payment[r] = Null
  /\ pc[r] = "publish" => payment[r] # Null /\ r \in outbox
  /\ pc[r] \in BookingReaders =>
       LET mine == txBooking[r]  row == booking[dto[r].booking] IN
       /\ row # Null /\ mine.isPaid
       /\ row.user = dto[r].user /\ mine.user = row.user
       /\ mine.seat = row.seat /\ mine.price = row.price /\ mine.expiresAt = row.expiresAt
  /\ pc[r] = "commitPayment" =>
       /\ pointLock[dto[r].user] = r
       /\ txBooking[r].price <= point[dto[r].user]
       /\ txPoint[r] = point[dto[r].user] - txBooking[r].price

(* What a charge knows: the balance it writes is the locked one plus the   *)
(* amount.                                                                 *)
ChargeKnows(r) ==
  pc[r] = "commitCharge" =>
    pointLock[dto[r].user] = r /\ txPoint[r] = point[dto[r].user] + dto[r].amount

RowsOK ==
  /\ \A b \in BookRequests : booking[b] # Null => booking[b].price = Price[booking[b].seat]
  /\ \A s \in Seats : IsFiniteSet(BookingsOf(s))
  /\ PaymentIsWhole
  /\ HoldIsBacked

SaleInv ==
  /\ RowsOK
  /\ \A r \in BookRequests : BookKnows(r)
  /\ \A r \in PayRequests : PayKnows(r)
  /\ \A r \in ChargeRequests : ChargeKnows(r)

Knows(r) ==
  /\ r \in BookRequests => BookKnows(r)
  /\ r \in PayRequests => PayKnows(r)
  /\ r \in ChargeRequests => ChargeKnows(r)


(* A step of r that commits nothing: the tables and the other requests are *)
(* as they were, and no lock of theirs is lost.                            *)
Frame(r) ==
  /\ now' = now /\ seat' = seat /\ booking' = booking /\ point' = point
  /\ payment' = payment /\ history' = history /\ outbox' = outbox
  /\ \A q \in Requests \ {r} :
       /\ pc'[q] = pc[q] /\ dto'[q] = dto[q]
       /\ txSeat'[q] = txSeat[q] /\ txBooking'[q] = txBooking[q] /\ txPoint'[q] = txPoint[q]
  /\ \A u \in Users : pointLock[u] \notin {r, Null} => pointLock'[u] = pointLock[u]

LEMMA AbortFrame ==
  ASSUME IInv, NEW r \in Requests, NEW outcome, Abort(r, outcome)
  PROVE  Frame(r)
<1>1. \A u \in Users : pointLock[u] \notin {r, Null} => pointLock'[u] = pointLock[u]
  BY DEF Abort, EndTransaction, UnlockedBy, IInv, TypeInv, TypeOK
<1>2. QED
  BY <1>1 DEF Frame, Abort, Goto, EndTransaction, tables, IInv, TypeInv, TypeOK

LEMMA BookFrame ==
  ASSUME IInv, NEW r \in BookRequests, StartBook(r) \/ BookStep(r), ~CommitBooking(r)
  PROVE  Frame(r)
<1>1. r \in Requests
  BY DEF Requests
<1>2. CASE Reject(r)
  BY <1>1, <1>2, AbortFrame DEF Reject
<1>3. CASE StartBook(r)
  BY <1>1, <1>3 DEF StartBook, Frame, Goto, tables, locks, tx, IInv, TypeInv, TypeOK
<1>4. CASE ValidateSchedule(r) /\ ~Reject(r)
  BY <1>1, <1>4 DEF ValidateSchedule, Frame, Goto, tables, locks, tx, IInv, TypeInv, TypeOK
<1>5. CASE ReadSeat(r) /\ ~Reject(r)
  BY <1>1, <1>5 DEF ReadSeat, Frame, Goto, tables, locks, tx, IInv, TypeInv, TypeOK
<1>6. CASE UpdateSeat(r) /\ ~Reject(r)
  BY <1>1, <1>6 DEF UpdateSeat, WriteSeat, Frame, Goto, tables, tx, IInv, TypeInv, TypeOK
<1>7. CASE SaveBooking(r)
  BY <1>1, <1>7 DEF SaveBooking, Frame, Goto, tables, locks, tx, IInv, TypeInv, TypeOK
<1>8. CASE PublishBooking(r)
  BY <1>1, <1>8 DEF PublishBooking, Frame, Goto, tables, locks, tx, IInv, TypeInv, TypeOK
<1>9. QED
  BY <1>2, <1>3, <1>4, <1>5, <1>6, <1>7, <1>8 DEF BookStep

LEMMA PayFrame ==
  ASSUME IInv, NEW r \in PayRequests, StartPay(r) \/ PayStep(r), ~CommitPayment(r)
  PROVE  Frame(r)
<1>1. r \in Requests
  BY DEF Requests
<1>2. CASE Reject(r)
  BY <1>1, <1>2, AbortFrame DEF Reject
<1>3. CASE StartPay(r)
  BY <1>1, <1>3 DEF StartPay, Frame, Goto, tables, locks, tx, IInv, TypeInv, TypeOK
<1>4. CASE ReadBooking(r) /\ ~Reject(r)
  BY <1>1, <1>4 DEF ReadBooking, Frame, Goto, tables, locks, tx, IInv, TypeInv, TypeOK
<1>5. CASE UpdateBooking(r) /\ ~Reject(r)
  BY <1>1, <1>5 DEF UpdateBooking, Frame, Goto, tables, tx, IInv, TypeInv, TypeOK
<1>6. CASE ReadPaidSeat(r) /\ ~Reject(r)
  BY <1>1, <1>6 DEF ReadPaidSeat, Frame, Goto, tables, locks, tx, IInv, TypeInv, TypeOK
<1>7. CASE UpdatePaidSeat(r) /\ ~Reject(r)
  BY <1>1, <1>7 DEF UpdatePaidSeat, WriteSeat, Frame, Goto, tables, tx, IInv, TypeInv, TypeOK
<1>8. CASE UsePoint(r) /\ ~Reject(r)
  BY <1>1, <1>8 DEF UsePoint, WritePoint, RowIsFree, Frame, Goto, tables, IInv, TypeInv, TypeOK
<1>9. CASE PublishPayment(r)
  BY <1>1, <1>9 DEF PublishPayment, Frame, Goto, tables, locks, tx, IInv, TypeInv, TypeOK
<1>10. CASE ExpireToken(r)
  BY <1>1, <1>10 DEF ExpireToken, Frame, Goto, tables, locks, tx, IInv, TypeInv, TypeOK
<1>11. QED
  BY <1>2, <1>3, <1>4, <1>5, <1>6, <1>7, <1>8, <1>9, <1>10 DEF PayStep

LEMMA ChargeFrame ==
  ASSUME IInv, NEW r \in ChargeRequests, StartCharge(r) \/ ChargePoint(r)
  PROVE  Frame(r)
<1>1. r \in Requests
  BY DEF Requests
<1>2. CASE Reject(r)
  BY <1>1, <1>2, AbortFrame DEF Reject
<1>3. CASE StartCharge(r)
  BY <1>1, <1>3 DEF StartCharge, Frame, Goto, tables, locks, tx, IInv, TypeInv, TypeOK
<1>4. CASE ChargePoint(r) /\ ~Reject(r)
  BY <1>1, <1>4 DEF ChargePoint, WritePoint, RowIsFree, Frame, Goto, tables, IInv, TypeInv, TypeOK
<1>5. QED
  BY <1>2, <1>3, <1>4

(* The rows fit together as long as no table changes.                      *)
LEMMA RowsKept ==
  ASSUME RowsOK, seat' = seat, booking' = booking, payment' = payment, history' = history,
         outbox' = outbox
  PROVE  RowsOK'
<1>1. \A s : BookingsOf(s)' = BookingsOf(s) /\ PaidFor(s)' = PaidFor(s)
  BY DEF BookingsOf, PaidFor
<1>2. PaymentIsWhole'
  BY <1>1 DEF RowsOK, PaymentIsWhole
<1>3. HoldIsBacked'
  BY <1>1 DEF RowsOK, HoldIsBacked, BookingsOf
<1>4. QED
  BY <1>1, <1>2, <1>3 DEF RowsOK

(* What a request knows stays true through the quiet steps of the others.  *)
LEMMA SaleFrame ==
  ASSUME IInv, SaleInv, NEW r \in Requests, Frame(r), Knows(r)'
  PROVE  SaleInv'
<1>1. RowsOK'
  BY RowsKept DEF SaleInv, Frame
<1>2. ASSUME NEW q \in Requests, q # r PROVE Knows(q)'
  <2>1. /\ pc'[q] = pc[q] /\ dto'[q] = dto[q] /\ txSeat'[q] = txSeat[q]
        /\ txBooking'[q] = txBooking[q] /\ txPoint'[q] = txPoint[q]
    BY <1>2 DEF Frame
  <2>2. CASE q \in BookRequests
    <3>1. BookKnows(q)'
      BY <2>1, <2>2 DEF SaleInv, BookKnows, Frame
    <3>2. QED
      BY <2>2, <3>1, RequestsAssumption DEF Knows
  <2>3. CASE q \in PayRequests
    <3>1. pc[q] = "commitPayment" => dto[q].user \in Users
      BY <2>3 DEF IInv, TypeInv, ControlOK, PayPC, PayDto
    <3>2. pc[q] = "commitPayment" => pointLock'[dto[q].user] = q
      BY <1>2, <2>3, <3>1, NullAssumption DEF SaleInv, PayKnows, Frame
    <3>3. PayKnows(q)'
      BY <2>1, <2>3, <3>2 DEF SaleInv, PayKnows, Frame
    <3>4. QED
      BY <2>3, <3>3, RequestsAssumption DEF Knows
  <2>4. CASE q \in ChargeRequests
    <3>1. pc[q] = "commitCharge" => dto[q].user \in Users
      BY <2>4 DEF IInv, TypeInv, ControlOK, ChargePC, ChargeDto
    <3>2. pc[q] = "commitCharge" => pointLock'[dto[q].user] = q
      BY <1>2, <2>4, <3>1, NullAssumption DEF SaleInv, ChargeKnows, Frame
    <3>3. ChargeKnows(q)'
      BY <2>1, <2>4, <3>2 DEF SaleInv, ChargeKnows, Frame
    <3>4. QED
      BY <2>4, <3>3, RequestsAssumption DEF Knows
  <2>5. QED
    BY <2>2, <2>3, <2>4 DEF Requests
<1>3. \A q \in Requests : Knows(q)'
  BY <1>2
<1>4. QED
  BY <1>1, <1>3 DEF SaleInv, Knows, Requests

-----------------------------------------------------------------------------
(* Each quiet step leaves its request with knowledge that is true.         *)

LEMMA AbortKnows ==
  ASSUME IInv, NEW r \in Requests, NEW outcome \in Terminal, Abort(r, outcome)
  PROVE  Knows(r)'
BY DEF Abort, Goto, IInv, TypeInv, TypeOK, Knows, BookKnows, PayKnows, ChargeKnows, Done,
       Terminal, SeatReaders, SeatWriters, BookingReaders

(* Steps that only move a request that books on, or end it.                *)
LEMMA BookMovesOn ==
  ASSUME IInv, SaleInv, NEW r \in BookRequests, Frame(r), pc[r] \notin SeatReaders,
         pc'[r] \notin SeatReaders, pc'[r] # "publish",
         pc[r] \in Done => pc'[r] \in Done
  PROVE  Knows(r)'
<1>1. BookKnows(r)'
  BY DEF SaleInv, BookKnows, Frame, SeatReaders, SeatWriters
<1>2. QED
  BY <1>1, RequestsAssumption DEF Knows

LEMMA ReadSeatKnows ==
  ASSUME IInv, SaleInv, NEW r \in BookRequests, ReadSeat(r), Frame(r)
  PROVE  Knows(r)'
<1>1. CASE Reject(r)
  BY <1>1, AbortKnows DEF Reject, Requests, Terminal
<1>2. CASE ~Reject(r)
  <2> DEFINE row == seat[dto[r].seat]
  <2>1. /\ r \in Requests /\ dto' = dto /\ pc[r] = "readSeat" /\ pc'[r] = "updateSeat"
        /\ txSeat'[r] = Booked(row) /\ CanBook(row)
    BY <1>2 DEF ReadSeat, Requests, Goto, IInv, TypeInv, TypeOK
  <2>2. row \in SeatRow /\ now \in Nat
    BY <2>1 DEF IInv, TypeInv, TypeOK, ControlOK, BookPC, BookDto
  <2>3. Booked(row).reservedUntil = now + HoldTime /\ HoldTime \in Nat \ {0}
    BY <2>2, BookedRow, CatalogueAssumption
  <2>4. row.reservedUntil # Null => row.reservedUntil \in Nat /\ row.reservedUntil < now + HoldTime
    BY <2>1, <2>2, <2>3 DEF CanBook, SeatRow
  <2>5. BookKnows(r)'
    BY <2>1, <2>2, <2>3, <2>4 DEF SaleInv, BookKnows, Frame, Done, Terminal
  <2>6. QED
    BY <2>5, RequestsAssumption DEF Knows
<1>3. QED
  BY <1>1, <1>2

LEMMA UpdateSeatKnows ==
  ASSUME IInv, SaleInv, NEW r \in BookRequests, UpdateSeat(r), Frame(r)
  PROVE  Knows(r)'
<1>1. CASE Reject(r)
  BY <1>1, AbortKnows DEF Reject, Requests, Terminal
<1>2. CASE ~Reject(r)
  <2>1. /\ dto' = dto /\ txSeat' = txSeat /\ pc[r] = "updateSeat" /\ pc'[r] = "saveBooking"
    BY <1>2 DEF UpdateSeat, WriteSeat, Requests, Goto, tx, IInv, TypeInv, TypeOK
  <2>2. BookKnows(r)'
    BY <2>1 DEF SaleInv, BookKnows, Frame, Done, Terminal, SeatReaders, SeatWriters
  <2>3. QED
    BY <2>2, RequestsAssumption DEF Knows
<1>3. QED
  BY <1>1, <1>2

(* ConcertBooking.create() reads the clock no earlier than book() did.     *)
LEMMA SaveBookingKnows ==
  ASSUME IInv, SaleInv, NEW r \in BookRequests, SaveBooking(r), Frame(r)
  PROVE  Knows(r)'
<1>1. /\ dto' = dto /\ txSeat' = txSeat /\ pc[r] = "saveBooking" /\ pc'[r] = "commitBooking"
      /\ txBooking'[r] = NewBooking(dto[r])
  BY DEF SaveBooking, Requests, Goto, IInv, TypeInv, TypeOK
<1>2. /\ NewBooking(dto[r]).price = Price[dto[r].seat] /\ ~NewBooking(dto[r]).isPaid
      /\ NewBooking(dto[r]).expiresAt = now + HoldTime
  BY DEF NewBooking
<1>3. BookKnows(r)'
  BY <1>1, <1>2 DEF SaleInv, BookKnows, Frame, Done, Terminal, SeatReaders, SeatWriters
<1>4. QED
  BY <1>3, RequestsAssumption DEF Knows

LEMMA QuietBook ==
  ASSUME IInv, SaleInv, NEW r \in BookRequests, StartBook(r) \/ BookStep(r), ~CommitBooking(r)
  PROVE  SaleInv'
<1>1. r \in Requests /\ Frame(r)
  BY BookFrame DEF Requests
<1>2. CASE Reject(r)
  BY <1>1, <1>2, AbortKnows, SaleFrame DEF Reject, Terminal
<1>3. CASE StartBook(r) \/ (ValidateSchedule(r) /\ ~Reject(r)) \/ PublishBooking(r)
  <2>1. /\ pc[r] \notin SeatReaders /\ pc'[r] \notin SeatReaders /\ pc'[r] # "publish"
        /\ pc[r] \in Done => pc'[r] \in Done
    BY <1>1, <1>3 DEF StartBook, ValidateSchedule, PublishBooking, Goto, IInv, TypeInv, TypeOK,
       SeatReaders, SeatWriters, Done, Terminal
  <2>2. QED
    BY <1>1, <2>1, BookMovesOn, SaleFrame
<1>4. CASE ReadSeat(r)
  BY <1>1, <1>4, ReadSeatKnows, SaleFrame
<1>5. CASE UpdateSeat(r)
  BY <1>1, <1>5, UpdateSeatKnows, SaleFrame
<1>6. CASE SaveBooking(r)
  BY <1>1, <1>6, SaveBookingKnows, SaleFrame
<1>7. QED
  BY <1>2, <1>3, <1>4, <1>5, <1>6 DEF BookStep

(* Steps of a payment that leave its booking alone.                        *)
LEMMA PayMovesOn ==
  ASSUME IInv, SaleInv, NEW r \in PayRequests, Frame(r),
         dto'[r] = dto[r] \/ pc'[r] \notin BookingReaders,
         pc'[r] \in BookingReaders => pc[r] \in BookingReaders /\ txBooking'[r] = txBooking[r],
         pc'[r] \notin {"commitPayment", "publish"},
         pc[r] \in Done => pc'[r] \in Done
  PROVE  Knows(r)'
<1>1. PayKnows(r)'
  BY DEF SaleInv, PayKnows, Frame
<1>2. QED
  BY <1>1, RequestsAssumption DEF Knows

LEMMA ReadBookingKnows ==
  ASSUME IInv, SaleInv, NEW r \in PayRequests, ReadBooking(r), Frame(r)
  PROVE  Knows(r)'
<1>1. CASE Reject(r)
  BY <1>1, AbortKnows DEF Reject, Requests, Terminal
<1>2. CASE ~Reject(r)
  <2> DEFINE row == booking[dto[r].booking]
  <2>1. /\ r \in Requests /\ dto' = dto /\ pc[r] = "readBooking" /\ pc'[r] = "updateBooking"
        /\ txBooking'[r] = Paid(row) /\ CanPayBooking(row, dto[r].user)
    BY <1>2 DEF ReadBooking, Requests, Goto, IInv, TypeInv, TypeOK
  <2>2. row \in BookingRow /\ row # Null /\ row.user = dto[r].user
    BY <2>1 DEF IInv, TypeInv, TypeOK, ControlOK, PayPC, PayDto, CanPayBooking
  <2>3. PayKnows(r)'
    BY <2>1, <2>2, PaidBookingRow DEF SaleInv, PayKnows, Frame, Done, Terminal
  <2>4. QED
    BY <2>3, RequestsAssumption DEF Knows
<1>3. QED
  BY <1>1, <1>2

(* The balance is read under the lock.                                     *)
LEMMA UsePointKnows ==
  ASSUME IInv, SaleInv, NEW r \in PayRequests, UsePoint(r), Frame(r)
  PROVE  Knows(r)'
<1>1. CASE Reject(r)
  BY <1>1, AbortKnows DEF Reject, Requests, Terminal
<1>2. CASE ~Reject(r)
  <2> DEFINE user == dto[r].user  price == txBooking[r].price
  <2>1. /\ r \in Requests /\ user \in Users
    BY DEF UsePoint, Requests, IInv, TypeInv, ControlOK, PayPC, PayDto
  <2>2. /\ dto' = dto /\ txBooking' = txBooking /\ pc[r] = "usePoint" /\ pc'[r] = "commitPayment"
        /\ pointLock'[user] = r /\ txPoint'[r] = point[user] - price /\ price <= point[user]
    BY <1>2, <2>1 DEF UsePoint, WritePoint, CanUse, Goto, IInv, TypeInv, TypeOK
  <2>3. PayKnows(r)'
    BY <2>2 DEF SaleInv, PayKnows, Frame, Done, Terminal, BookingReaders
  <2>4. QED
    BY <2>3, RequestsAssumption DEF Knows
<1>3. QED
  BY <1>1, <1>2

LEMMA QuietPay ==
  ASSUME IInv, SaleInv, NEW r \in PayRequests, StartPay(r) \/ PayStep(r), ~CommitPayment(r)
  PROVE  SaleInv'
<1>1. r \in Requests /\ Frame(r)
  BY PayFrame DEF Requests
<1>2. CASE Reject(r)
  BY <1>1, <1>2, AbortKnows, SaleFrame DEF Reject, Terminal
<1>3. CASE \/ StartPay(r) \/ (UpdateBooking(r) /\ ~Reject(r)) \/ (ReadPaidSeat(r) /\ ~Reject(r))
           \/ (UpdatePaidSeat(r) /\ ~Reject(r)) \/ PublishPayment(r) \/ ExpireToken(r)
  <2>1. /\ dto'[r] = dto[r] \/ pc'[r] \notin BookingReaders
        /\ pc'[r] \in BookingReaders => pc[r] \in BookingReaders /\ txBooking'[r] = txBooking[r]
        /\ pc'[r] \notin {"commitPayment", "publish"}
        /\ pc[r] \in Done => pc'[r] \in Done
    BY <1>1, <1>3 DEF StartPay, UpdateBooking, ReadPaidSeat, UpdatePaidSeat, WriteSeat,
       PublishPayment, ExpireToken, Goto, tx, IInv, TypeInv, TypeOK, BookingReaders, Done, Terminal
  <2>2. QED
    BY <1>1, <2>1, PayMovesOn, SaleFrame
<1>4. CASE ReadBooking(r)
  BY <1>1, <1>4, ReadBookingKnows, SaleFrame
<1>5. CASE UsePoint(r)
  BY <1>1, <1>5, UsePointKnows, SaleFrame
<1>6. QED
  BY <1>2, <1>3, <1>4, <1>5 DEF PayStep

LEMMA QuietCharge ==
  ASSUME IInv, SaleInv, NEW r \in ChargeRequests, StartCharge(r) \/ ChargePoint(r)
  PROVE  SaleInv'
<1>1. r \in Requests /\ Frame(r)
  BY ChargeFrame DEF Requests
<1>2. CASE Reject(r)
  BY <1>1, <1>2, AbortKnows, SaleFrame DEF Reject, Terminal
<1>3. CASE StartCharge(r)
  <2>1. pc'[r] # "commitCharge"
    BY <1>1, <1>3 DEF StartCharge, Goto, IInv, TypeInv, TypeOK
  <2>2. Knows(r)'
    BY <2>1, RequestsAssumption DEF Knows, ChargeKnows
  <2>3. QED
    BY <1>1, <2>2, SaleFrame
<1>4. CASE ChargePoint(r) /\ ~Reject(r)
  <2> DEFINE user == dto[r].user
  <2>1. user \in Users
    BY <1>4 DEF ChargePoint, IInv, TypeInv, ControlOK, ChargePC, ChargeDto
  <2>2. dto' = dto /\ pointLock'[user] = r /\ txPoint'[r] = point[user] + dto[r].amount
    BY <1>1, <1>4, <2>1 DEF ChargePoint, WritePoint, IInv, TypeInv, TypeOK
  <2>3. ChargeKnows(r)'
    BY <1>1, <2>2 DEF ChargeKnows, Frame
  <2>4. Knows(r)'
    BY <2>3, RequestsAssumption DEF Knows
  <2>5. QED
    BY <1>1, <2>4, SaleFrame
<1>5. QED
  BY <1>2, <1>3, <1>4

(* A hold that was within HoldTime of the clock stays so.                  *)
LEMMA TickSale ==
  ASSUME IInv, SaleInv, Tick
  PROVE  SaleInv'
<1>1. /\ now \in Nat /\ now' = now + 1 /\ seat' = seat /\ booking' = booking /\ point' = point
      /\ payment' = payment /\ history' = history /\ outbox' = outbox /\ pc' = pc /\ dto' = dto
      /\ txSeat' = txSeat /\ txBooking' = txBooking /\ txPoint' = txPoint /\ pointLock' = pointLock
  BY MaxTimeAssumption DEF Tick, tables, locks, tx, IInv, TypeInv, TypeOK
<1>2. RowsOK'
  BY <1>1, RowsKept DEF SaleInv
<1>3. ASSUME NEW r \in BookRequests PROVE BookKnows(r)'
  <2>1. HoldTime \in Nat
    BY CatalogueAssumption
  <2>2. txSeat[r].reservedUntil \in Nat /\ txSeat[r].reservedUntil <= now + HoldTime
          => txSeat[r].reservedUntil <= now' + HoldTime
    BY <1>1, <2>1
  <2>3. QED
    BY <1>1, <2>2 DEF SaleInv, BookKnows
<1>4. \A r \in PayRequests : PayKnows(r)'
  BY <1>1 DEF SaleInv, PayKnows
<1>5. \A r \in ChargeRequests : ChargeKnows(r)'
  BY <1>1 DEF SaleInv, ChargeKnows
<1>6. QED
  BY <1>2, <1>3, <1>4, <1>5 DEF SaleInv

-----------------------------------------------------------------------------
(* The three commits.                                                      *)

(* A commit on seat s0 makes what the others have read of it outdated.     *)
LEMMA OthersAreOutdated ==
  ASSUME IInv, NEW r \in SeatRequests, pc[r] \in SeatWriters,
         NEW q \in BookRequests, q # r, pc[q] \in SeatReaders, dto[q].seat = SeatOf(r),
         seat' = [seat EXCEPT ![SeatOf(r)] = NextVersion(txSeat[r])]
  PROVE  txSeat[q].version # seat'[dto[q].seat].version
<1>1. /\ SeatOf(r) \in Seats /\ txSeat[r] \in SeatRow
      /\ txSeat[r].version = seat[SeatOf(r)].version
  BY WriterKnowsSeat
<1>2. seat'[SeatOf(r)].version = seat[SeatOf(r)].version + 1 /\ seat[SeatOf(r)].version \in Nat
  BY <1>1, NextSeatRow DEF IInv, TypeInv, TypeOK, SeatRow
<1>3. SeatReadOK(q) /\ SeatOf(q) = dto[q].seat
  BY DEF IInv, SeatInv, SeatOf
<1>4. txSeat[q].version <= seat[SeatOf(r)].version /\ txSeat[q].version \in Nat
  BY <1>3 DEF SeatReadOK, IInv, TypeInv, ControlOK, SeatRow
<1>5. QED
  BY <1>2, <1>4

LEMMA CommitBookingFacts ==
  ASSUME IInv, SaleInv, NEW r \in BookRequests, CommitBooking(r)
  PROVE  LET s0 == dto[r].seat  row == txBooking[r]  mine == txSeat[r] IN
         /\ r \in Requests /\ r \in SeatRequests /\ pc[r] \in SeatWriters /\ SeatOf(r) = s0
         /\ s0 \in Seats /\ row \in BookingRow /\ row.seat = s0 /\ row.price = Price[s0]
         /\ ~row.isPaid /\ booking[r] = Null /\ row # Null
         /\ seat[s0] \in SeatRow /\ mine \in SeatRow
         /\ mine.version = seat[s0].version /\ ~seat[s0].isPaid /\ ~mine.isPaid
         /\ mine.reservedUntil \in Nat /\ mine.reservedUntil <= row.expiresAt
         /\ mine.reservedUntil <= now + HoldTime
         /\ seat[s0].reservedUntil # Null =>
              seat[s0].reservedUntil <= now /\ seat[s0].reservedUntil < mine.reservedUntil
         /\ seat' = [seat EXCEPT ![s0] = NextVersion(mine)]
         /\ booking' = [booking EXCEPT ![r] = row]
         /\ seat'[s0].version = seat[s0].version + 1 /\ seat'[s0].isPaid = FALSE
         /\ seat'[s0].reservedUntil = mine.reservedUntil
         /\ pc'[r] = "publish"
<1> DEFINE s0 == dto[r].seat
<1>1. /\ r \in Requests /\ r \in SeatRequests /\ pc[r] \in SeatWriters /\ SeatOf(r) = s0
      /\ pc[r] = "commitBooking" /\ pc[r] \in SeatReaders /\ pc[r] \notin Done
  BY DEF CommitBooking, SeatRequests, Requests, SeatWriters, SeatReaders, SeatOf, Done, Terminal
<1>2. /\ s0 \in Seats /\ txSeat[r] \in SeatRow /\ ~seat[s0].isPaid /\ SeatReadOK(r)
      /\ txSeat[r].version = seat[s0].version
  BY <1>1, WriterKnowsSeat
<1>3. txBooking[r] \in BookingRow /\ txBooking[r].seat = s0 /\ seat[s0] \in SeatRow
  BY <1>1, <1>2 DEF IInv, TypeInv, TypeOK, ControlOK
<1>4. BookKnows(r)
  BY DEF SaleInv
<1>5. /\ seat' = [seat EXCEPT ![s0] = NextVersion(txSeat[r])]
      /\ booking' = [booking EXCEPT ![r] = txBooking[r]] /\ pc'[r] = "publish"
  BY <1>1 DEF CommitBooking, Goto, IInv, TypeInv, TypeOK
<1>6. /\ seat'[s0].version = seat[s0].version + 1 /\ seat'[s0].isPaid = txSeat[r].isPaid
      /\ seat'[s0].reservedUntil = txSeat[r].reservedUntil
  BY <1>2, <1>5, NextSeatRow DEF IInv, TypeInv, TypeOK
<1>7. ~txSeat[r].isPaid /\ (seat[s0].reservedUntil # Null => seat[s0].reservedUntil <= now)
  BY <1>1, <1>2 DEF SeatReadOK
<1>8. txBooking[r] # Null
  BY <1>3, NullAssumption
<1>9. QED
  BY <1>1, <1>2, <1>3, <1>4, <1>5, <1>6, <1>7, <1>8 DEF BookKnows, SeatRow

LEMMA CommitBookingRows ==
  ASSUME IInv, SaleInv, NEW r \in BookRequests, CommitBooking(r)
  PROVE  RowsOK'
<1> DEFINE row == txBooking[r]  mine == txSeat[r]
<1>0. PICK s0 : s0 = dto[r].seat
  OBVIOUS
<1>1. /\ s0 \in Seats /\ row.seat = s0 /\ row.price = Price[s0]
      /\ ~row.isPaid /\ booking[r] = Null /\ row # Null
      /\ ~seat[s0].isPaid /\ mine.reservedUntil <= row.expiresAt
      /\ seat' = [seat EXCEPT ![s0] = NextVersion(mine)]
      /\ booking' = [booking EXCEPT ![r] = row]
      /\ seat'[s0].version = seat[s0].version + 1 /\ seat'[s0].isPaid = FALSE
      /\ seat'[s0].reservedUntil = mine.reservedUntil
  BY <1>0, CommitBookingFacts
<1>2. /\ payment' = payment /\ history' = history /\ outbox' = outbox \cup {r}
      /\ booking'[r] = row /\ \A b \in BookRequests \ {r} : booking'[b] = booking[b]
      /\ \A s \in Seats \ {s0} : seat'[s] = seat[s]
  BY <1>1 DEF CommitBooking, IInv, TypeInv, TypeOK
<1>3. \A s \in Seats : seat'[s].isPaid <=> seat[s].isPaid
  BY <1>1, <1>2
<1>4. \A s : PaidFor(s)' = PaidFor(s)
  BY <1>2 DEF PaidFor
<1>5. /\ BookingsOf(s0)' = BookingsOf(s0) \cup {r} /\ r \notin BookingsOf(s0)
      /\ \A s \in Seats \ {s0} : BookingsOf(s)' = BookingsOf(s)
  BY <1>1, <1>2 DEF BookingsOf
<1>6. RowsOK
  BY DEF SaleInv
<1>7. /\ \A s \in Seats : IsFiniteSet(BookingsOf(s)')
      /\ Cardinality(BookingsOf(s0)') = Cardinality(BookingsOf(s0)) + 1
      /\ Cardinality(BookingsOf(s0)) \in Nat
  <2>1. IsFiniteSet(BookingsOf(s0))
    BY <1>1, <1>6 DEF RowsOK
  <2>2. /\ IsFiniteSet(BookingsOf(s0) \cup {r})
        /\ Cardinality(BookingsOf(s0) \cup {r}) = Cardinality(BookingsOf(s0)) + 1
    BY <1>5, <2>1, FS_AddElement
  <2>3. Cardinality(BookingsOf(s0)) \in Nat
    BY <2>1, FS_CardinalityType
  <2>4. QED
    BY <1>5, <1>6, <2>2, <2>3 DEF RowsOK
<1>8. \A b \in BookRequests : booking'[b] # Null => booking'[b].price = Price[booking'[b].seat]
  BY <1>1, <1>2, <1>6 DEF RowsOK
<1>9. PaymentIsWhole'
  <2>1. PaymentIsWhole
    BY <1>6 DEF RowsOK
  <2>2. ASSUME NEW p \in PayRequests, payment[p] # Null
        PROVE  payment[p].booking \in BookRequests \ {r} /\ payment[p].seat \in Seats
    <3>1. payment[p] \in PaymentRow
      BY <2>2 DEF IInv, TypeInv, TypeOK
    <3>2. booking[payment[p].booking] # Null
      BY <2>1, <2>2 DEF PaymentIsWhole
    <3>3. QED
      BY <1>1, <3>1, <3>2 DEF PaymentRow
  <2>3. r \notin PayRequests
    BY RequestsAssumption
  <2>4. \A p \in PayRequests : payment'[p] # Null =>
          LET pay == payment'[p]  b == booking'[pay.booking] IN
          /\ b # Null /\ b.isPaid /\ seat'[pay.seat].isPaid
          /\ pay.user = b.user /\ pay.seat = b.seat /\ pay.price = Price[b.seat]
          /\ history'[p] = [user |-> pay.user, amount |-> pay.price, type |-> "USE"]
          /\ p \in outbox'
    BY <1>2, <1>3, <2>1, <2>2 DEF PaymentIsWhole
  <2>5. \A p \in PayRequests : payment'[p] = Null => history'[p] = Null /\ p \notin outbox'
    BY <1>2, <2>1, <2>3 DEF PaymentIsWhole
  <2>6. \A s \in Seats : seat'[s].isPaid => PaidFor(s)' # {}
    BY <1>3, <1>4, <2>1 DEF PaymentIsWhole
  <2>7. (\A b \in BookRequests : booking[b] # Null /\ booking[b].isPaid =>
           \E p \in PaidFor(booking[b].seat) : payment[p].booking = b)'
    BY <1>1, <1>2, <2>1 DEF PaymentIsWhole, PaidFor
  <2>8. QED
    BY <2>4, <2>5, <2>6, <2>7 DEF PaymentIsWhole
<1>10. HoldIsBacked'
  <2>1. ASSUME NEW s \in Seats
        PROVE  /\ seat'[s].reservedUntil # Null =>
                    \E b \in BookingsOf(s)' : seat'[s].reservedUntil <= booking'[b].expiresAt
               /\ seat'[s].version = Cardinality(BookingsOf(s)') + Cardinality(PaidFor(s)')
    <3>1. /\ seat[s].reservedUntil # Null =>
               \E b \in BookingsOf(s) : seat[s].reservedUntil <= booking[b].expiresAt
          /\ seat[s].version = Cardinality(BookingsOf(s)) + Cardinality(PaidFor(s))
      BY <1>6 DEF RowsOK, HoldIsBacked, BookingsOf
    <3>2. CASE s = s0
      <4>1. r \in BookingsOf(s)' /\ seat'[s].reservedUntil <= booking'[r].expiresAt
        BY <1>1, <1>2, <1>5, <3>2
      <4>2. PaidFor(s0) = {}
        BY <1>1 DEF PaidFor, IInv, SeatInv
      <4>3. Cardinality(PaidFor(s0)) = 0
        BY <4>2, FS_EmptySet
      <4>4. seat'[s].version = Cardinality(BookingsOf(s)') + Cardinality(PaidFor(s)')
        BY <1>1, <1>4, <1>7, <3>1, <3>2, <4>3
      <4>5. QED
        BY <4>1, <4>4
    <3>3. CASE s # s0
      <4>1. seat'[s] = seat[s] /\ BookingsOf(s)' = BookingsOf(s) /\ PaidFor(s)' = PaidFor(s)
        BY <1>2, <1>4, <1>5, <3>3
      <4>2. r \notin BookingsOf(s)
        BY <1>1 DEF BookingsOf
      <4>3. \A b \in BookingsOf(s) : booking'[b] = booking[b]
        BY <1>2, <4>2 DEF BookingsOf
      <4>4. QED
        BY <3>1, <4>1, <4>3
    <3>4. QED
      BY <3>2, <3>3
  <2>2. QED
    BY <2>1 DEF HoldIsBacked, BookingsOf
<1>11. QED
  BY <1>7, <1>8, <1>9, <1>10 DEF RowsOK

LEMMA CommitBookingSale ==
  ASSUME IInv, SaleInv, NEW r \in BookRequests, CommitBooking(r)
  PROVE  SaleInv'
<1> DEFINE s0 == dto[r].seat
<1>1. RowsOK'
  BY CommitBookingRows
<1>2. /\ r \in Requests /\ r \in SeatRequests /\ pc[r] \in SeatWriters /\ SeatOf(r) = s0
      /\ s0 \in Seats /\ booking[r] = Null /\ txBooking[r] # Null /\ pc'[r] = "publish"
      /\ seat' = [seat EXCEPT ![s0] = NextVersion(txSeat[r])]
      /\ booking' = [booking EXCEPT ![r] = txBooking[r]]
  BY CommitBookingFacts
<1>3. /\ now' = now /\ payment' = payment /\ point' = point /\ outbox' = outbox \cup {r}
      /\ booking'[r] = txBooking[r] /\ \A b \in BookRequests \ {r} : booking'[b] = booking[b]
      /\ \A s \in Seats \ {s0} : seat'[s] = seat[s]
      /\ \A q \in Requests \ {r} :
           /\ pc'[q] = pc[q] /\ dto'[q] = dto[q] /\ txSeat'[q] = txSeat[q]
           /\ txBooking'[q] = txBooking[q] /\ txPoint'[q] = txPoint[q]
  BY <1>2 DEF CommitBooking, EndTransaction, Goto, IInv, TypeInv, TypeOK
<1>4. \A u \in Users : pointLock[u] # r => pointLock'[u] = pointLock[u]
  BY DEF CommitBooking, EndTransaction, UnlockedBy, IInv, TypeInv, TypeOK
<1>5. ASSUME NEW q \in BookRequests, q # r PROVE BookKnows(q)'
  <2>1. /\ q \in Requests /\ pc'[q] = pc[q] /\ dto'[q] = dto[q] /\ txSeat'[q] = txSeat[q]
        /\ txBooking'[q] = txBooking[q] /\ booking'[q] = booking[q]
        /\ (q \in outbox' <=> q \in outbox)
    BY <1>3, <1>5 DEF Requests
  <2>2. pc[q] \in SeatReaders => dto[q].seat \in Seats
    BY DEF IInv, TypeInv, ControlOK, SeatReaders, SeatWriters, BookPC, BookDto, Terminal
  <2>3. pc[q] \in SeatReaders /\ dto[q].seat = s0 => txSeat[q].version # seat'[dto[q].seat].version
    BY <1>2, <1>5, OthersAreOutdated
  <2>4. pc[q] \in SeatReaders /\ dto[q].seat # s0 => seat'[dto[q].seat] = seat[dto[q].seat]
    BY <1>3, <2>2
  <2>5. QED
    BY <1>3, <2>1, <2>3, <2>4 DEF SaleInv, BookKnows
<1>6. BookKnows(r)'
  BY <1>2, <1>3 DEF BookKnows, Done, Terminal, SeatReaders, SeatWriters
<1>7. ASSUME NEW q \in PayRequests PROVE PayKnows(q)'
  <2>1. /\ q \in Requests /\ q # r
    BY RequestsAssumption DEF Requests
  <2>2. /\ pc'[q] = pc[q] /\ dto'[q] = dto[q] /\ txBooking'[q] = txBooking[q]
        /\ txPoint'[q] = txPoint[q] /\ (q \in outbox' <=> q \in outbox)
    BY <1>3, <2>1
  <2>3. pc[q] \in BookingReaders => booking'[dto[q].booking] = booking[dto[q].booking]
    <3>1. pc[q] \in BookingReaders =>
            dto[q].booking \in BookRequests /\ booking[dto[q].booking] # Null
      BY DEF SaleInv, PayKnows, IInv, TypeInv, ControlOK, PayPC, PayDto, BookingReaders
    <3>2. QED
      BY <1>2, <1>3, <3>1
  <2>4. pc[q] = "commitPayment" => pointLock'[dto[q].user] = q
    <3>1. pc[q] = "commitPayment" => dto[q].user \in Users
      BY DEF IInv, TypeInv, ControlOK, PayPC, PayDto
    <3>2. QED
      BY <1>4, <2>1, <3>1 DEF SaleInv, PayKnows
  <2>5. QED
    BY <1>3, <2>2, <2>3, <2>4 DEF SaleInv, PayKnows
<1>8. ASSUME NEW q \in ChargeRequests PROVE ChargeKnows(q)'
  <2>1. /\ q \in Requests /\ q # r
    BY RequestsAssumption DEF Requests
  <2>2. pc[q] = "commitCharge" => dto[q].user \in Users
    BY DEF IInv, TypeInv, ControlOK, ChargePC, ChargeDto
  <2>3. QED
    BY <1>3, <1>4, <2>1, <2>2 DEF SaleInv, ChargeKnows
<1>9. QED
  BY <1>1, <1>5, <1>6, <1>7, <1>8 DEF SaleInv

(* What the commit of payment r does to booking b0, seat s0 and user u0.   *)
PaymentCommits(r, b0, u0, s0) ==
  /\ r \in Requests /\ r \in SeatRequests /\ pc[r] \in SeatWriters /\ SeatOf(r) = s0
  /\ b0 \in BookRequests /\ u0 \in Users /\ s0 \in Seats
  /\ booking[b0] \in BookingRow /\ booking[b0] # Null
  /\ booking[b0].user = u0 /\ booking[b0].seat = s0
  /\ booking[b0].price = Price[s0] /\ txBooking[r].price = Price[s0]
  /\ Price[s0] \in Nat /\ Price[s0] > 0
  /\ booking' = [booking EXCEPT ![b0] = NextVersion(txBooking[r])]
  /\ booking'[b0] # Null /\ booking'[b0].isPaid /\ booking'[b0].user = u0
  /\ booking'[b0].seat = s0 /\ booking'[b0].price = booking[b0].price
  /\ booking'[b0].expiresAt = booking[b0].expiresAt
  /\ seat' = [seat EXCEPT ![s0] = NextVersion(txSeat[r])]
  /\ seat[s0] \in SeatRow /\ ~seat[s0].isPaid /\ seat[s0].reservedUntil # Null
  /\ seat'[s0].version = seat[s0].version + 1 /\ seat'[s0].isPaid
  /\ seat'[s0].reservedUntil = seat[s0].reservedUntil
  /\ payment[r] = Null /\ payment'[r] = NewPayment(dto[r], txBooking[r]) /\ payment'[r] # Null
  /\ payment'[r].user = u0 /\ payment'[r].booking = b0 /\ payment'[r].seat = s0
  /\ payment'[r].price = Price[s0]
  /\ history'[r] = [user |-> u0, amount |-> Price[s0], type |-> "USE"]
  /\ pointLock[u0] = r /\ Price[s0] <= point[u0]
  /\ point' = [point EXCEPT ![u0] = point[u0] - Price[s0]]
  /\ pc'[r] = "publish"

LEMMA CommitPaymentFacts ==
  ASSUME IInv, SaleInv, NEW r \in PayRequests, CommitPayment(r)
  PROVE  PaymentCommits(r, dto[r].booking, dto[r].user, txBooking[r].seat)
<1> DEFINE b0 == dto[r].booking  u0 == dto[r].user  s0 == txBooking[r].seat
           row == booking[b0]  mine == txBooking[r]
<1>1. /\ r \in Requests /\ r \in SeatRequests /\ pc[r] \in SeatWriters /\ SeatOf(r) = s0
      /\ pc[r] = "commitPayment" /\ pc[r] \in SeatReaders /\ pc[r] \notin Done
      /\ pc[r] \in BookingReaders
  BY RequestsAssumption DEF CommitPayment, SeatRequests, Requests, SeatWriters, SeatReaders,
     SeatOf, Done, Terminal, BookingReaders
<1>2. /\ s0 \in Seats /\ txSeat[r] \in SeatRow /\ ~seat[s0].isPaid /\ SeatReadOK(r)
      /\ txSeat[r].version = seat[s0].version
  BY <1>1, WriterKnowsSeat
<1>3. /\ mine \in BookingRow /\ mine.price > 0 /\ dto[r] \in PayDto
      /\ b0 \in BookRequests /\ u0 \in Users /\ seat[s0] \in SeatRow
  BY <1>1, <1>2 DEF IInv, TypeInv, TypeOK, ControlOK, PayPC, PayDto
<1>4. PayKnows(r)
  BY DEF SaleInv
<1>5. /\ row \in BookingRow /\ row # Null /\ mine.isPaid /\ row.user = u0 /\ mine.user = u0
      /\ row.seat = s0 /\ mine.price = row.price /\ mine.expiresAt = row.expiresAt
      /\ payment[r] = Null /\ pointLock[u0] = r
      /\ mine.price <= point[u0] /\ txPoint[r] = point[u0] - mine.price
  BY <1>1, <1>3, <1>4 DEF PayKnows, IInv, TypeInv, TypeOK
<1>6. row.price = Price[s0] /\ Price[s0] \in Nat
  BY <1>2, <1>3, <1>5, CatalogueAssumption DEF SaleInv, RowsOK
<1>7. /\ booking' = [booking EXCEPT ![b0] = NextVersion(mine)]
      /\ seat' = [seat EXCEPT ![s0] = NextVersion(txSeat[r])]
      /\ point' = [point EXCEPT ![u0] = txPoint[r]]
      /\ payment'[r] = NewPayment(dto[r], mine) /\ history'[r] = NewHistory(u0, mine.price, "USE")
      /\ pc'[r] = "publish"
  BY <1>1 DEF CommitPayment, Goto, IInv, TypeInv, TypeOK
<1>8. booking'[b0] = NextVersion(mine) /\ seat'[s0] = NextVersion(txSeat[r])
  BY <1>2, <1>3, <1>7 DEF IInv, TypeInv, TypeOK
<1>9. /\ booking'[b0] # Null /\ booking'[b0].isPaid /\ booking'[b0].user = u0
      /\ booking'[b0].seat = s0 /\ booking'[b0].price = row.price
      /\ booking'[b0].expiresAt = row.expiresAt
  BY <1>3, <1>5, <1>8, NextBookingRow, NullAssumption
<1>10. txSeat[r].isPaid /\ txSeat[r].reservedUntil # Null
       /\ txSeat[r].reservedUntil = seat[s0].reservedUntil
  BY <1>1, <1>2 DEF SeatReadOK
<1>11. /\ seat'[s0].version = seat[s0].version + 1 /\ seat'[s0].isPaid
       /\ seat'[s0].reservedUntil = seat[s0].reservedUntil
  BY <1>2, <1>8, <1>10, NextSeatRow
<1>12. NewPayment(dto[r], mine) \in PaymentRow
  BY <1>2, <1>3 DEF NewPayment, PaymentRow, BookingRow
<1>13. /\ payment'[r] # Null
       /\ payment'[r].user = u0 /\ payment'[r].booking = b0 /\ payment'[r].seat = s0
       /\ payment'[r].price = mine.price
  <2>1. payment'[r] # Null
    BY <1>7, <1>12, NullAssumption
  <2>2. QED
    BY <1>7, <2>1 DEF NewPayment
<1>14. history'[r] = [user |-> u0, amount |-> Price[s0], type |-> "USE"]
  BY <1>5, <1>6, <1>7 DEF NewHistory
<1>15. QED
  BY <1>1, <1>2, <1>3, <1>5, <1>6, <1>7, <1>9, <1>10, <1>11, <1>13, <1>14 DEF PaymentCommits

LEMMA CommitPaymentRows ==
  ASSUME IInv, SaleInv, NEW r \in PayRequests, CommitPayment(r)
  PROVE  RowsOK'
<1>0. PICK b0, u0, s0 : b0 = dto[r].booking /\ u0 = dto[r].user /\ s0 = txBooking[r].seat
  OBVIOUS
<1>1. /\ b0 \in BookRequests /\ s0 \in Seats
      /\ booking[b0] # Null /\ booking[b0].user = u0 /\ booking[b0].seat = s0
      /\ booking[b0].price = Price[s0]
      /\ booking' = [booking EXCEPT ![b0] = NextVersion(txBooking[r])]
      /\ booking'[b0] # Null /\ booking'[b0].isPaid /\ booking'[b0].user = u0
      /\ booking'[b0].seat = s0 /\ booking'[b0].price = booking[b0].price
      /\ booking'[b0].expiresAt = booking[b0].expiresAt
      /\ seat' = [seat EXCEPT ![s0] = NextVersion(txSeat[r])]
      /\ ~seat[s0].isPaid /\ seat'[s0].version = seat[s0].version + 1 /\ seat'[s0].isPaid
      /\ seat'[s0].reservedUntil = seat[s0].reservedUntil
      /\ payment[r] = Null /\ payment'[r] # Null
      /\ payment'[r].user = u0 /\ payment'[r].booking = b0 /\ payment'[r].seat = s0
      /\ payment'[r].price = Price[s0]
      /\ history'[r] = [user |-> u0, amount |-> Price[s0], type |-> "USE"]
  <2>1. PaymentCommits(r, b0, u0, s0)
    BY <1>0, CommitPaymentFacts
  <2>2. QED
    BY <2>1 DEF PaymentCommits
<1>2. /\ outbox' = outbox \cup {r}
      /\ \A b \in BookRequests \ {b0} : booking'[b] = booking[b]
      /\ \A s \in Seats \ {s0} : seat'[s] = seat[s]
      /\ \A p \in PayRequests \ {r} : payment'[p] = payment[p] /\ history'[p] = history[p]
  BY <1>1 DEF CommitPayment, IInv, TypeInv, TypeOK
<1>3. RowsOK /\ PaymentIsWhole
  BY DEF SaleInv, RowsOK
<1>4. \A b \in BookRequests :
        /\ booking'[b] # Null <=> booking[b] # Null
        /\ booking[b] # Null => /\ booking'[b].seat = booking[b].seat
                                /\ booking'[b].user = booking[b].user
                                /\ booking'[b].price = booking[b].price
                                /\ booking'[b].expiresAt = booking[b].expiresAt
                                /\ booking[b].isPaid => booking'[b].isPaid
  BY <1>1, <1>2
<1>5. \A s : BookingsOf(s)' = BookingsOf(s)
  BY <1>4 DEF BookingsOf
<1>6. PaidFor(s0) = {}
  BY <1>1 DEF PaidFor, IInv, SeatInv
<1>7. PaidFor(s0)' = {r} /\ \A s \in Seats \ {s0} : PaidFor(s)' = PaidFor(s)
  BY <1>1, <1>2, <1>6 DEF PaidFor
<1>8. \A b \in BookRequests : booking'[b] # Null => booking'[b].price = Price[booking'[b].seat]
  BY <1>3, <1>4 DEF RowsOK
<1>9. PaymentIsWhole'
  <2>1. ASSUME NEW p \in PayRequests, payment'[p] # Null
        PROVE  LET pay == payment'[p]  b == booking'[pay.booking] IN
               /\ b # Null /\ b.isPaid /\ seat'[pay.seat].isPaid
               /\ pay.user = b.user /\ pay.seat = b.seat /\ pay.price = Price[b.seat]
               /\ history'[p] = [user |-> pay.user, amount |-> pay.price, type |-> "USE"]
               /\ p \in outbox'
    <3>1. CASE p = r
      BY <1>1, <1>2, <3>1
    <3>2. CASE p # r
      <4>1. payment'[p] = payment[p] /\ history'[p] = history[p] /\ payment[p] # Null
        BY <1>2, <2>1, <3>2
      <4>2. payment[p].booking \in BookRequests /\ payment[p].seat \in Seats
        BY <4>1 DEF IInv, TypeInv, TypeOK, PaymentRow
      <4>3. seat[payment[p].seat].isPaid
        BY <1>3, <4>1 DEF PaymentIsWhole
      <4>4. seat'[payment[p].seat].isPaid
        BY <1>1, <1>2, <4>2, <4>3
      <4>5. QED
        BY <1>2, <1>3, <1>4, <4>1, <4>2, <4>4 DEF PaymentIsWhole
    <3>3. QED
      BY <3>1, <3>2
  <2>2. \A p \in PayRequests : payment'[p] = Null => history'[p] = Null /\ p \notin outbox'
    BY <1>1, <1>2, <1>3 DEF PaymentIsWhole
  <2>3. ASSUME NEW s \in Seats, seat'[s].isPaid PROVE PaidFor(s)' # {}
    BY <1>2, <1>3, <1>7, <2>3 DEF PaymentIsWhole
  <2>4. ASSUME NEW b \in BookRequests, booking'[b] # Null, booking'[b].isPaid
        PROVE  \E p \in PayRequests :
                 /\ payment'[p] # Null /\ payment'[p].seat = booking'[b].seat
                 /\ payment'[p].booking = b
    <3>1. CASE b = b0
      BY <1>1, <3>1
    <3>2. CASE b # b0
      <4>1. booking'[b] = booking[b]
        BY <1>2, <3>2
      <4>2. PICK p \in PayRequests :
              payment[p] # Null /\ payment[p].seat = booking[b].seat /\ payment[p].booking = b
        BY <1>3, <2>4, <4>1 DEF PaymentIsWhole, PaidFor
      <4>3. p # r
        BY <1>1, <4>2
      <4>4. QED
        BY <1>2, <4>1, <4>2, <4>3
    <3>3. QED
      BY <3>1, <3>2
  <2>5. (\A b \in BookRequests : booking[b] # Null /\ booking[b].isPaid =>
           \E p \in PaidFor(booking[b].seat) : payment[p].booking = b)'
    BY <2>4 DEF PaidFor
  <2>6. QED
    BY <2>1, <2>2, <2>3, <2>5 DEF PaymentIsWhole
<1>10. HoldIsBacked'
  <2>1. ASSUME NEW s \in Seats
        PROVE  /\ seat'[s].reservedUntil # Null =>
                    \E b \in BookingsOf(s)' : seat'[s].reservedUntil <= booking'[b].expiresAt
               /\ seat'[s].version = Cardinality(BookingsOf(s)') + Cardinality(PaidFor(s)')
    <3>1. /\ seat[s].reservedUntil # Null =>
               \E b \in BookingsOf(s) : seat[s].reservedUntil <= booking[b].expiresAt
          /\ seat[s].version = Cardinality(BookingsOf(s)) + Cardinality(PaidFor(s))
      BY <1>3 DEF RowsOK, HoldIsBacked, BookingsOf
    <3>2. seat'[s].reservedUntil = seat[s].reservedUntil
      BY <1>1, <1>2
    <3>3. \A b \in BookingsOf(s) : booking'[b].expiresAt = booking[b].expiresAt
      BY <1>4 DEF BookingsOf
    <3>4. seat'[s].version = Cardinality(BookingsOf(s)') + Cardinality(PaidFor(s)')
      <4>1. CASE s = s0
        <5>1. Cardinality(PaidFor(s)) = 0 /\ Cardinality(PaidFor(s)') = 1
          BY <1>6, <1>7, <4>1, FS_EmptySet, FS_Singleton
        <5>2. Cardinality(BookingsOf(s)) \in Nat
          BY <1>3, FS_CardinalityType DEF RowsOK
        <5>3. QED
          BY <1>1, <1>5, <3>1, <4>1, <5>1, <5>2
      <4>2. CASE s # s0
        BY <1>2, <1>5, <1>7, <3>1, <4>2
      <4>3. QED
        BY <4>1, <4>2
    <3>5. QED
      BY <1>5, <3>1, <3>2, <3>3, <3>4
  <2>2. QED
    BY <2>1 DEF HoldIsBacked, BookingsOf
<1>11. \A s \in Seats : IsFiniteSet(BookingsOf(s)')
  BY <1>3, <1>5 DEF RowsOK
<1>12. QED
  BY <1>8, <1>9, <1>10, <1>11 DEF RowsOK

LEMMA CommitPaymentSale ==
  ASSUME IInv, SaleInv, NEW r \in PayRequests, CommitPayment(r)
  PROVE  SaleInv'
<1>0. PICK b0, u0, s0 : b0 = dto[r].booking /\ u0 = dto[r].user /\ s0 = txBooking[r].seat
  OBVIOUS
<1>1. RowsOK'
  BY CommitPaymentRows
<1>2. /\ r \in Requests /\ r \in SeatRequests /\ pc[r] \in SeatWriters /\ SeatOf(r) = s0
      /\ b0 \in BookRequests /\ s0 \in Seats /\ u0 \in Users
      /\ booking[b0] # Null /\ booking[b0].user = u0 /\ booking[b0].seat = s0
      /\ booking' = [booking EXCEPT ![b0] = NextVersion(txBooking[r])]
      /\ booking'[b0] # Null /\ booking'[b0].user = u0
      /\ booking'[b0].seat = s0 /\ booking'[b0].price = booking[b0].price
      /\ booking'[b0].expiresAt = booking[b0].expiresAt
      /\ seat' = [seat EXCEPT ![s0] = NextVersion(txSeat[r])]
      /\ payment'[r] # Null /\ pointLock[u0] = r /\ pc'[r] = "publish"
  <2>1. PaymentCommits(r, b0, u0, s0)
    BY <1>0, CommitPaymentFacts
  <2>2. QED
    BY <2>1 DEF PaymentCommits
<1>3. /\ now' = now /\ outbox' = outbox \cup {r}
      /\ \A b \in BookRequests \ {b0} : booking'[b] = booking[b]
      /\ \A s \in Seats \ {s0} : seat'[s] = seat[s]
      /\ \A u \in Users \ {u0} : point'[u] = point[u]
      /\ \A p \in PayRequests \ {r} : payment'[p] = payment[p]
      /\ \A q \in Requests \ {r} :
           /\ pc'[q] = pc[q] /\ dto'[q] = dto[q] /\ txSeat'[q] = txSeat[q]
           /\ txBooking'[q] = txBooking[q] /\ txPoint'[q] = txPoint[q]
  BY <1>0, <1>2 DEF CommitPayment, EndTransaction, Goto, IInv, TypeInv, TypeOK
<1>4. \A u \in Users : pointLock[u] # r => pointLock'[u] = pointLock[u]
  BY DEF CommitPayment, EndTransaction, UnlockedBy, IInv, TypeInv, TypeOK
<1>5. \A b \in BookRequests :
        /\ booking'[b] # Null <=> booking[b] # Null
        /\ booking[b] # Null => /\ booking'[b].seat = booking[b].seat
                                /\ booking'[b].user = booking[b].user
                                /\ booking'[b].price = booking[b].price
                                /\ booking'[b].expiresAt = booking[b].expiresAt
  BY <1>2, <1>3
<1>6. ASSUME NEW q \in BookRequests PROVE BookKnows(q)'
  <2>1. q \in Requests /\ q # r
    BY RequestsAssumption DEF Requests
  <2>2. /\ pc'[q] = pc[q] /\ dto'[q] = dto[q] /\ txSeat'[q] = txSeat[q]
        /\ txBooking'[q] = txBooking[q] /\ (q \in outbox' <=> q \in outbox)
        /\ (booking'[q] # Null <=> booking[q] # Null)
    BY <1>3, <1>5, <2>1
  <2>3. pc[q] \in SeatReaders => dto[q].seat \in Seats
    BY DEF IInv, TypeInv, ControlOK, SeatReaders, SeatWriters, BookPC, BookDto, Terminal
  <2>4. pc[q] \in SeatReaders /\ dto[q].seat = s0 => txSeat[q].version # seat'[dto[q].seat].version
    BY <1>2, <2>1, OthersAreOutdated
  <2>5. pc[q] \in SeatReaders /\ dto[q].seat # s0 => seat'[dto[q].seat] = seat[dto[q].seat]
    BY <1>3, <2>3
  <2>6. QED
    BY <1>3, <2>2, <2>4, <2>5 DEF SaleInv, BookKnows
<1>7. ASSUME NEW q \in PayRequests, q # r PROVE PayKnows(q)'
  <2>1. /\ q \in Requests /\ pc'[q] = pc[q] /\ dto'[q] = dto[q] /\ txBooking'[q] = txBooking[q]
        /\ txPoint'[q] = txPoint[q] /\ (q \in outbox' <=> q \in outbox) /\ payment'[q] = payment[q]
    BY <1>3, <1>7 DEF Requests
  <2>2. PayKnows(q)
    BY DEF SaleInv
  <2>3. pc[q] \in BookingReaders => dto[q].booking \in BookRequests
    BY DEF IInv, TypeInv, ControlOK, PayPC, PayDto, BookingReaders
  <2>4. pc[q] = "commitPayment" =>
          pointLock'[dto[q].user] = q /\ point'[dto[q].user] = point[dto[q].user]
    <3>1. pc[q] = "commitPayment" => dto[q].user \in Users /\ pointLock[dto[q].user] = q
      BY <2>2 DEF PayKnows, IInv, TypeInv, ControlOK, PayPC, PayDto
    <3>2. QED
      BY <1>2, <1>3, <1>4, <1>7, <3>1
  <2>5. pc[q] \in BookingReaders =>
          LET mine == txBooking[q]  row == booking'[dto[q].booking] IN
          /\ row # Null /\ mine.isPaid
          /\ row.user = dto[q].user /\ mine.user = row.user
          /\ mine.seat = row.seat /\ mine.price = row.price /\ mine.expiresAt = row.expiresAt
    BY <1>5, <2>2, <2>3 DEF PayKnows
  <2>6. QED
    BY <2>1, <2>2, <2>4, <2>5 DEF PayKnows
<1>8. PayKnows(r)'
  BY <1>2, <1>3 DEF PayKnows, Done, Terminal, BookingReaders
<1>9. ASSUME NEW q \in ChargeRequests PROVE ChargeKnows(q)'
  <2>1. q \in Requests /\ q # r
    BY RequestsAssumption DEF Requests
  <2>2. pc[q] = "commitCharge" => dto[q].user \in Users /\ pointLock[dto[q].user] = q
    BY DEF SaleInv, ChargeKnows, IInv, TypeInv, ControlOK, ChargePC, ChargeDto
  <2>3. QED
    BY <1>2, <1>3, <1>4, <2>1, <2>2 DEF SaleInv, ChargeKnows
<1>10. QED
  BY <1>1, <1>6, <1>7, <1>8, <1>9 DEF SaleInv

LEMMA CommitChargeFacts ==
  ASSUME IInv, SaleInv, NEW r \in ChargeRequests, CommitCharge(r)
  PROVE  /\ r \in Requests /\ dto[r].user \in Users /\ dto[r].amount \in Int /\ dto[r].amount > 0
         /\ pointLock[dto[r].user] = r
         /\ point' = [point EXCEPT ![dto[r].user] = point[dto[r].user] + dto[r].amount]
         /\ point[dto[r].user] + dto[r].amount \in 0 .. MaxPoint
         /\ pc'[r] = "answered"
         /\ now' = now /\ seat' = seat /\ booking' = booking /\ payment' = payment
         /\ outbox' = outbox /\ \A p \in PayRequests : history'[p] = history[p]
<1>1. r \in Requests /\ pc[r] = "commitCharge" /\ pc[r] \in ChargePC
  BY DEF CommitCharge, Requests, ChargePC
<1>2. /\ dto[r].user \in Users /\ dto[r].amount \in Int /\ dto[r].amount > 0
      /\ txPoint[r] \in 0 .. MaxPoint
  BY <1>1, PointAssumption DEF IInv, TypeInv, ControlOK, ChargeDto
<1>3. /\ pointLock[dto[r].user] = r /\ txPoint[r] = point[dto[r].user] + dto[r].amount
  BY <1>1 DEF SaleInv, ChargeKnows
<1>4. \A p \in PayRequests : history'[p] = history[p]
  BY RequestsAssumption DEF CommitCharge, IInv, TypeInv, TypeOK
<1>5. QED
  BY <1>1, <1>2, <1>3, <1>4 DEF CommitCharge, Goto, IInv, TypeInv, TypeOK

LEMMA CommitChargeSale ==
  ASSUME IInv, SaleInv, NEW r \in ChargeRequests, CommitCharge(r)
  PROVE  SaleInv'
<1> DEFINE u0 == dto[r].user
<1>1. /\ r \in Requests /\ u0 \in Users /\ pointLock[u0] = r /\ pc'[r] = "answered"
      /\ now' = now /\ seat' = seat /\ booking' = booking /\ payment' = payment
      /\ outbox' = outbox /\ \A p \in PayRequests : history'[p] = history[p]
      /\ point' = [point EXCEPT ![u0] = point[u0] + dto[r].amount]
  BY CommitChargeFacts
<1>2. /\ \A u \in Users \ {u0} : point'[u] = point[u]
      /\ \A u \in Users : pointLock[u] # r => pointLock'[u] = pointLock[u]
      /\ \A q \in Requests \ {r} :
           /\ pc'[q] = pc[q] /\ dto'[q] = dto[q] /\ txSeat'[q] = txSeat[q]
           /\ txBooking'[q] = txBooking[q] /\ txPoint'[q] = txPoint[q]
  BY <1>1 DEF CommitCharge, EndTransaction, UnlockedBy, Goto, IInv, TypeInv, TypeOK
<1>3. RowsOK'
  <2>1. \A s : BookingsOf(s)' = BookingsOf(s) /\ PaidFor(s)' = PaidFor(s)
    BY <1>1 DEF BookingsOf, PaidFor
  <2>2. PaymentIsWhole'
    BY <1>1, <2>1 DEF SaleInv, RowsOK, PaymentIsWhole
  <2>3. HoldIsBacked'
    BY <1>1, <2>1 DEF SaleInv, RowsOK, HoldIsBacked, BookingsOf
  <2>4. QED
    BY <1>1, <2>1, <2>2, <2>3 DEF SaleInv, RowsOK
<1>4. ASSUME NEW q \in BookRequests PROVE BookKnows(q)'
  BY <1>1, <1>2, RequestsAssumption DEF SaleInv, BookKnows, Requests
<1>5. ASSUME NEW q \in PayRequests PROVE PayKnows(q)'
  <2>1. q \in Requests /\ q # r
    BY RequestsAssumption DEF Requests
  <2>2. pc[q] = "commitPayment" => dto[q].user \in Users /\ pointLock[dto[q].user] = q
    BY DEF SaleInv, PayKnows, IInv, TypeInv, ControlOK, PayPC, PayDto
  <2>3. pc[q] = "commitPayment" =>
          pointLock'[dto[q].user] = q /\ point'[dto[q].user] = point[dto[q].user]
    BY <1>1, <1>2, <2>1, <2>2
  <2>4. QED
    BY <1>1, <1>2, <2>1, <2>3 DEF SaleInv, PayKnows
<1>6. ASSUME NEW q \in ChargeRequests PROVE ChargeKnows(q)'
  <2>1. CASE q = r
    BY <1>1, <2>1 DEF ChargeKnows
  <2>2. CASE q # r
    <3>1. pc[q] = "commitCharge" => dto[q].user \in Users /\ pointLock[dto[q].user] = q
      BY DEF SaleInv, ChargeKnows, IInv, TypeInv, ControlOK, ChargePC, ChargeDto
    <3>2. QED
      BY <1>1, <1>2, <2>2, <3>1 DEF SaleInv, ChargeKnows, Requests
  <2>3. QED
    BY <2>1, <2>2
<1>7. QED
  BY <1>3, <1>4, <1>5, <1>6 DEF SaleInv

-----------------------------------------------------------------------------
(* The theorems.                                                           *)

LEMMA InitSale == Init => SaleInv
<1> SUFFICES ASSUME Init PROVE SaleInv
  OBVIOUS
<1>1. \A s : BookingsOf(s) = {} /\ PaidFor(s) = {}
  BY DEF Init, BookingsOf, PaidFor
<1>2. IsFiniteSet({}) /\ Cardinality({}) = 0
  BY FS_EmptySet
<1>3. PaymentIsWhole
  BY DEF Init, PaymentIsWhole
<1>4. HoldIsBacked
  <2>1. ASSUME NEW s \in Seats
        PROVE  /\ seat[s].reservedUntil = Null
               /\ seat[s].version = Cardinality(BookingsOf(s)) + Cardinality(PaidFor(s))
    <3>1. Cardinality(BookingsOf(s)) = 0 /\ Cardinality(PaidFor(s)) = 0
      BY <1>1, <1>2
    <3>2. seat[s].reservedUntil = Null /\ seat[s].version = 0
      BY DEF Init
    <3>3. QED
      BY <3>1, <3>2
  <2>2. QED
    BY <2>1 DEF HoldIsBacked, BookingsOf
<1>5. RowsOK
  BY <1>1, <1>2, <1>3, <1>4 DEF RowsOK, Init
<1>6. QED
  BY <1>5 DEF Init, SaleInv, BookKnows, PayKnows, ChargeKnows, Requests, SeatReaders, SeatWriters,
     BookingReaders

LEMMA NextSale == IInv /\ SaleInv /\ [Next]_vars => SaleInv'
<1> SUFFICES ASSUME IInv, SaleInv, [Next]_vars PROVE SaleInv'
  OBVIOUS
<1>1. ASSUME NEW r \in BookRequests, StartBook(r) \/ BookStep(r) PROVE SaleInv'
  BY <1>1, QuietBook, CommitBookingSale
<1>2. ASSUME NEW r \in PayRequests, StartPay(r) \/ PayStep(r) PROVE SaleInv'
  BY <1>2, QuietPay, CommitPaymentSale
<1>3. ASSUME NEW r \in ChargeRequests, StartCharge(r) \/ ChargeStep(r) PROVE SaleInv'
  BY <1>3, QuietCharge, CommitChargeSale DEF ChargeStep
<1>4. ASSUME NEW r \in Requests, Fail(r) PROVE SaleInv'
  BY <1>4, AbortFrame, AbortKnows, SaleFrame DEF Fail, Terminal
<1>5. CASE Tick
  BY <1>5, TickSale
<1>6. CASE UNCHANGED vars
  <2>1. RowsOK'
    BY <1>6, RowsKept DEF vars, tables, SaleInv
  <2>2. QED
    BY <1>6, <2>1 DEF vars, tables, locks, tx, SaleInv, BookKnows, PayKnows, ChargeKnows
<1>7. QED
  BY <1>1, <1>2, <1>3, <1>4, <1>5, <1>6 DEF Next

LEMMA SaleInductive == Spec => [](IInv /\ SaleInv)
<1>1. Spec => []IInv
  BY InductiveInv
<1>2. Init => SaleInv
  BY InitSale
<1>3. IInv /\ SaleInv /\ [Next]_vars => SaleInv'
  BY NextSale
<1>4. QED
  BY <1>1, <1>2, <1>3, PTL DEF Spec

(* Whatever interleaves and fails, the rows of a payment in five tables are *)
(* committed together or not at all, and agree with one another.           *)
THEOREM PaymentRowsAgree == Spec => []PaymentIsWhole
<1>1. IInv /\ SaleInv => PaymentIsWhole
  BY DEF SaleInv, RowsOK
<1>2. QED
  BY <1>1, SaleInductive, PTL

(* Every hold has its booking, which expires no earlier, and no commit on a *)
(* seat is lost: the version counts them.                                  *)
THEOREM HoldHasBooking == Spec => []HoldIsBacked
<1>1. IInv /\ SaleInv => HoldIsBacked
  BY DEF SaleInv, RowsOK
<1>2. QED
  BY <1>1, SaleInductive, PTL

-----------------------------------------------------------------------------
(* Refinement.                                                             *)

(* The steps that the mappings below can see.                              *)
LEMMA VisibleSteps ==
  ASSUME IInv, [Next]_vars
  PROVE  \/ \E r \in BookRequests : CommitBooking(r) \/ PublishBooking(r)
         \/ \E r \in PayRequests : CommitPayment(r) \/ PublishPayment(r)
         \/ \E r \in ChargeRequests : CommitCharge(r)
         \/ Tick
         \/ UNCHANGED <<now, seat, booking, point, payment, outbox, published>>
<1> DEFINE Hidden == UNCHANGED <<now, seat, booking, point, payment, outbox, published>>
<1>1. ASSUME NEW r \in BookRequests, StartBook(r) \/ BookStep(r)
      PROVE  CommitBooking(r) \/ PublishBooking(r) \/ Hidden
  BY <1>1 DEF BookStep, StartBook, ValidateSchedule, ReadSeat, UpdateSeat, WriteSeat,
     SaveBooking, Reject, Abort, tables, calls
<1>2. ASSUME NEW r \in PayRequests, StartPay(r) \/ PayStep(r)
      PROVE  CommitPayment(r) \/ PublishPayment(r) \/ Hidden
  BY <1>2 DEF PayStep, StartPay, ReadBooking, UpdateBooking, ReadPaidSeat, UpdatePaidSeat,
     WriteSeat, UsePoint, WritePoint, ExpireToken, Reject, Abort, tables, calls
<1>3. ASSUME NEW r \in ChargeRequests, StartCharge(r) \/ ChargeStep(r)
      PROVE  CommitCharge(r) \/ Hidden
  BY <1>3 DEF ChargeStep, StartCharge, ChargePoint, WritePoint, Reject, Abort, tables, calls
<1>4. ASSUME NEW r \in Requests, Fail(r) PROVE Hidden
  BY <1>4 DEF Fail, Abort, tables, calls
<1>5. CASE UNCHANGED vars
  BY <1>5 DEF vars, tables, calls
<1>6. QED
  BY <1>1, <1>2, <1>3, <1>4, <1>5 DEF Next

(* Who has bought a seat, and the holds, as the mapping to SeatSale has them. *)
Buyers(s) == {payment[p].user : p \in PaidFor(s)}

LEMMA UnsoldHasNoBuyers ==
  ASSUME IInv, NEW s \in Seats, ~seat[s].isPaid
  PROVE  PaidFor(s) = {} /\ Buyers(s) = {}
BY DEF PaidFor, Buyers, IInv, SeatInv

LEMMA CommitBookingHolds ==
  ASSUME IInv, SaleInv, NEW r \in BookRequests, CommitBooking(r)
  PROVE  \E s \in Seats : \E until \in 0 .. now + HoldTime : Sale!Hold(s, until)
<1> DEFINE hold == [s \in Seats |-> seat[s].reservedUntil]
           buyers == [s \in Seats |-> {payment[p].user : p \in PaidFor(s)}]
<1>0. PICK s0, until : s0 = dto[r].seat /\ until = txSeat[r].reservedUntil
  OBVIOUS
<1>1. /\ s0 \in Seats /\ ~seat[s0].isPaid /\ until \in Nat /\ until <= now + HoldTime
      /\ seat[s0].reservedUntil # Null =>
           seat[s0].reservedUntil <= now /\ seat[s0].reservedUntil < until
      /\ seat' = [seat EXCEPT ![s0] = NextVersion(txSeat[r])]
      /\ seat'[s0].reservedUntil = until
  BY <1>0, CommitBookingFacts
<1>2. /\ now' = now /\ payment' = payment /\ point' = point
      /\ \A s \in Seats \ {s0} : seat'[s] = seat[s]
  BY <1>1 DEF CommitBooking, IInv, TypeInv, TypeOK
<1>3. buyers[s0] = {} /\ buyers' = buyers
  <2>1. buyers[s0] = {}
    BY <1>1, UnsoldHasNoBuyers DEF Buyers
  <2>2. \A s : PaidFor(s)' = PaidFor(s)
    BY <1>2 DEF PaidFor
  <2>3. QED
    BY <1>2, <2>1, <2>2
<1>4. hold[s0] = seat[s0].reservedUntil /\ hold' = [hold EXCEPT ![s0] = until]
  <2>1. \A s \in Seats :
          seat'[s].reservedUntil = IF s = s0 THEN until ELSE seat[s].reservedUntil
    BY <1>1, <1>2
  <2>2. hold' = [s \in Seats |-> IF s = s0 THEN until ELSE seat[s].reservedUntil]
    BY <2>1
  <2>3. QED
    BY <1>1, <2>2
<1>5. until \in 0 .. now + HoldTime
  BY <1>1, CatalogueAssumption, MaxTimeAssumption DEF IInv, TypeInv, TypeOK
<1>6. Sale!Hold(s0, until)
  BY <1>1, <1>2, <1>3, <1>4 DEF Sale!Hold
<1>7. QED
  BY <1>1, <1>5, <1>6

LEMMA CommitPaymentSells ==
  ASSUME IInv, SaleInv, NEW r \in PayRequests, CommitPayment(r)
  PROVE  \E s \in Seats, u \in Users : Sale!Sell(s, u)
<1> DEFINE hold == [s \in Seats |-> seat[s].reservedUntil]
           buyers == [s \in Seats |-> {payment[p].user : p \in PaidFor(s)}]
<1>0. PICK b0, u0, s0 : b0 = dto[r].booking /\ u0 = dto[r].user /\ s0 = txBooking[r].seat
  OBVIOUS
<1>1. PaymentCommits(r, b0, u0, s0)
  BY <1>0, CommitPaymentFacts
<1>2. /\ s0 \in Seats /\ u0 \in Users /\ ~seat[s0].isPaid /\ seat[s0].reservedUntil # Null
      /\ seat'[s0].reservedUntil = seat[s0].reservedUntil
      /\ Price[s0] \in Nat /\ 0 < Price[s0] /\ Price[s0] <= point[u0]
      /\ point' = [point EXCEPT ![u0] = point[u0] - Price[s0]]
      /\ payment[r] = Null /\ payment'[r] # Null /\ payment'[r].user = u0 /\ payment'[r].seat = s0
      /\ seat' = [seat EXCEPT ![s0] = NextVersion(txSeat[r])]
  BY <1>1 DEF PaymentCommits
<1>3. /\ now' = now /\ \A s \in Seats \ {s0} : seat'[s] = seat[s]
      /\ \A p \in PayRequests \ {r} : payment'[p] = payment[p]
  BY <1>2 DEF CommitPayment, IInv, TypeInv, TypeOK
<1>4. PaidFor(s0) = {} /\ buyers[s0] = {}
  BY <1>2, UnsoldHasNoBuyers DEF Buyers
<1>5. PaidFor(s0)' = {r} /\ \A s \in Seats \ {s0} : PaidFor(s)' = PaidFor(s)
  BY <1>2, <1>3, <1>4 DEF PaidFor
<1>6. buyers' = [buyers EXCEPT ![s0] = {u0}]
  <2>1. Buyers(s0)' = {u0}
    BY <1>2, <1>5 DEF Buyers
  <2>2. \A s \in Seats \ {s0} : Buyers(s)' = Buyers(s)
    BY <1>2, <1>3, <1>5 DEF Buyers, PaidFor
  <2>3. QED
    BY <2>1, <2>2 DEF Buyers
<1>7. hold' = hold /\ hold[s0] # Null
  BY <1>2, <1>3
<1>8. Sale!Sell(s0, u0)
  BY <1>2, <1>3, <1>4, <1>6, <1>7 DEF Sale!Sell
<1>9. QED
  BY <1>2, <1>8

LEMMA CommitChargeCharges ==
  ASSUME IInv, SaleInv, NEW r \in ChargeRequests, CommitCharge(r)
  PROVE  \E u \in Users : \E amount \in 1 .. MaxPoint : Sale!Charge(u, amount)
<1>0. PICK u0, amount : u0 = dto[r].user /\ amount = dto[r].amount
  OBVIOUS
<1>1. /\ u0 \in Users /\ amount \in Int /\ amount > 0 /\ point[u0] + amount \in 0 .. MaxPoint
      /\ point' = [point EXCEPT ![u0] = point[u0] + amount]
      /\ now' = now /\ seat' = seat /\ payment' = payment
  BY <1>0, CommitChargeFacts
<1>2. amount \in 1 .. MaxPoint /\ point[u0] + amount <= MaxPoint
  BY <1>1, PointAssumption DEF IInv, TypeInv, TypeOK
<1>3. \A s : PaidFor(s)' = PaidFor(s)
  BY <1>1 DEF PaidFor
<1>4. Sale!Charge(u0, amount)
  BY <1>1, <1>2, <1>3 DEF Sale!Charge
<1>5. QED
  BY <1>1, <1>2, <1>4

LEMMA HiddenFromSale ==
  ASSUME seat' = seat, payment' = payment
  PROVE  /\ [s \in Seats |-> seat[s].reservedUntil]' = [s \in Seats |-> seat[s].reservedUntil]
         /\ [s \in Seats |-> {payment[p].user : p \in PaidFor(s)}]' =
              [s \in Seats |-> {payment[p].user : p \in PaidFor(s)}]
<1>1. \A s : PaidFor(s)' = PaidFor(s)
  BY DEF PaidFor
<1>2. QED
  BY <1>1

LEMMA SaleStep == IInv /\ SaleInv /\ [Next]_vars => [Sale!Next]_(Sale!saleVars)
<1> SUFFICES ASSUME IInv, SaleInv, [Next]_vars PROVE [Sale!Next]_(Sale!saleVars)
  OBVIOUS
<1>1. ASSUME NEW r \in BookRequests, CommitBooking(r) PROVE Sale!Next
  BY <1>1, CommitBookingHolds DEF Sale!Next
<1>2. ASSUME NEW r \in PayRequests, CommitPayment(r) PROVE Sale!Next
  BY <1>2, CommitPaymentSells DEF Sale!Next
<1>3. ASSUME NEW r \in ChargeRequests, CommitCharge(r) PROVE Sale!Next
  BY <1>3, CommitChargeCharges DEF Sale!Next
<1>4. CASE Tick
  <2>1. now' = now + 1 /\ seat' = seat /\ payment' = payment /\ point' = point
    BY <1>4 DEF Tick, tables
  <2>2. Sale!TimePasses
    BY <2>1, HiddenFromSale DEF Sale!TimePasses
  <2>3. QED
    BY <2>2 DEF Sale!Next
<1>5. CASE now' = now /\ seat' = seat /\ payment' = payment /\ point' = point
  BY <1>5, HiddenFromSale DEF Sale!saleVars
<1>6. ASSUME NEW r \in BookRequests, PublishBooking(r)
      PROVE  now' = now /\ seat' = seat /\ payment' = payment /\ point' = point
  BY <1>6 DEF PublishBooking, tables
<1>7. ASSUME NEW r \in PayRequests, PublishPayment(r)
      PROVE  now' = now /\ seat' = seat /\ payment' = payment /\ point' = point
  BY <1>7 DEF PublishPayment, tables
<1>8. QED
  BY <1>1, <1>2, <1>3, <1>4, <1>5, <1>6, <1>7, VisibleSteps

(* The use cases implement the atomic service: each commit is one of its   *)
(* steps, and nothing else it can see ever happens.                        *)
THEOREM SeatSaleImplemented == Spec => ImplementsSeatSale
<1>1. Init => Sale!Init
  <2> SUFFICES ASSUME Init PROVE Sale!Init
    OBVIOUS
  <2>1. \A s : PaidFor(s) = {}
    BY DEF Init, PaidFor
  <2>2. QED
    BY <2>1 DEF Init, Sale!Init
<1>2. IInv /\ SaleInv /\ [Next]_vars => [Sale!Next]_(Sale!saleVars)
  BY SaleStep
<1>3. QED
  BY <1>1, <1>2, SaleInductive, PTL DEF Spec, ImplementsSeatSale, Sale!Spec

(* The events whose row and whose booking or payment are committed.        *)
Recorded == {r \in outbox : \/ r \in BookRequests /\ booking[r] # Null
                            \/ r \in PayRequests /\ payment[r] # Null}

LEMMA CommitBookingRecords ==
  ASSUME IInv, SaleInv, NEW r \in BookRequests, CommitBooking(r)
  PROVE  Feed!Next
<1>1. booking[r] = Null /\ booking'[r] # Null /\ booking' = [booking EXCEPT ![r] = txBooking[r]]
  <2>1. booking[r] = Null /\ txBooking[r] # Null /\ booking' = [booking EXCEPT ![r] = txBooking[r]]
    BY CommitBookingFacts
  <2>2. QED
    BY <2>1 DEF IInv, TypeInv, TypeOK
<1>2. /\ outbox' = outbox \cup {r} /\ payment' = payment /\ published' = published
      /\ r \notin PayRequests
  BY RequestsAssumption DEF CommitBooking, calls
<1>3. r \notin Recorded /\ Recorded' = Recorded \cup {r}
  BY <1>1, <1>2 DEF Recorded
<1>4. Feed!Record(r)
  BY <1>2, <1>3 DEF Feed!Record, Recorded
<1>5. QED
  BY <1>4 DEF Feed!Next

LEMMA CommitPaymentRecords ==
  ASSUME IInv, SaleInv, NEW r \in PayRequests, CommitPayment(r)
  PROVE  Feed!Next
<1>0. PICK b0, u0, s0 : b0 = dto[r].booking /\ u0 = dto[r].user /\ s0 = txBooking[r].seat
  OBVIOUS
<1>1. PaymentCommits(r, b0, u0, s0)
  BY <1>0, CommitPaymentFacts
<1>2. /\ payment[r] = Null /\ payment'[r] # Null
      /\ \A p \in PayRequests \ {r} : payment'[p] = payment[p]
      /\ \A b \in BookRequests : booking'[b] # Null <=> booking[b] # Null
  BY <1>1 DEF PaymentCommits, CommitPayment, IInv, TypeInv, TypeOK
<1>3. outbox' = outbox \cup {r} /\ published' = published /\ r \notin BookRequests
  BY RequestsAssumption DEF CommitPayment, calls
<1>4. r \notin Recorded /\ Recorded' = Recorded \cup {r}
  BY <1>2, <1>3 DEF Recorded
<1>5. Feed!Record(r)
  BY <1>3, <1>4 DEF Feed!Record, Recorded
<1>6. QED
  BY <1>5 DEF Feed!Next

LEMMA PublicationSends ==
  ASSUME IInv, SaleInv, NEW r \in BookRequests \cup PayRequests,
         r \in BookRequests => PublishBooking(r), r \in PayRequests => PublishPayment(r)
  PROVE  Feed!Next
<1>1. r \in Recorded
  BY DEF PublishBooking, PublishPayment, SaleInv, BookKnows, PayKnows, Recorded
<1>2. /\ outbox' = outbox /\ booking' = booking /\ payment' = payment
      /\ published' = published \cup {r}
  BY DEF PublishBooking, PublishPayment, tables
<1>3. Recorded' = Recorded
  BY <1>2 DEF Recorded
<1>4. Feed!Send(r)
  BY <1>1, <1>2, <1>3 DEF Feed!Send, Recorded
<1>5. QED
  BY <1>4 DEF Feed!Next

LEMMA FeedStep == IInv /\ SaleInv /\ [Next]_vars => [Feed!Next]_(Feed!feedVars)
<1> SUFFICES ASSUME IInv, SaleInv, [Next]_vars PROVE [Feed!Next]_(Feed!feedVars)
  OBVIOUS
<1>1. ASSUME NEW r \in BookRequests, CommitBooking(r) \/ PublishBooking(r) PROVE Feed!Next
  BY <1>1, CommitBookingRecords, PublicationSends, RequestsAssumption
<1>2. ASSUME NEW r \in PayRequests, CommitPayment(r) \/ PublishPayment(r) PROVE Feed!Next
  BY <1>2, CommitPaymentRecords, PublicationSends, RequestsAssumption
<1>3. CASE outbox' = outbox /\ booking' = booking /\ payment' = payment /\ published' = published
  <2>1. Recorded' = Recorded
    BY <1>3 DEF Recorded
  <2>2. QED
    BY <1>3, <2>1 DEF Feed!feedVars, Recorded
<1>4. ASSUME NEW r \in ChargeRequests, CommitCharge(r)
      PROVE  outbox' = outbox /\ booking' = booking /\ payment' = payment /\ published' = published
  BY <1>4 DEF CommitCharge, calls
<1>5. Tick => outbox' = outbox /\ booking' = booking /\ payment' = payment /\ published' = published
  BY DEF Tick, tables, calls
<1>6. QED
  BY <1>1, <1>2, <1>3, <1>4, <1>5, VisibleSteps

(* No use case announces an event whose booking or payment is not          *)
(* committed with its outbox row: what Outbox takes for granted.           *)
THEOREM EventFeedImplemented == Spec => ImplementsEventFeed
<1>1. Init => Feed!Init
  BY DEF Init, Feed!Init
<1>2. IInv /\ SaleInv /\ [Next]_vars => [Feed!Next]_(Feed!feedVars)
  BY FeedStep
<1>3. QED
  BY <1>1, <1>2, SaleInductive, PTL DEF Spec, ImplementsEventFeed, Feed!Spec

=============================================================================
