--------------------------- MODULE ConcertBooking ---------------------------
(***************************************************************************)
(* Reserving a seat, paying for it and charging points: what the use cases *)
(* BookConcertSeat, PayConcertBooking and ChargePoint do to PostgreSQL.    *)
(*                                                                         *)
(* Every HTTP request is a process, on whichever instance serves it.  Its  *)
(* steps are the awaits of the use case: between two of them the other     *)
(* requests, the clock and failures may act.  A transaction runs at READ   *)
(* COMMITTED: reads see committed rows, writes stay in the transaction     *)
(* until its commit, and a written row (or one read FOR UPDATE) is locked  *)
(* until the transaction ends.                                             *)
(*                                                                         *)
(* A row's generated key is abstracted to the request that inserted it: a  *)
(* request inserts at most one row in each table.                          *)
(***************************************************************************)
EXTENDS Integers, FiniteSets

CONSTANTS
  Users, Seats, Schedules,
  BookRequests, PayRequests, ChargeRequests, \* the requests, by use case
  Price, ScheduleOf,   \* of a seat
  Opens, Closes,       \* of a schedule: bookingStartAt, bookingEndAt
  HoldTime,            \* how long a seat is held: five minutes
  InitialPoint,        \* of a user
  MaxPoint,            \* the largest value of the int4 column points.amount
  ChargeAmounts,       \* what a client may ask to charge
  MaxTime,             \* bound of the clock
  Null

Requests == BookRequests \cup PayRequests \cup ChargeRequests

ASSUME RequestsAssumption ==
  /\ BookRequests \cap PayRequests = {}
  /\ BookRequests \cap ChargeRequests = {}
  /\ PayRequests \cap ChargeRequests = {}

ASSUME CatalogueAssumption ==
  /\ Price \in [Seats -> Nat]
  /\ ScheduleOf \in [Seats -> Schedules]
  /\ Opens \in [Schedules -> Nat]
  /\ Closes \in [Schedules -> Nat]
  /\ HoldTime \in Nat \ {0}

ASSUME PointAssumption ==
  /\ MaxPoint \in Nat
  /\ InitialPoint \in [Users -> 0 .. MaxPoint]
  /\ ChargeAmounts \subseteq Int

ASSUME MaxTimeAssumption == MaxTime \in Nat

SeatRow == [isPaid : BOOLEAN, reservedUntil : Nat \cup {Null}, version : Nat]

BookingRow == [user : Users, seat : Seats, schedule : Schedules, price : Nat,
               isPaid : BOOLEAN, expiresAt : Nat, version : Nat]

PaymentRow == [user : Users, booking : BookRequests, seat : Seats, price : Nat]

HistoryRow == [user : Users, amount : Nat \ {0}, type : {"CHARGE", "USE"}]

BookDto   == [user : Users, schedule : Schedules, seat : Seats]
PayDto    == [user : Users, booking : BookRequests]
ChargeDto == [user : Users, amount : ChargeAmounts]

ASSUME NullAssumption ==
  /\ Null \notin Nat
  /\ Null \notin Requests
  /\ Null \notin BookingRow \cup PaymentRow \cup HistoryRow \cup SeatRow
  /\ Null \notin BookDto \cup PayDto \cup ChargeDto

VARIABLES
  now,
  seat, booking, point, payment, history, \* the tables
  outbox,                             \* requests with a row in the outbox table
  seatLock, bookingLock, pointLock,   \* the request whose transaction locks a row
  pc, dto,                            \* of a request: its next step and its input
  txSeat, txBooking, txPoint,         \* of a request: the rows its domain objects hold
  published,                          \* requests whose event went to the event bus
  expireSent                          \* payments that asked to expire the user's token

tables == <<seat, booking, point, payment, history, outbox>>
locks  == <<seatLock, bookingLock, pointLock>>
tx     == <<txSeat, txBooking, txPoint>>
calls  == <<published, expireSent>>
vars   == <<now, tables, locks, pc, dto, tx, calls>>

Terminal == {"answered", "rejected", "failed"}

PC == {"idle",
       "validateSchedule", "readSeat", "updateSeat", "saveBooking", "commitBooking",
       "readBooking", "updateBooking", "readPaidSeat", "updatePaidSeat", "usePoint",
       "commitPayment",
       "chargePoint", "commitCharge",
       "publish", "expireToken"} \cup Terminal

TypeOK ==
  /\ now \in 0 .. MaxTime
  /\ seat \in [Seats -> SeatRow]
  /\ booking \in [BookRequests -> BookingRow \cup {Null}]
  /\ point \in [Users -> 0 .. MaxPoint]
  /\ payment \in [PayRequests -> PaymentRow \cup {Null}]
  /\ history \in [PayRequests \cup ChargeRequests -> HistoryRow \cup {Null}]
  /\ outbox \subseteq BookRequests \cup PayRequests
  /\ seatLock \in [Seats -> Requests \cup {Null}]
  /\ bookingLock \in [BookRequests -> Requests \cup {Null}]
  /\ pointLock \in [Users -> Requests \cup {Null}]
  /\ pc \in [Requests -> PC]
  /\ dto \in [Requests -> BookDto \cup PayDto \cup ChargeDto \cup {Null}]
  /\ txSeat \in [Requests -> SeatRow \cup {Null}]
  /\ txBooking \in [Requests -> BookingRow \cup {Null}]
  /\ txPoint \in [Requests -> (0 .. MaxPoint) \cup {Null}]
  /\ published \subseteq BookRequests \cup PayRequests
  /\ expireSent \subseteq PayRequests

Init ==
  /\ now = 0
  /\ seat = [s \in Seats |-> [isPaid |-> FALSE, reservedUntil |-> Null, version |-> 0]]
  /\ booking = [r \in BookRequests |-> Null]
  /\ point = InitialPoint
  /\ payment = [r \in PayRequests |-> Null]
  /\ history = [r \in PayRequests \cup ChargeRequests |-> Null]
  /\ outbox = {}
  /\ seatLock = [s \in Seats |-> Null]
  /\ bookingLock = [b \in BookRequests |-> Null]
  /\ pointLock = [u \in Users |-> Null]
  /\ pc = [r \in Requests |-> "idle"]
  /\ dto = [r \in Requests |-> Null]
  /\ txSeat = [r \in Requests |-> Null]
  /\ txBooking = [r \in Requests |-> Null]
  /\ txPoint = [r \in Requests |-> Null]
  /\ published = {}
  /\ expireSent = {}

-----------------------------------------------------------------------------
(* Transactions.                                                           *)

Goto(r, step) == pc' = [pc EXCEPT ![r] = step]

LeakedBy(lock, r) == lock \* mutant: the connection is never released

UnlockedBy(lock, r) ==
  [row \in DOMAIN lock |-> IF lock[row] = r THEN Null ELSE lock[row]]

(* The transaction ends: its locks are released and its objects dropped.   *)
EndTransaction(r) ==
  /\ seatLock' = UnlockedBy(seatLock, r)
  /\ bookingLock' = UnlockedBy(bookingLock, r)
  /\ pointLock' = UnlockedBy(pointLock, r)
  /\ txSeat' = [txSeat EXCEPT ![r] = Null]
  /\ txBooking' = [txBooking EXCEPT ![r] = Null]
  /\ txPoint' = [txPoint EXCEPT ![r] = Null]

(* The use case throws: the transaction, if one is open, is rolled back    *)
(* and the client gets the error.                                          *)
Abort(r, outcome) ==
  /\ Goto(r, outcome)
  /\ dto' = [dto EXCEPT ![r] = Null]
  /\ EndTransaction(r)
  /\ UNCHANGED <<now, tables, calls>>

PublishAnyway(r) == Abort(r, "publish") \* mutant: the error is caught before the publication

Reject(r) == Abort(r, "rejected")

(* UPDATE ... WHERE id AND version: it waits while another transaction     *)
(* holds the row, and affects no row once the version has moved on.        *)
AnyVersion(row, mine) == TRUE \* mutant: UPDATE ... WHERE id alone

VersionMatches(row, mine) == row.version = mine.version

SameVersion(row) == row \* mutant: the update does not count

NextVersion(row) == [row EXCEPT !.version = @ + 1]

-----------------------------------------------------------------------------
(* BookConcertSeat: POST /concerts/seats/:id/book.                         *)

(* The client names the schedule and the seat; nothing relates the two.    *)
StartBook(r) ==
  /\ pc[r] = "idle"
  /\ \E d \in BookDto : dto' = [dto EXCEPT ![r] = d]
  /\ Goto(r, "validateSchedule")
  /\ UNCHANGED <<now, tables, locks, tx, calls>>

IsBookable(schedule) == Opens[schedule] <= now /\ now <= Closes[schedule]

(* Before the transaction.                                                 *)
ValidateSchedule(r) ==
  /\ pc[r] = "validateSchedule"
  /\ \/ /\ IsBookable(dto[r].schedule)
        /\ Goto(r, "readSeat")
        /\ UNCHANGED <<now, tables, locks, dto, tx, calls>>
     \/ /\ ~IsBookable(dto[r].schedule)
        /\ Reject(r)

CanBookHeld(row) == ~row.isPaid \* mutant: reservedUntil is not looked at

CanBookSold(row) == \* mutant: isPaid is not looked at
  row.reservedUntil # Null => row.reservedUntil <= now

(* ConcertSeat.book() throws unless the seat is neither held nor sold.     *)
CanBook(row) ==
  /\ row.reservedUntil # Null => row.reservedUntil <= now
  /\ ~row.isPaid

Booked(row) == [row EXCEPT !.reservedUntil = now + HoldTime]

(* bookSeat() reads the seat and book() changes the domain object before   *)
(* the next await.                                                         *)
ReadSeat(r) ==
  LET row == seat[dto[r].seat] IN
  /\ pc[r] = "readSeat"
  /\ \/ /\ CanBook(row)
        /\ txSeat' = [txSeat EXCEPT ![r] = Booked(row)]
        /\ Goto(r, "updateSeat")
        /\ UNCHANGED <<now, tables, locks, dto, txBooking, txPoint, calls>>
     \/ /\ ~CanBook(row)
        /\ Reject(r)

WriteSeat(r, s, next) ==
  \/ /\ VersionMatches(seat[s], txSeat[r])
     /\ seatLock[s] = Null
     /\ seatLock' = [seatLock EXCEPT ![s] = r]
     /\ Goto(r, next)
     /\ UNCHANGED <<now, tables, bookingLock, pointLock, dto, tx, calls>>
  \/ /\ ~VersionMatches(seat[s], txSeat[r])
     /\ Reject(r)

UpdateSeat(r) ==
  /\ pc[r] = "updateSeat"
  /\ WriteSeat(r, dto[r].seat, "saveBooking")

(* ConcertBooking.create() takes its own reading of the clock.             *)
NewBooking(d) ==
  [user |-> d.user, seat |-> d.seat, schedule |-> d.schedule, price |-> Price[d.seat],
   isPaid |-> FALSE, expiresAt |-> now + HoldTime, version |-> 0]

SaveBooking(r) ==
  /\ pc[r] = "saveBooking"
  /\ txBooking' = [txBooking EXCEPT ![r] = NewBooking(dto[r])]
  /\ Goto(r, "commitBooking")
  /\ UNCHANGED <<now, tables, locks, dto, txSeat, txPoint, calls>>

(* The outbox row is inserted and the transaction commits.                 *)
CommitBooking(r) ==
  /\ pc[r] = "commitBooking"
  /\ seat' = [seat EXCEPT ![dto[r].seat] = NextVersion(txSeat[r])]
  /\ booking' = [booking EXCEPT ![r] = txBooking[r]]
  /\ outbox' = outbox \cup {r}
  /\ EndTransaction(r)
  /\ Goto(r, "publish")
  /\ UNCHANGED <<now, point, payment, history, dto, calls>>

-----------------------------------------------------------------------------
(* PayConcertBooking: POST /concerts/bookings/:id/pay.                     *)

StartPay(r) ==
  /\ pc[r] = "idle"
  /\ \E d \in PayDto : dto' = [dto EXCEPT ![r] = d]
  /\ Goto(r, "readBooking")
  /\ UNCHANGED <<now, tables, locks, tx, calls>>

Paid(row) == [row EXCEPT !.isPaid = TRUE] \* what pay() does to either object

CanPayForAnyone(row, user) == \* mutant: userId is not compared
  row # Null /\ ~row.isPaid /\ now <= row.expiresAt

(* The booking exists and ConcertBooking.pay() does not throw.             *)
CanPayBooking(row, user) ==
  /\ row # Null
  /\ row.user = user
  /\ ~row.isPaid
  /\ now <= row.expiresAt

ReadBooking(r) ==
  LET row == booking[dto[r].booking] IN
  /\ pc[r] = "readBooking"
  /\ \/ /\ CanPayBooking(row, dto[r].user)
        /\ txBooking' = [txBooking EXCEPT ![r] = Paid(row)]
        /\ Goto(r, "updateBooking")
        /\ UNCHANGED <<now, tables, locks, dto, txSeat, txPoint, calls>>
     \/ /\ ~CanPayBooking(row, dto[r].user)
        /\ Reject(r)

UpdateBooking(r) ==
  LET b == dto[r].booking IN
  /\ pc[r] = "updateBooking"
  /\ \/ /\ VersionMatches(booking[b], txBooking[r])
        /\ bookingLock[b] = Null
        /\ bookingLock' = [bookingLock EXCEPT ![b] = r]
        /\ Goto(r, "readPaidSeat")
        /\ UNCHANGED <<now, tables, seatLock, pointLock, dto, tx, calls>>
     \/ /\ ~VersionMatches(booking[b], txBooking[r])
        /\ Reject(r)

(* ConcertSeat.pay() throws unless the seat is held, by whichever booking. *)
CanPaySeat(row) ==
  /\ ~row.isPaid
  /\ row.reservedUntil # Null
  /\ now <= row.reservedUntil

LockPaidSeat(r) == \* mutant: SELECT ... FOR UPDATE outside of the transaction
  LET s == txBooking[r].seat IN
  /\ pc[r] = "readPaidSeat"
  /\ seatLock[s] = Null /\ CanPaySeat(seat[s])
  /\ seatLock' = [seatLock EXCEPT ![s] = r]
  /\ txSeat' = [txSeat EXCEPT ![r] = Paid(seat[s])]
  /\ Goto(r, "updatePaidSeat")
  /\ UNCHANGED <<now, tables, bookingLock, pointLock, dto, txBooking, txPoint, calls>>

ReadPaidSeat(r) ==
  LET row == seat[txBooking[r].seat] IN
  /\ pc[r] = "readPaidSeat"
  /\ \/ /\ CanPaySeat(row)
        /\ txSeat' = [txSeat EXCEPT ![r] = Paid(row)]
        /\ Goto(r, "updatePaidSeat")
        /\ UNCHANGED <<now, tables, locks, dto, txBooking, txPoint, calls>>
     \/ /\ ~CanPaySeat(row)
        /\ Reject(r)

UpdatePaidSeat(r) ==
  /\ pc[r] = "updatePaidSeat"
  /\ WriteSeat(r, txBooking[r].seat, "usePoint")

(* SELECT ... FOR UPDATE waits for the row and then reads its latest       *)
(* committed version; the domain object's new balance is written and the   *)
(* history row inserted under that lock.                                   *)
WritePoint(r, user, balance, next) ==
  /\ pointLock' = [pointLock EXCEPT ![user] = r]
  /\ txPoint' = [txPoint EXCEPT ![r] = balance]
  /\ Goto(r, next)
  /\ UNCHANGED <<now, tables, seatLock, bookingLock, dto, txSeat, txBooking, calls>>

Unlocked(lock, row) == TRUE \* mutant: no PESSIMISTIC_WRITE

RowIsFree(lock, row) == lock[row] = Null

CanOverdraw(balance, amount) == 0 < amount \* mutant: the balance is not checked

(* Point.use() throws on a price that is not positive or not covered.      *)
CanUse(balance, amount) == 0 < amount /\ amount <= balance

UsePoint(r) ==
  LET user == dto[r].user  price == txBooking[r].price IN
  /\ pc[r] = "usePoint"
  /\ RowIsFree(pointLock, user)
  /\ \/ /\ CanUse(point[user], price)
        /\ WritePoint(r, user, point[user] - price, "commitPayment")
     \/ /\ ~CanUse(point[user], price)
        /\ Reject(r)

NewPayment(d, b) == [user |-> d.user, booking |-> d.booking, seat |-> b.seat, price |-> b.price]

NewHistory(user, amount, type) == [user |-> user, amount |-> amount, type |-> type]

(* The payment and its outbox row are inserted and the transaction commits. *)
CommitPayment(r) ==
  LET user == dto[r].user  b == txBooking[r] IN
  /\ pc[r] = "commitPayment"
  /\ booking' = [booking EXCEPT ![dto[r].booking] = NextVersion(b)]
  /\ seat' = [seat EXCEPT ![b.seat] = NextVersion(txSeat[r])]
  /\ point' = [point EXCEPT ![user] = txPoint[r]]
  /\ history' = [history EXCEPT ![r] = NewHistory(user, b.price, "USE")]
  /\ payment' = [payment EXCEPT ![r] = NewPayment(dto[r], b)]
  /\ outbox' = outbox \cup {r}
  /\ EndTransaction(r)
  /\ Goto(r, "publish")
  /\ UNCHANGED <<now, dto, calls>>

-----------------------------------------------------------------------------
(* ChargePoint: POST /points/charge.                                       *)

StartCharge(r) ==
  /\ pc[r] = "idle"
  /\ \E d \in ChargeDto : dto' = [dto EXCEPT ![r] = d]
  /\ Goto(r, "chargePoint")
  /\ UNCHANGED <<now, tables, locks, tx, calls>>

CanOverflow(balance, amount) == 0 < amount \* mutant: the column is unbounded

(* Point.charge() throws on an amount that is not positive; PostgreSQL     *)
(* refuses a balance that points.amount cannot hold.                       *)
CanCharge(balance, amount) == 0 < amount /\ balance + amount <= MaxPoint

ChargePoint(r) ==
  LET user == dto[r].user  amount == dto[r].amount IN
  /\ pc[r] = "chargePoint"
  /\ RowIsFree(pointLock, user)
  /\ \/ /\ CanCharge(point[user], amount)
        /\ WritePoint(r, user, point[user] + amount, "commitCharge")
     \/ /\ ~CanCharge(point[user], amount)
        /\ Reject(r)

CommitCharge(r) ==
  LET user == dto[r].user IN
  /\ pc[r] = "commitCharge"
  /\ point' = [point EXCEPT ![user] = txPoint[r]]
  /\ history' = [history EXCEPT ![r] = NewHistory(user, dto[r].amount, "CHARGE")]
  /\ EndTransaction(r)
  /\ dto' = [dto EXCEPT ![r] = Null]
  /\ Goto(r, "answered")
  /\ UNCHANGED <<now, seat, booking, payment, outbox, calls>>

-----------------------------------------------------------------------------
(* After the commit.                                                       *)

PublishBooking(r) ==
  /\ pc[r] = "publish"
  /\ published' = published \cup {r}
  /\ dto' = [dto EXCEPT ![r] = Null]
  /\ Goto(r, "answered")
  /\ UNCHANGED <<now, tables, locks, tx, expireSent>>

PublishPayment(r) ==
  /\ pc[r] = "publish"
  /\ published' = published \cup {r}
  /\ Goto(r, "expireToken")
  /\ UNCHANGED <<now, tables, locks, dto, tx, expireSent>>

(* The call is made and not awaited: the answer does not depend on it.     *)
ExpireToken(r) ==
  /\ pc[r] = "expireToken"
  /\ expireSent' = expireSent \cup {r}
  /\ dto' = [dto EXCEPT ![r] = Null]
  /\ Goto(r, "answered")
  /\ UNCHANGED <<now, tables, locks, tx, published>>

(* The instance crashes, its connection is lost or a statement fails: the  *)
(* server rolls back what is not committed, and what is left after the     *)
(* commit is never done.                                                   *)
Fail(r) ==
  /\ pc[r] \notin {"idle"} \cup Terminal
  /\ Abort(r, "failed")

Tick ==
  /\ now < MaxTime
  /\ now' = now + 1
  /\ UNCHANGED <<tables, locks, pc, dto, tx, calls>>

BookStep(r) ==
  \/ ValidateSchedule(r) \/ ReadSeat(r) \/ UpdateSeat(r)
  \/ SaveBooking(r) \/ CommitBooking(r) \/ PublishBooking(r)

PayStep(r) ==
  \/ ReadBooking(r) \/ UpdateBooking(r) \/ ReadPaidSeat(r) \/ UpdatePaidSeat(r)
  \/ UsePoint(r) \/ CommitPayment(r) \/ PublishPayment(r) \/ ExpireToken(r)

ChargeStep(r) == ChargePoint(r) \/ CommitCharge(r)

Next ==
  \/ \E r \in BookRequests : StartBook(r) \/ BookStep(r)
  \/ \E r \in PayRequests : StartPay(r) \/ PayStep(r)
  \/ \E r \in ChargeRequests : StartCharge(r) \/ ChargeStep(r)
  \/ \E r \in Requests : Fail(r)
  \/ Tick

(* A request that has arrived keeps running unless it fails; clients owe   *)
(* nothing.                                                                *)
Fairness ==
  /\ \A r \in BookRequests : WF_vars(BookStep(r))
  /\ \A r \in PayRequests : WF_vars(PayStep(r))
  /\ \A r \in ChargeRequests : WF_vars(ChargeStep(r))

Spec == Init /\ [][Next]_vars

FairSpec == Spec /\ Fairness

-----------------------------------------------------------------------------
(* Properties.                                                             *)

PaidFor(s) == {p \in PayRequests : payment[p] # Null /\ payment[p].seat = s}

(* No seat is ever paid for twice, whichever users and bookings race for   *)
(* it: ConcertService.paySeat relies on the seat's version for this, the   *)
(* index unique_pending_booking constrains no row.                         *)
SoldOnce == \A s \in Seats : \A p, q \in PaidFor(s) : p = q

(* The rows a payment writes in five tables are there together or not at   *)
(* all, and agree: the user pays the price of the seat of the booking he   *)
(* made, and what is marked paid has been paid for.                        *)
PaymentIsWhole ==
  /\ \A p \in PayRequests : payment[p] # Null =>
       LET pay == payment[p]  b == booking[pay.booking] IN
       /\ b # Null /\ b.isPaid /\ seat[pay.seat].isPaid
       /\ pay.user = b.user /\ pay.seat = b.seat /\ pay.price = Price[b.seat]
       /\ history[p] = [user |-> pay.user, amount |-> pay.price, type |-> "USE"]
       /\ p \in outbox
  /\ \A p \in PayRequests : payment[p] = Null => history[p] = Null /\ p \notin outbox
  /\ \A s \in Seats : seat[s].isPaid => PaidFor(s) # {}
  /\ \A b \in BookRequests : booking[b] # Null /\ booking[b].isPaid =>
       \E p \in PaidFor(booking[b].seat) : payment[p].booking = b

(* A held seat has a booking that may still pay for it when the hold ends, *)
(* and the seat's version counts the commits on it: bookSeat and           *)
(* createBooking are one transaction and no update of the seat is lost.    *)
HoldIsBacked ==
  \A s \in Seats :
    LET bookings == {b \in BookRequests : booking[b] # Null /\ booking[b].seat = s} IN
    /\ seat[s].reservedUntil # Null =>
         \E b \in bookings : seat[s].reservedUntil <= booking[b].expiresAt
    /\ seat[s].version = Cardinality(bookings) + Cardinality(PaidFor(s))

(* The points of a user's history rows, one by one.                        *)
HistoryPoints(user, type) ==
  UNION {{r} \X (1 .. history[r].amount) :
           r \in {q \in PayRequests \cup ChargeRequests :
                   history[q] # Null /\ history[q].user = user /\ history[q].type = type}}

(* A user's balance is what he started with and charged, less what he paid: *)
(* no concurrent charge or payment overwrites another.                     *)
Ledger ==
  \A u \in Users :
    point[u] = InitialPoint[u] + Cardinality(HistoryPoints(u, "CHARGE"))
                               - Cardinality(HistoryPoints(u, "USE"))

(* The inductive invariant behind the theorems: which step a request may   *)
(* be at, what its input and its domain objects are there, ...             *)
BookPC == {"validateSchedule", "readSeat", "updateSeat", "saveBooking", "commitBooking",
           "publish"}

PayPC == {"readBooking", "updateBooking", "readPaidSeat", "updatePaidSeat", "usePoint",
          "commitPayment", "publish", "expireToken"}

ChargePC == {"chargePoint", "commitCharge"}

SeatWriters == {"saveBooking", "commitBooking", "usePoint", "commitPayment"}
SeatReaders == SeatWriters \cup {"updateSeat", "updatePaidSeat"}

ControlOK ==
  /\ \A r \in BookRequests :
       /\ pc[r] \in {"idle"} \cup BookPC \cup Terminal
       /\ pc[r] \in BookPC => dto[r] \in BookDto
       /\ pc[r] \in SeatReaders => txSeat[r] \in SeatRow
       /\ pc[r] = "commitBooking" =>
            txBooking[r] \in BookingRow /\ txBooking[r].seat = dto[r].seat
  /\ \A r \in PayRequests :
       /\ pc[r] \in {"idle"} \cup PayPC \cup Terminal
       /\ pc[r] \in PayPC => dto[r] \in PayDto
       /\ pc[r] \in PayPC \ {"readBooking", "publish", "expireToken"} =>
            txBooking[r] \in BookingRow
       /\ pc[r] \in SeatReaders => txSeat[r] \in SeatRow
       /\ pc[r] = "commitPayment" => txPoint[r] \in 0 .. MaxPoint /\ txBooking[r].price > 0
  /\ \A r \in ChargeRequests :
       /\ pc[r] \in {"idle"} \cup ChargePC \cup Terminal
       /\ pc[r] \in ChargePC => dto[r] \in ChargeDto
       /\ pc[r] = "commitCharge" => txPoint[r] \in 0 .. MaxPoint /\ dto[r].amount > 0

(* ... and what a request knows of the seat it has read: while the version *)
(* is the one it read, so is the rest of the row; once it has written the  *)
(* row it holds the lock, and the version cannot move.                     *)
SeatOf(r) == IF r \in BookRequests THEN dto[r].seat ELSE txBooking[r].seat

SeatReadOK(r) ==
  LET mine == txSeat[r]  row == seat[SeatOf(r)] IN
  /\ mine.version <= row.version
  /\ mine.version = row.version => ~row.isPaid
  /\ r \in BookRequests =>
       /\ ~mine.isPaid
       /\ mine.version = row.version /\ row.reservedUntil # Null => row.reservedUntil <= now
  /\ r \in PayRequests =>
       /\ mine.isPaid /\ mine.reservedUntil # Null
       /\ mine.version = row.version => mine.reservedUntil = row.reservedUntil

SeatInv ==
  /\ \A r \in BookRequests \cup PayRequests : pc[r] \in SeatReaders => SeatReadOK(r)
  /\ \A r \in BookRequests \cup PayRequests : pc[r] \in SeatWriters =>
       seatLock[SeatOf(r)] = r /\ txSeat[r].version = seat[SeatOf(r)].version
  /\ \A p \in PayRequests : payment[p] # Null => seat[payment[p].seat].isPaid

(* Nothing changes a seat once it is paid for, not even a request that     *)
(* read it before it was.                                                  *)
PaidSeatIsFinal ==
  [][\A s \in Seats : seat[s].isPaid => seat'[s] = seat[s]]_vars

(* While a hold lasts, all that can happen to the seat is that it is paid  *)
(* for: the hold is neither cut short nor taken over by another booking.   *)
HoldIsRespected ==
  [][\A s \in Seats :
       seat[s].reservedUntil # Null /\ now < seat[s].reservedUntil =>
         \/ seat'[s] = seat[s]
         \/ seat'[s].isPaid /\ seat'[s].reservedUntil = seat[s].reservedUntil]_vars

(* The row that a request needs next is locked by another's transaction.   *)
WaitsFor(r, q) ==
  \/ pc[r] = "updateBooking" /\ bookingLock[dto[r].booking] = q
  \/ pc[r] \in {"updateSeat", "updatePaidSeat"} /\ seatLock[SeatOf(r)] = q
  \/ pc[r] \in {"usePoint", "chargePoint"} /\ pointLock[dto[r].user] = q

(* No requests wait for one another in a circle, nor one for itself: the   *)
(* use cases lock bookings before seats and seats before points.  Nor does *)
(* one wait for a request that has committed, failed or been rejected:     *)
(* every path releases its locks.                                          *)
NoDeadlock ==
  /\ \A R \in (SUBSET Requests) \ {{}} : \E r \in R : \A q \in R : ~WaitsFor(r, q)
  /\ \A r, q \in Requests : WaitsFor(r, q) =>
       pc[q] \notin {"idle", "publish", "expireToken"} \cup Terminal

(* What the client is told is so.  Whoever is told of a success has his    *)
(* rows committed, announced, and his token's end asked for; whoever is    *)
(* refused has left no row behind.  Only a failure says neither.           *)
AnswersAreTrue ==
  /\ \A r \in BookRequests :
       /\ pc[r] = "answered" => booking[r] # Null /\ r \in outbox \cap published
       /\ pc[r] = "rejected" => booking[r] = Null /\ r \notin outbox
  /\ \A r \in PayRequests :
       /\ pc[r] = "answered" => payment[r] # Null /\ r \in outbox \cap published \cap expireSent
       /\ pc[r] = "rejected" => payment[r] = Null /\ r \notin outbox
  /\ \A r \in ChargeRequests :
       /\ pc[r] = "answered" => history[r] # Null
       /\ pc[r] = "rejected" => history[r] = Null

(* Every request that arrives is answered, or fails: no transaction waits  *)
(* for a row lock for ever.                                                *)
EveryRequestEnds == \A r \in Requests : pc[r] # "idle" ~> pc[r] \in Terminal

(* Each commit is one step of the atomic service, in an order that is      *)
(* right for all users.                                                    *)
Sale == INSTANCE SeatSale WITH
          clock   <- now,
          hold    <- [s \in Seats |-> seat[s].reservedUntil],
          buyers  <- [s \in Seats |-> {payment[p].user : p \in PaidFor(s)}],
          balance <- point

ImplementsSeatSale == Sale!Spec

(* An event is sent only once the booking or the payment it tells of and   *)
(* its row in the outbox are committed: what Outbox takes for granted.     *)
Feed == INSTANCE EventFeed WITH
          Events   <- BookRequests \cup PayRequests,
          recorded <- {r \in outbox : \/ r \in BookRequests /\ booking[r] # Null
                                      \/ r \in PayRequests /\ payment[r] # Null},
          sent     <- published,
          told     <- [r \in BookRequests \cup PayRequests |-> 0]

ImplementsEventFeed == Feed!Spec

(* A test of the repository: paying for a booking when the seat's hold has *)
(* lapsed is refused.  If the seat was booked again after booking b, b's   *)
(* hold had lapsed; the later booking is the one that expires later.       *)
LapsedHoldIsNotPaid ==
  \A p \in PayRequests : payment[p] # Null =>
    \A b \in BookRequests :
      booking[b] # Null /\ booking[b].seat = payment[p].seat =>
        booking[b].expiresAt <= booking[payment[p].booking].expiresAt

(* A test of the repository: booking at a time when the schedule cannot be *)
(* booked is refused.  No seat is held before its schedule opens.          *)
NotBookedBeforeOpening ==
  \A s \in Seats : seat[s].reservedUntil # Null => Opens[ScheduleOf[s]] <= now

=============================================================================
