------------------------------ MODULE UserQueue ------------------------------
(***************************************************************************)
(* The waiting queue in PostgreSQL, table user_queues: the requests that   *)
(* enter it, and the cron of every instance that activates the oldest      *)
(* pending rows.                                                           *)
(*                                                                         *)
(* A row is named after the request that inserts it, and its status stands *)
(* for the columns token and expires_at.  Its id is given by the sequence  *)
(* at the INSERT; others see the row from the commit on.                   *)
(***************************************************************************)
EXTENDS Integers, FiniteSets

CONSTANTS
  Requests,    \* POST /users/queue
  UserOf,      \* of a request
  Jobs,        \* the cron of each instance
  Throughput,  \* rows activated at a time
  Null

ASSUME UserQueueAssumption ==
  /\ IsFiniteSet(Requests)
  /\ Throughput \in Nat \ {0} /\ Null \notin Int

VARIABLES
  status,  \* of a row
  id,      \* of a row: the column id
  pc,      \* of a request: its next step
  queue,   \* of a request: the row its domain object holds
  order,   \* of a request: the place it is answered, 0 with an active token
  batch,   \* of a job: the rows it has read as pending and not yet saved
  before   \* of a row: those committed when its id was given

request == <<pc, queue, order>>
vars    == <<status, id, request, batch, before>>

MaxId == Cardinality(Requests)

TypeOK ==
  /\ status \in [Requests -> {"none", "inserted", "pending", "active", "expired"}]
  /\ id \in [Requests -> (1 .. MaxId) \cup {Null}]
  /\ pc \in [Requests -> {"getUnexpired", "insert", "commit", "calculateOrder", "answered"}]
  /\ queue \in [Requests -> Requests \cup {Null}]
  /\ order \in [Requests -> Int \cup {Null}]
  /\ batch \in [Jobs -> SUBSET Requests]
  /\ before \in [Requests -> SUBSET Requests]

Init ==
  /\ status = [r \in Requests |-> "none"]
  /\ id = [r \in Requests |-> Null]
  /\ pc = [r \in Requests |-> "getUnexpired"]
  /\ queue = [r \in Requests |-> Null]
  /\ order = [r \in Requests |-> Null]
  /\ batch = [j \in Jobs |-> {}]
  /\ before = [r \in Requests |-> {}]

Rows(statuses) == {q \in Requests : status[q] \in statuses}

Pending == Rows({"pending"})

Committed == Rows({"pending", "active", "expired"})

Oldest(S) == CHOOSE q \in S : \A p \in S : id[q] <= id[p]

-----------------------------------------------------------------------------
(* POST /users/queue.  A request may stop anywhere: none is bound to go on.*)

Goto(r, next) == pc' = [pc EXCEPT ![r] = next]

(* Any row of the user that has no expiry, or has not expired; when        *)
(* isActive() looks at the object just read, it may have expired.          *)
GetUnexpired(r) ==
  LET unexpired == {q \in Rows({"pending", "active"}) : UserOf[q] = UserOf[r]} IN
  /\ pc[r] = "getUnexpired"
  /\ \/ \E q \in unexpired :
          /\ queue' = [queue EXCEPT ![r] = q]
          /\ \/ /\ status[q] = "active"
                /\ order' = [order EXCEPT ![r] = 0]
                /\ Goto(r, "answered")
             \/ /\ Goto(r, "calculateOrder")
                /\ UNCHANGED order
     \/ /\ unexpired = {}
        /\ Goto(r, "insert")
        /\ UNCHANGED <<queue, order>>
  /\ UNCHANGED <<status, id, batch, before>>

IdFromZero == Cardinality({q \in Requests : id[q] # Null}) \* mutant: START WITH 0

NextId == 1 + Cardinality({q \in Requests : id[q] # Null})

Insert(r) ==
  /\ pc[r] = "insert"
  /\ id' = [id EXCEPT ![r] = NextId]
  /\ status' = [status EXCEPT ![r] = "inserted"]
  /\ before' = [before EXCEPT ![r] = Committed]
  /\ Goto(r, "commit")
  /\ UNCHANGED <<queue, order, batch>>

Commit(r) ==
  /\ pc[r] = "commit"
  /\ status' = [status EXCEPT ![r] = "pending"]
  /\ queue' = [queue EXCEPT ![r] = r]
  /\ Goto(r, "calculateOrder")
  /\ UNCHANGED <<id, order, batch, before>>

OrderFromZero(q) == \* mutant: off by one
  IF Pending = {} THEN 0 ELSE id[q] - id[Oldest(Pending)]

(* The distance to the oldest pending row, whatever the row is by now.     *)
CurrentOrder(q) == IF Pending = {} THEN 1 ELSE id[q] - id[Oldest(Pending)] + 1

CalculateOrder(r) ==
  /\ pc[r] = "calculateOrder"
  /\ order' = [order EXCEPT ![r] = CurrentOrder(queue[r])]
  /\ Goto(r, "answered")
  /\ UNCHANGED <<status, id, queue, batch, before>>

-----------------------------------------------------------------------------
(* The cron of each instance, every ten seconds.                           *)

LatestPending == \* mutant: order: { id: 'DESC' }
  {q \in Pending : Cardinality({p \in Pending : id[p] > id[q]}) < Throughput}

OldestRows == \* mutant: no where: { token: IsNull() }
  {q \in Committed : Cardinality({p \in Committed : id[p] < id[q]}) < Throughput}

OldestPending ==
  {q \in Pending : Cardinality({p \in Pending : id[p] < id[q]}) < Throughput}

FindPending(j) ==
  /\ batch[j] = {}
  /\ batch' = [batch EXCEPT ![j] = OldestPending]
  /\ UNCHANGED <<status, id, request, before>>

(* One transaction saves the objects read, whatever has become of the rows. *)
BulkSave(j) ==
  /\ batch[j] # {}
  /\ status' = [q \in Requests |-> IF q \in batch[j] THEN "active" ELSE status[q]]
  /\ batch' = [batch EXCEPT ![j] = {}]
  /\ UNCHANGED <<id, request, before>>

(* The instance crashes: the transaction is rolled back.                   *)
CrashJob(j) ==
  /\ batch[j] # {}
  /\ batch' = [batch EXCEPT ![j] = {}]
  /\ UNCHANGED <<status, id, request, before>>

(* Ten minutes have passed.                                                *)
Expire(q) ==
  /\ status[q] = "active"
  /\ status' = [status EXCEPT ![q] = "expired"]
  /\ UNCHANGED <<id, request, batch, before>>

Next ==
  \/ \E r \in Requests :
       GetUnexpired(r) \/ Insert(r) \/ Commit(r) \/ CalculateOrder(r) \/ Expire(r)
  \/ \E j \in Jobs : FindPending(j) \/ BulkSave(j) \/ CrashJob(j)

(* The schedules go on, and not every save is struck by a crash.           *)
Fairness == \A j \in Jobs : WF_vars(FindPending(j)) /\ SF_vars(BulkSave(j))

Spec == Init /\ [][Next]_vars

FairSpec == Spec /\ Fairness

-----------------------------------------------------------------------------
(* Properties.                                                             *)

(* The documents: first in, first out.  A row committed before a later one *)
(* was inserted is activated no later, although two jobs may save batches  *)
(* they read at different times.                                           *)
Queue == INSTANCE WaitingLine WITH
           Tickets  <- Requests,
           Places   <- 1 .. MaxId,
           at       <- id,
           entered  <- Committed,
           admitted <- Rows({"active", "expired"})

ImplementsWaitingLine == Queue!Spec

(* A row that is pending is activated in the end.                          *)
PendingEnds == \A q \in Requests : status[q] = "pending" ~> status[q] # "pending"

(* The place told to a user whose row is pending counts him and all who    *)
(* are pending ahead of him: ids left out and rows that others insert,     *)
(* commit and activate meanwhile never make it too small.                  *)
OrderCountsAll ==
  [][\A r \in Requests : pc[r] = "calculateOrder" /\ pc'[r] = "answered" /\ queue[r] \in Pending =>
         order'[r] > Cardinality({q \in Pending : id[q] < id[queue[r]]})]_vars
=============================================================================
