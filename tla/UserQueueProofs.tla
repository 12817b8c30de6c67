-------------------------- MODULE UserQueueProofs --------------------------
(***************************************************************************)
(* Proofs about UserQueue, for any finite number of requests, and any      *)
(* number of users and instances, and any throughput.                      *)
(***************************************************************************)
EXTENDS UserQueue, FiniteSetTheorems, TLAPS

(* Those who have an id.                                                   *)
Inserted == {q \in Requests : id[q] # Null}

(* A request has an id from its INSERT on, and no two the same; ...        *)
IdInv ==
  /\ \A q \in Requests : pc[q] \in {"getUnexpired", "insert"} => status[q] = "none"
  /\ \A q \in Requests : pc[q] = "commit" => status[q] = "inserted"
  /\ \A q \in Requests : status[q] = "none" <=> id[q] = Null
  /\ \A q \in Inserted : id[q] <= Cardinality(Inserted)
  /\ \A p, q \in Inserted : id[p] = id[q] => p = q

(* ... its domain object holds a committed row, like the rows of the jobs. *)
RowInv ==
  /\ \A r \in Requests : pc[r] = "calculateOrder" => queue[r] \in Committed
  /\ \A q \in Requests : before[q] \subseteq Committed
  /\ \A j \in Jobs : batch[j] \subseteq Committed

(* Who is in a batch is there together with all he must not overtake.      *)
BatchInv ==
  \A j \in Jobs : \A q \in batch[j] : \A e \in before[q] :
    id[e] < id[q] => e \in batch[j] \cup Rows({"active", "expired"})

IInv == TypeOK /\ IdInv /\ RowInv /\ BatchInv

LEMMA InsertedFinite ==
  /\ IsFiniteSet(Inserted) /\ Cardinality(Inserted) \in Nat
  /\ IsFiniteSet(Pending) /\ Cardinality(Pending) \in Nat
  /\ MaxId \in Nat /\ Cardinality(Inserted) <= MaxId
<1>1. Inserted \in SUBSET Requests /\ Pending \in SUBSET Requests
  BY DEF Inserted, Pending, Rows
<1>2. IsFiniteSet(Requests)
  BY UserQueueAssumption
<1>3. IsFiniteSet(Inserted) /\ Cardinality(Inserted) <= Cardinality(Requests)
  BY <1>1, <1>2, FS_Subset
<1>4. IsFiniteSet(Pending)
  BY <1>1, <1>2, FS_Subset
<1>5. QED
  BY <1>2, <1>3, <1>4, FS_CardinalityType DEF MaxId

LEMMA InitIInv == Init => IInv
BY UserQueueAssumption
DEF Init, IInv, TypeOK, IdInv, RowInv, BatchInv, Inserted, Committed, Rows

-----------------------------------------------------------------------------
(* The oldest pending row.                                                 *)

LEMMA LeastOfNaturals ==
  ASSUME NEW S \in SUBSET Nat, S # {} PROVE \E n \in S : \A m \in S : n <= m
<1> DEFINE less == {p \in Nat \X Nat : p[1] < p[2]}
<1>1. IsWellFoundedOn(less, Nat)
  BY NatLessThanWellFounded DEF OpToRel
<1>2. PICK n \in S : \A m \in S : <<m, n>> \notin less
  <2> HIDE DEF less
  <2> QED BY <1>1, WFMin
<1>3. ASSUME NEW m \in S PROVE n <= m
  <2>1. <<m, n>> \in Nat \X Nat /\ <<m, n>>[1] = m /\ <<m, n>>[2] = n
    OBVIOUS
  <2>2. ~(m < n)
    BY <1>2, <2>1
  <2>3. QED
    BY <2>1, <2>2
<1>4. QED
  BY <1>3

LEMMA OldestIsLeast ==
  ASSUME TypeOK, IdInv, Pending # {}
  PROVE  /\ Oldest(Pending) \in Pending
         /\ \A p \in Pending : id[Oldest(Pending)] <= id[p]
<1>1. \A p \in Pending : p \in Inserted /\ id[p] \in Nat
  BY UserQueueAssumption, InsertedFinite DEF TypeOK, IdInv, Pending, Rows, Inserted
<1>2. PICK n \in {id[p] : p \in Pending} : \A m \in {id[p] : p \in Pending} : n <= m
  BY <1>1, LeastOfNaturals
<1>3. PICK q \in Pending : n = id[q]
  OBVIOUS
<1>4. \A p \in Pending : id[q] <= id[p]
  BY <1>2, <1>3
<1>5. QED
  BY <1>4 DEF Oldest

-----------------------------------------------------------------------------
(* Each action preserves the invariant.                                    *)

(* Steps of requests that insert and commit nothing.                       *)
LEMMA LookIInv ==
  ASSUME IInv, NEW r \in Requests, GetUnexpired(r) \/ CalculateOrder(r) PROVE IInv'
<1> USE DEF IInv
<1>1. UNCHANGED <<status, id, batch, before>>
  BY DEF GetUnexpired, CalculateOrder
<1>2. Inserted' = Inserted /\ Committed' = Committed /\ Rows({"active", "expired"})' = Rows({"active", "expired"})
  BY <1>1 DEF Inserted, Committed, Rows
<1>3. /\ pc' \in [Requests -> {"getUnexpired", "insert", "commit", "calculateOrder", "answered"}]
      /\ \A q \in Requests : pc'[q] # pc[q] => /\ q = r
                                               /\ pc[q] \in {"getUnexpired", "calculateOrder"}
                                               /\ pc'[q] \in {"insert", "calculateOrder", "answered"}
                                               /\ pc'[q] = "insert" => pc[q] = "getUnexpired"
  BY DEF GetUnexpired, CalculateOrder, Goto, TypeOK
<1>4. queue' \in [Requests -> Requests \cup {Null}]
  BY DEF GetUnexpired, CalculateOrder, TypeOK, Rows
<1>5. order' \in [Requests -> Int \cup {Null}]
  <2>1. CASE GetUnexpired(r)
    BY <2>1 DEF GetUnexpired, TypeOK
  <2>2. CASE CalculateOrder(r)
    <3>1. queue[r] \in Committed /\ id[queue[r]] \in Int
      BY <2>2, InsertedFinite DEF CalculateOrder, RowInv, TypeOK, IdInv, Committed, Rows
    <3>2. Pending # {} => id[Oldest(Pending)] \in Int
      BY OldestIsLeast, InsertedFinite DEF TypeOK, IdInv, Pending, Rows
    <3>3. CurrentOrder(queue[r]) \in Int
      BY <3>1, <3>2 DEF CurrentOrder
    <3>4. QED
      BY <2>2, <3>3 DEF CalculateOrder, TypeOK
  <2>3. QED
    BY <2>1, <2>2
<1>6. TypeOK'
  BY <1>1, <1>3, <1>4, <1>5 DEF TypeOK, MaxId
<1>7. IdInv'
  BY <1>1, <1>2, <1>3 DEF IdInv
<1>8. ASSUME NEW q \in Requests, pc'[q] = "calculateOrder" PROVE queue'[q] \in Committed
  BY <1>8 DEF GetUnexpired, CalculateOrder, Goto, TypeOK, RowInv, Committed, Rows
<1>9. RowInv' /\ BatchInv'
  BY <1>1, <1>2, <1>8 DEF RowInv, BatchInv
<1>10. QED
  BY <1>6, <1>7, <1>9

LEMMA InsertIInv ==
  ASSUME IInv, NEW r \in Requests, Insert(r) PROVE IInv'
<1> USE InsertedFinite, UserQueueAssumption DEF IInv
<1>1. /\ UNCHANGED <<queue, order, batch>>
      /\ id' = [id EXCEPT ![r] = NextId]
      /\ status' = [status EXCEPT ![r] = "inserted"]
      /\ before' = [before EXCEPT ![r] = Committed]
      /\ pc' = [pc EXCEPT ![r] = "commit"]
      /\ pc[r] = "insert" /\ status[r] = "none" /\ id[r] = Null
  BY DEF Insert, Goto, IdInv
<1>2. r \notin Inserted /\ NextId = Cardinality(Inserted) + 1
  BY <1>1 DEF Inserted, NextId
<1>3. Inserted' = Inserted \cup {r}
  <2>1. NextId \in Int /\ NextId # Null
    BY <1>2
  <2>2. \A q \in Requests : id'[q] = IF q = r THEN NextId ELSE id[q]
    BY <1>1 DEF TypeOK
  <2>3. QED
    BY <2>1, <2>2 DEF Inserted
<1>4. IsFiniteSet(Inserted \cup {r}) /\ Cardinality(Inserted \cup {r}) = Cardinality(Inserted) + 1
  BY <1>2, FS_AddElement
<1>5. NextId \in 1 .. MaxId
  <2>1. Inserted \cup {r} \in SUBSET Requests
    BY DEF Inserted
  <2>2. Cardinality(Inserted \cup {r}) <= MaxId
    BY <2>1, FS_Subset DEF MaxId
  <2>3. QED
    BY <1>2, <1>4, <2>2
<1>6. Committed' = Committed /\ Rows({"active", "expired"})' = Rows({"active", "expired"})
  BY <1>1 DEF Committed, Rows, TypeOK
<1>7. Committed \subseteq Inserted
  BY DEF Committed, Rows, Inserted, IdInv
<1>8. TypeOK'
  BY <1>1, <1>5 DEF TypeOK, MaxId, Committed, Rows
<1>9. \A q \in Inserted : id'[q] = id[q] /\ id[q] \in Nat /\ id[q] < NextId
  BY <1>1, <1>2 DEF Inserted, TypeOK, IdInv
<1>10. id'[r] = NextId
  BY <1>1 DEF TypeOK
<1>11. IdInv'
  <2>1. \A q \in Requests : /\ pc'[q] \in {"getUnexpired", "insert"} => status'[q] = "none"
                            /\ pc'[q] = "commit" => status'[q] = "inserted"
                            /\ status'[q] = "none" <=> id'[q] = Null
    BY <1>1, <1>5 DEF IdInv, TypeOK
  <2>2. \A q \in Inserted' : id'[q] <= Cardinality(Inserted')
    BY <1>2, <1>3, <1>4, <1>9, <1>10
  <2>3. \A p, q \in Inserted' : id'[p] = id'[q] => p = q
    BY <1>2, <1>3, <1>9, <1>10 DEF IdInv
  <2>4. QED
    BY <2>1, <2>2, <2>3 DEF IdInv
<1>12. RowInv'
  BY <1>1, <1>6 DEF RowInv, TypeOK
<1>13. BatchInv'
  <2> SUFFICES ASSUME NEW j \in Jobs, NEW q \in batch[j], NEW e \in before'[q], id'[e] < id'[q]
               PROVE  e \in batch[j] \cup Rows({"active", "expired"})
    BY <1>1, <1>6 DEF BatchInv
  <2>1. q \in Inserted /\ q # r
    BY <1>2, <1>7 DEF RowInv
  <2>2. e \in before[q] /\ e \in Inserted
    BY <1>1, <1>7, <2>1 DEF RowInv, TypeOK, Inserted
  <2>3. id[e] < id[q]
    BY <1>9, <2>1, <2>2
  <2>4. QED
    BY <2>2, <2>3 DEF BatchInv
<1>14. QED
  BY <1>8, <1>11, <1>12, <1>13

LEMMA CommitIInv ==
  ASSUME IInv, NEW r \in Requests, Commit(r) PROVE IInv'
<1> USE DEF IInv
<1>1. /\ UNCHANGED <<id, order, batch, before>>
      /\ status' = [status EXCEPT ![r] = "pending"]
      /\ queue' = [queue EXCEPT ![r] = r]
      /\ pc' = [pc EXCEPT ![r] = "calculateOrder"]
      /\ pc[r] = "commit" /\ status[r] = "inserted"
  BY DEF Commit, Goto, IdInv
<1>2. Inserted' = Inserted /\ Committed' = Committed \cup {r}
  BY <1>1 DEF Inserted, Committed, Rows, TypeOK
<1>3. Rows({"active", "expired"})' = Rows({"active", "expired"})
  BY <1>1 DEF Rows, TypeOK
<1>4. TypeOK'
  BY <1>1 DEF TypeOK, MaxId
<1>5. IdInv'
  BY <1>1, <1>2 DEF IdInv, TypeOK
<1>6. RowInv'
  BY <1>1, <1>2 DEF RowInv, TypeOK
<1>7. BatchInv'
  BY <1>1, <1>3 DEF BatchInv
<1>8. QED
  BY <1>4, <1>5, <1>6, <1>7

(* Steps of the table that keep every committed row committed.             *)
LEMMA RowsIInv ==
  ASSUME IInv, UNCHANGED <<id, request, before>>,
         status' \in [Requests -> {"none", "inserted", "pending", "active", "expired"}],
         \A q \in Requests : status'[q] # status[q] => status[q] # "inserted" /\ status[q] # "none"
                             /\ status'[q] \in {"active", "expired"},
         \A q \in Requests : status[q] \in {"active", "expired"} => status'[q] \in {"active", "expired"},
         batch' \in [Jobs -> SUBSET Requests],
         \A j \in Jobs : \/ batch'[j] = {}
                         \/ batch'[j] = batch[j]
                         \/ batch'[j] = OldestPending /\ UNCHANGED status
  PROVE  IInv'
<1> USE DEF IInv
<1>1. Inserted' = Inserted /\ Committed' = Committed /\ Inserted \subseteq Requests
  BY DEF Inserted, Committed, Rows, TypeOK
<1>2. Rows({"active", "expired"}) \subseteq Rows({"active", "expired"})'
  BY DEF Rows
<1>3. TypeOK'
  BY DEF TypeOK, request, MaxId
<1>4. IdInv'
  <2>1. \A q \in Requests : /\ pc'[q] \in {"getUnexpired", "insert"} => status'[q] = "none"
                            /\ pc'[q] = "commit" => status'[q] = "inserted"
                            /\ status'[q] = "none" <=> id'[q] = Null
    BY DEF IdInv, request
  <2>2. QED
    BY <1>1, <2>1 DEF IdInv
<1>5. OldestPending \subseteq Committed
  BY DEF OldestPending, Pending, Committed, Rows
<1>6. RowInv'
  BY <1>1, <1>5 DEF RowInv, request
<1>7. ASSUME NEW q \in OldestPending, NEW e \in before[q], id[e] < id[q], UNCHANGED status
      PROVE  e \in OldestPending \cup Rows({"active", "expired"})'
  <2>1. e \in Committed /\ q \in Pending
    BY <1>7 DEF RowInv, OldestPending, Pending, Rows
  <2>2. CASE e \in Pending
    <3> DEFINE ahead(x) == {p \in Pending : id[p] < id[x]}
    <3>1. \A p \in Pending : id[p] \in Int
      BY UserQueueAssumption, InsertedFinite DEF Pending, Rows, IdInv, TypeOK
    <3>2. ahead(e) \in SUBSET ahead(q) /\ ahead(q) \in SUBSET Pending
      BY <1>7, <2>1, <2>2, <3>1
    <3>3. IsFiniteSet(ahead(q))
      BY <3>2, InsertedFinite, FS_Subset
    <3>4. /\ Cardinality(ahead(e)) <= Cardinality(ahead(q))
          /\ Cardinality(ahead(e)) \in Nat /\ Cardinality(ahead(q)) \in Nat
      BY <3>2, <3>3, FS_Subset, FS_CardinalityType
    <3>5. Cardinality(ahead(q)) < Throughput
      BY <1>7 DEF OldestPending
    <3>6. QED
      BY <2>2, <3>4, <3>5, UserQueueAssumption DEF OldestPending
  <2>3. CASE e \notin Pending
    BY <1>2, <2>1, <2>3 DEF Committed, Pending, Rows
  <2>4. QED
    BY <2>2, <2>3
<1>8. BatchInv'
  <2> SUFFICES ASSUME NEW j \in Jobs, NEW q \in batch'[j], NEW e \in before[q], id[e] < id[q]
               PROVE  e \in batch'[j] \cup Rows({"active", "expired"})'
    BY DEF BatchInv
  <2>1. CASE batch'[j] = batch[j]
    BY <1>2, <2>1 DEF BatchInv
  <2>2. CASE batch'[j] = OldestPending /\ UNCHANGED status
    BY <1>7, <2>2
  <2>3. QED
    BY <2>1, <2>2
<1>9. QED
  BY <1>3, <1>4, <1>6, <1>8

LEMMA NextIInv == IInv /\ [Next]_vars => IInv'
<1> SUFFICES ASSUME IInv, [Next]_vars PROVE IInv'
  OBVIOUS
<1>1. ASSUME NEW r \in Requests, GetUnexpired(r) \/ Insert(r) \/ Commit(r) \/ CalculateOrder(r)
      PROVE  IInv'
  BY <1>1, LookIInv, InsertIInv, CommitIInv
<1>2. ASSUME NEW q \in Requests, Expire(q) PROVE IInv'
  BY <1>2, RowsIInv DEF Expire, IInv, TypeOK
<1>3. ASSUME NEW j \in Jobs, FindPending(j) PROVE IInv'
  <2>1. OldestPending \subseteq Requests
    BY DEF OldestPending, Pending, Rows
  <2>2. QED
    BY <1>3, <2>1, RowsIInv DEF FindPending, IInv, TypeOK
<1>4. ASSUME NEW j \in Jobs, BulkSave(j) PROVE IInv'
  <2>1. batch[j] \subseteq Committed
    BY DEF IInv, RowInv
  <2>2. QED
    BY <1>4, <2>1, RowsIInv DEF BulkSave, IInv, TypeOK, Committed, Rows
<1>5. ASSUME NEW j \in Jobs, CrashJob(j) PROVE IInv'
  BY <1>5, RowsIInv DEF CrashJob, IInv, TypeOK
<1>6. CASE UNCHANGED vars
  BY <1>6, RowsIInv DEF vars, request, IInv, TypeOK
<1>7. QED
  BY <1>1, <1>2, <1>3, <1>4, <1>5, <1>6 DEF Next

LEMMA InductiveInv == Spec => []IInv
BY InitIInv, NextIInv, PTL DEF Spec

(* Every reachable state is well typed: the ids the sequence gives and the *)
(* places that requests are answered are integers, which takes a row with  *)
(* the smallest id among those that are pending.                           *)
THEOREM UserQueueTypeCorrect == Spec => []TypeOK
<1>1. IInv => TypeOK
  BY DEF IInv
<1>2. QED
  BY <1>1, InductiveInv, PTL

-----------------------------------------------------------------------------
(* The queue implements WaitingLine.                                       *)

LEMMA Simulation == IInv /\ [Next]_vars => [Queue!Next]_Queue!lineVars
<1> DEFINE admitted == Rows({"active", "expired"})
<1> SUFFICES ASSUME IInv, [Next]_vars
             PROVE  Queue!Next \/ UNCHANGED <<id, before, Committed, admitted>>
  BY DEF Queue!lineVars
<1> USE DEF IInv
<1>1. ASSUME NEW r \in Requests, Insert(r) PROVE Queue!Next
  <2>1. Inserted \cup {r} \in SUBSET Requests /\ r \notin Inserted
    BY <1>1 DEF Insert, Inserted, IdInv
  <2>2. Cardinality(Inserted \cup {r}) = Cardinality(Inserted) + 1
    BY <2>1, InsertedFinite, FS_AddElement
  <2>3. Cardinality(Inserted \cup {r}) <= MaxId
    BY <2>1, UserQueueAssumption, FS_Subset DEF MaxId
  <2>4. NextId \in 1 .. MaxId
    BY <2>2, <2>3, InsertedFinite DEF NextId, Inserted
  <2>5. Committed' = Committed /\ admitted' = admitted
    BY <1>1 DEF Insert, IdInv, Committed, Rows, TypeOK
  <2>6. Queue!Arrive(r, NextId)
    BY <1>1, <2>5 DEF Insert, IdInv, Queue!Arrive
  <2>7. QED
    BY <2>4, <2>6 DEF Queue!Next
<1>2. ASSUME NEW r \in Requests, Commit(r) PROVE Queue!Next
  <2>1. Committed' = Committed \cup {r} /\ admitted' = admitted
    BY <1>2 DEF Commit, IdInv, Committed, Rows, TypeOK
  <2>2. Queue!Enter(r)
    BY <1>2, <2>1 DEF Commit, IdInv, Queue!Enter
  <2>3. QED
    BY <2>2 DEF Queue!Next
<1>3. ASSUME NEW j \in Jobs, BulkSave(j) PROVE Queue!Next
  <2>1. batch[j] \subseteq Committed /\ batch[j] \in SUBSET Requests
    BY DEF RowInv, TypeOK
  <2>2. /\ UNCHANGED <<id, before>>
        /\ status' = [q \in Requests |-> IF q \in batch[j] THEN "active" ELSE status[q]]
    BY <1>3 DEF BulkSave
  <2>3. Committed' = Committed /\ admitted' = admitted \cup batch[j]
    BY <2>1, <2>2 DEF Committed, Rows
  <2>4. \A t \in batch[j] : \A e \in before[t] : id[e] < id[t] => e \in admitted \cup batch[j]
    BY DEF BatchInv
  <2>5. \E S \in SUBSET Requests :
          /\ S \subseteq Committed
          /\ \A t \in S : \A e \in before[t] : id[e] < id[t] => e \in admitted \cup S
          /\ admitted' = admitted \cup S
          /\ UNCHANGED <<id, before, Committed>>
    <3> HIDE DEF admitted
    <3> QED
      BY <2>1, <2>2, <2>3, <2>4
  <2>6. QED
    BY <2>5, Zenon DEF Queue!Next, Queue!Admit
<1>4. ASSUME NEW r \in Requests, GetUnexpired(r) \/ CalculateOrder(r) \/ Expire(r)
      PROVE  UNCHANGED <<id, before, Committed, admitted>>
  BY <1>4 DEF GetUnexpired, CalculateOrder, Expire, request, Committed, Rows, TypeOK
<1>5. ASSUME NEW j \in Jobs, FindPending(j) \/ CrashJob(j)
      PROVE  UNCHANGED <<id, before, Committed, admitted>>
  BY <1>5 DEF FindPending, CrashJob, Committed, Rows
<1>6. CASE UNCHANGED vars
  BY <1>6 DEF vars, Committed, Rows
<1>7. QED
  BY <1>1, <1>2, <1>3, <1>4, <1>5, <1>6 DEF Next

(* Whatever the instances read and save, a row that was committed before a *)
(* later one was inserted is activated no later: UserQueue implements      *)
(* WaitingLine.                                                            *)
THEOREM FirstInFirstOut == Spec => ImplementsWaitingLine
<1>1. Init => Queue!Init
  BY DEF Init, Queue!Init, Committed, Rows
<1>2. QED
  BY <1>1, InductiveInv, Simulation, PTL
  DEF Spec, ImplementsWaitingLine, Queue!Spec

(* What it inherits: when a row is or was active, so is or was every row   *)
(* with a smaller id that was committed before it was inserted.            *)
THEOREM NobodyOvertaken == Spec => []Queue!NoOvertaking
<1>1. Null \notin 1 .. MaxId
  BY UserQueueAssumption
<1>2. Queue!Spec => []Queue!NoOvertaking
  BY <1>1, Queue!NobodyIsOvertaken
<1>3. QED
  BY <1>2, FirstInFirstOut, PTL DEF ImplementsWaitingLine

-----------------------------------------------------------------------------
(* The place a request is answered.                                        *)

(* Ids are distinct, so the distance of two of them bounds the number of   *)
(* pending rows between.                                                   *)
LEMMA DistanceCounts ==
  ASSUME IInv, NEW q \in Pending
  PROVE  Cardinality({p \in Pending : id[p] < id[q]}) < CurrentOrder(q)
<1> DEFINE oldest == Oldest(Pending)
           ahead == {p \in Pending : id[p] < id[q]}
           place == [p \in ahead |-> id[p]]
<1> USE DEF IInv
<1>1. \A p \in Pending : p \in Inserted /\ id[p] \in Int
  BY UserQueueAssumption, InsertedFinite DEF TypeOK, IdInv, Pending, Rows, Inserted
<1>2. oldest \in Pending /\ \A p \in Pending : id[oldest] <= id[p]
  BY OldestIsLeast
<1>3. place \in [ahead -> id[oldest] .. id[q] - 1]
  BY <1>1, <1>2
<1>4. place \in Injection(ahead, id[oldest] .. id[q] - 1)
  BY <1>1, <1>3 DEF Injection, IsInjective, IdInv
<1>5. /\ IsFiniteSet(id[oldest] .. id[q] - 1)
      /\ Cardinality(id[oldest] .. id[q] - 1) = id[q] - id[oldest]
  BY <1>1, <1>2, FS_Interval
<1>6. Cardinality(ahead) <= id[q] - id[oldest] /\ IsFiniteSet(ahead)
  <2> HIDE DEF place
  <2> QED
    BY <1>4, <1>5, FS_Injection
<1>7. Cardinality(ahead) \in Nat
  BY <1>6, FS_CardinalityType
<1>8. QED
  BY <1>1, <1>2, <1>6, <1>7 DEF CurrentOrder

(* The place told to a user who is pending is never too small.             *)
THEOREM PlaceCountsAll == Spec => OrderCountsAll
<1> DEFINE counts(r) ==
      pc[r] = "calculateOrder" /\ pc'[r] = "answered" /\ queue[r] \in Pending =>
        order'[r] > Cardinality({q \in Pending : id[q] < id[queue[r]]})
<1>1. ASSUME IInv, [Next]_vars, NEW r \in Requests PROVE counts(r)
  <2> SUFFICES ASSUME pc[r] = "calculateOrder", pc'[r] = "answered", queue[r] \in Pending
               PROVE  order'[r] > Cardinality({q \in Pending : id[q] < id[queue[r]]})
    OBVIOUS
  <2>1. CalculateOrder(r)
    BY <1>1 DEF Next, vars, request, GetUnexpired, Insert, Commit, CalculateOrder, Expire,
       FindPending, BulkSave, CrashJob, Goto, IInv, TypeOK
  <2>2. order'[r] = CurrentOrder(queue[r])
    BY <1>1, <2>1 DEF CalculateOrder, IInv, TypeOK
  <2>3. QED
    BY <1>1, <2>2, DistanceCounts
<1>2. IInv /\ [Next]_vars => [\A r \in Requests : counts(r)]_vars
  BY <1>1
<1>3. QED
  BY <1>2, InductiveInv, PTL DEF Spec, OrderCountsAll
=============================================================================
