-------------------------- MODULE TokenQueueProofs --------------------------
(***************************************************************************)
(* Proofs about TokenQueue, for any number of users, requests and          *)
(* instances, any throughput and any clock bound.                          *)
(***************************************************************************)
EXTENDS TokenThroughput, FiniteSetTheorems, TLAPS

(* The users who were put into line at some time.                          *)
Known == {UserOf[q] : q \in entered}

(* Whoever is in line or has had his turn was put into line once, ...      *)
LineInv ==
  /\ InLine \cup HadTurn \subseteq Known
  /\ active \subseteq granted
  /\ \A r \in entered : UserOf[r] \in InLine \cup HadTurn
  /\ \A r \in Requests : pc[r] \in {"waits", "pays", "paid"} => UserOf[r] \in Known

(* ... and whom a job will remove has had his turn or will have had first. *)
BatchInv ==
  \A j \in Jobs : /\ batch[j] \subseteq Known
                  /\ ToSet(todo[j]) \subseteq batch[j]
                  /\ batch[j] \subseteq HadTurn \cup ToSet(todo[j])

StampInv ==
  \A r \in Requests : pc[r] = "add" => r \in EnqueueRequests /\ stamp[r] \in 0 .. MaxTime

IInv == TypeOK /\ LineInv /\ BatchInv /\ StampInv

LEMMA InitIInv == Init => IInv
BY TokenQueueAssumption
DEF Init, IInv, TypeOK, LineInv, BatchInv, StampInv, Known, InLine, HadTurn, PC, Answered, Requests,
    ToSet

(* What the sequence of a job's users loses when its head is taken.        *)
LEMMA HeadAndTail ==
  ASSUME NEW S, NEW s \in Seq(S), s # <<>>
  PROVE  /\ Head(s) \in S /\ Tail(s) \in Seq(S)
         /\ ToSet(s) = {Head(s)} \cup ToSet(Tail(s))
<1>1. Len(s) \in Nat /\ Len(s) > 0 /\ DOMAIN s = 1 .. Len(s)
  OBVIOUS
<1>2. Head(s) = s[1] /\ Head(s) \in S /\ Tail(s) \in Seq(S) /\ Len(Tail(s)) = Len(s) - 1
  BY <1>1
<1>3. DOMAIN Tail(s) = 1 .. Len(s) - 1
  BY <1>1, <1>2
<1>4. \A i \in 1 .. Len(s) - 1 : Tail(s)[i] = s[i + 1]
  BY <1>1, <1>2
<1>5. ToSet(Tail(s)) = {s[i + 1] : i \in 1 .. Len(s) - 1}
  BY <1>3, <1>4 DEF ToSet
<1>6. ToSet(s) \subseteq {s[1]} \cup {s[i + 1] : i \in 1 .. Len(s) - 1}
  <2> SUFFICES ASSUME NEW k \in 1 .. Len(s), k # 1
               PROVE  \E i \in 1 .. Len(s) - 1 : s[k] = s[i + 1]
    BY <1>1 DEF ToSet
  <2>1. k - 1 \in 1 .. Len(s) - 1 /\ (k - 1) + 1 = k
    BY <1>1
  <2>2. QED
    BY <2>1
<1>7. {s[1]} \cup {s[i + 1] : i \in 1 .. Len(s) - 1} \subseteq ToSet(s)
  BY <1>1 DEF ToSet
<1>8. QED
  BY <1>2, <1>5, <1>6, <1>7

LEMMA RequestUser ==
  /\ \A r \in Requests : UserOf[r] \in Users
  /\ EnqueueRequests \subseteq Requests
  /\ ScanRequests \subseteq Requests
  /\ PayRequests \subseteq Requests
BY TokenQueueAssumption DEF Requests

-----------------------------------------------------------------------------
(* Each action preserves the invariant.                                    *)

(* Steps of a request that change neither the queue nor the tokens.        *)
LEMMA LookIInv ==
  ASSUME IInv, NEW r \in Requests,
         GetActive(r) \/ GetOrder(r) \/ Guard(r)
  PROVE  IInv'
<1> USE RequestUser DEF IInv
<1>1. UNCHANGED <<waiting, active, batch, todo, granted, refused, entered>>
  BY DEF GetActive, GetOrder, Guard, redis, cron, history
<1>2. Known' = Known /\ InLine' = InLine /\ HadTurn' = HadTurn
  BY <1>1 DEF Known, InLine, HadTurn
<1>3. TypeOK'
  <2>1. PICK next \in PC : pc' = [pc EXCEPT ![r] = next]
    BY DEF GetActive, GetOrder, Guard, Goto, PC, Answered
  <2>2. pc' \in [Requests -> PC]
    BY <2>1 DEF TypeOK
  <2>3. UNCHANGED <<now, fired>>
    BY DEF GetActive, GetOrder, Guard, cron
  <2>4. stamp' \in [EnqueueRequests -> (0 .. MaxTime) \cup {Null}]
    BY DEF TypeOK, GetActive, GetOrder, Guard
  <2>5. before' \in [EnqueueRequests -> SUBSET EnqueueRequests]
    BY DEF TypeOK, GetActive, GetOrder, Guard, history
  <2>6. QED
    BY <1>1, <2>2, <2>3, <2>4, <2>5 DEF TypeOK
<1>4. ASSUME NEW q \in Requests, pc'[q] \in {"waits", "pays", "paid"}
      PROVE  UserOf[q] \in Known
  <2>1. CASE q # r
    BY <1>4, <2>1 DEF LineInv, TypeOK, GetActive, GetOrder, Guard, Goto
  <2>2. CASE q = r
    <3>1. UserOf[r] \in InLine \cup active
      BY <1>4, <2>2 DEF TypeOK, GetActive, GetOrder, Guard, Goto, InLine, HoldsToken
    <3>2. QED
      BY <2>2, <3>1 DEF LineInv, HadTurn
  <2>3. QED
    BY <2>1, <2>2
<1>5. LineInv'
  BY <1>1, <1>2, <1>4 DEF LineInv
<1>6. BatchInv'
  BY <1>1, <1>2 DEF BatchInv
<1>7. StampInv'
  BY DEF StampInv, TypeOK, GetActive, GetOrder, Guard, Goto
<1>8. QED
  BY <1>3, <1>5, <1>6, <1>7

LEMMA AddIInv ==
  ASSUME IInv, NEW r \in EnqueueRequests, Add(r) PROVE IInv'
<1> USE RequestUser DEF IInv
<1> DEFINE u == UserOf[r]
<1>1. UNCHANGED <<active, batch, todo, granted, refused, stamp>> /\ pc' = [pc EXCEPT ![r] = "waits"]
  BY DEF Add, Goto, cron
<1>2. stamp[r] \in 0 .. MaxTime /\ stamp[r] # Null
  BY TokenQueueAssumption DEF Add, StampInv
<1>3. waiting' = [waiting EXCEPT ![u] = IF @ = Null THEN stamp[r] ELSE @]
  BY DEF Add, AddNX
<1>4. TypeOK'
  BY <1>2, <1>3 DEF TypeOK, Add, Goto, cron, PC, Answered
<1>5. InLine' = InLine \cup {u}
  BY <1>2, <1>3 DEF InLine, TypeOK
<1>6. Known \subseteq Known' /\ Known' \subseteq Known \cup {u} /\ entered' \subseteq entered \cup {r}
  BY DEF Known, Add
<1>7. u \in Known'
  <2>1. CASE waiting[u] = Null /\ u \notin HadTurn
    BY <2>1 DEF Known, Add
  <2>2. CASE u \in InLine \cup HadTurn
    BY <2>2, <1>6 DEF LineInv
  <2>3. QED
    BY <2>1, <2>2 DEF InLine
<1>8. HadTurn' = HadTurn
  BY <1>1 DEF HadTurn
<1>9. LineInv'
  BY <1>1, <1>5, <1>6, <1>7, <1>8 DEF LineInv, TypeOK
<1>10. BatchInv'
  BY <1>1, <1>6, <1>8 DEF BatchInv
<1>11. StampInv'
  BY <1>1 DEF StampInv, TypeOK
<1>12. QED
  BY <1>4, <1>9, <1>10, <1>11

LEMMA FireIInv ==
  ASSUME IInv, NEW j \in Jobs, Fire(j) PROVE IInv'
<1> USE DEF IInv
<1>1. /\ UNCHANGED <<now, waiting, active, pc, stamp, granted, refused, before, entered>>
      /\ fired' = fired \cup {j}
  BY DEF Fire, redis, request, history
<1>2. PICK n \in 0 .. Throughput : \E s \in [1 .. n -> InLine] :
        todo' = [todo EXCEPT ![j] = s] /\ batch' = [batch EXCEPT ![j] = ToSet(s)]
  BY DEF Fire
<1>3. PICK s \in [1 .. n -> InLine] :
        todo' = [todo EXCEPT ![j] = s] /\ batch' = [batch EXCEPT ![j] = ToSet(s)]
  BY <1>2
<1>4. s \in Seq(Users) /\ ToSet(s) \subseteq InLine
  <2>1. n \in Nat /\ InLine \subseteq Users
    BY TokenQueueAssumption DEF InLine
  <2>2. QED
    BY <1>3, <2>1 DEF ToSet
<1>5. InLine' = InLine /\ Known' = Known /\ HadTurn' = HadTurn
  BY <1>1 DEF InLine, Known, HadTurn
<1>6. TypeOK'
  BY <1>1, <1>3, <1>4 DEF TypeOK, InLine
<1>7. LineInv' /\ StampInv'
  BY <1>1, <1>5 DEF LineInv, StampInv
<1>8. BatchInv'
  <2> SUFFICES ASSUME NEW i \in Jobs
               PROVE  /\ batch'[i] \subseteq Known
                      /\ ToSet(todo'[i]) \subseteq batch'[i]
                      /\ batch'[i] \subseteq HadTurn \cup ToSet(todo'[i])
    BY <1>1, <1>5 DEF BatchInv
  <2>1. CASE i = j
    BY <1>3, <1>4, <2>1 DEF TypeOK, LineInv
  <2>2. CASE i # j
    BY <1>3, <2>2 DEF TypeOK, BatchInv
  <2>3. QED
    BY <2>1, <2>2
<1>9. QED
  BY <1>6, <1>7, <1>8

(* A SET that succeeds and one that fails.                                 *)
LEMMA TurnTaken ==
  ASSUME NEW j \in Jobs, Turn(j)
  PROVE  /\ UNCHANGED <<now, waiting, pc, stamp, batch, fired, before, entered>>
         /\ HadTurn' = HadTurn \cup {Head(todo[j])}
         /\ todo' = [todo EXCEPT ![j] = Tail(todo[j])] /\ todo[j] # <<>>
         /\ \/ /\ active' = active \cup {Head(todo[j])}
               /\ granted' = granted \cup {Head(todo[j])}
               /\ refused' = refused \ {Head(todo[j])}
            \/ /\ UNCHANGED <<active, granted>>
               /\ refused' = refused \cup ({Head(todo[j])} \ granted)
BY DEF Turn, Activate, ActivationFails, HadTurn, redis, request

LEMMA TurnIInv ==
  ASSUME IInv, NEW j \in Jobs, Turn(j) PROVE IInv'
<1> USE DEF IInv
<1> DEFINE u == Head(todo[j])
<1>1. /\ UNCHANGED <<now, waiting, pc, stamp, batch, fired, before, entered>>
      /\ HadTurn' = HadTurn \cup {u}
      /\ todo' = [todo EXCEPT ![j] = Tail(todo[j])] /\ todo[j] # <<>>
      /\ \/ active' = active \cup {u} /\ granted' = granted \cup {u} /\ refused' = refused \ {u}
         \/ UNCHANGED <<active, granted>> /\ refused' = refused \cup ({u} \ granted)
  BY TurnTaken
<1>2. /\ u \in Users /\ Tail(todo[j]) \in Seq(Users)
      /\ ToSet(todo[j]) = {u} \cup ToSet(Tail(todo[j]))
  BY <1>1, HeadAndTail DEF TypeOK
<1>3. InLine' = InLine /\ Known' = Known /\ u \in Known
  BY <1>1, <1>2 DEF InLine, Known, BatchInv
<1>4. TypeOK'
  BY <1>1, <1>2 DEF TypeOK
<1>5. LineInv' /\ StampInv'
  BY <1>1, <1>3 DEF LineInv, StampInv
<1>6. BatchInv'
  <2> SUFFICES ASSUME NEW i \in Jobs
               PROVE  /\ batch[i] \subseteq Known
                      /\ ToSet(todo'[i]) \subseteq batch[i]
                      /\ batch[i] \subseteq HadTurn' \cup ToSet(todo'[i])
    BY <1>1, <1>3 DEF BatchInv
  <2>1. CASE i = j
    BY <1>1, <1>2, <2>1 DEF TypeOK, BatchInv
  <2>2. CASE i # j
    BY <1>1, <2>2 DEF TypeOK, BatchInv
  <2>3. QED
    BY <2>1, <2>2
<1>7. QED
  BY <1>4, <1>5, <1>6

LEMMA NobodyLeft ==
  ASSUME NEW s \in Seq(Users), s = <<>> PROVE ToSet(s) = {}
BY DEF ToSet

(* By the time of the ZREM every user of the batch has had his turn.       *)
LEMMA RemoveActivatedIInv ==
  ASSUME IInv, NEW j \in Jobs, RemoveActivated(j) PROVE IInv'
<1> USE DEF IInv
<1>1. /\ UNCHANGED <<now, active, pc, stamp, todo, fired, granted, refused, before, entered>>
      /\ waiting' = [v \in Users |-> IF v \in batch[j] THEN Null ELSE waiting[v]]
      /\ batch' = [batch EXCEPT ![j] = {}]
  BY DEF RemoveActivated, Removed, request, history
<1>2. batch[j] \subseteq HadTurn /\ ToSet(todo[j]) = {}
  <2>1. todo[j] = <<>>
    BY DEF RemoveActivated
  <2>2. ToSet(todo[j]) = {}
    BY <2>1, NobodyLeft DEF TypeOK
  <2>3. QED
    BY <2>2 DEF BatchInv
<1>3. InLine' = InLine \ batch[j] /\ Known' = Known /\ HadTurn' = HadTurn
  BY <1>1 DEF InLine, Known, HadTurn, TypeOK
<1>4. TypeOK'
  BY <1>1 DEF TypeOK
<1>5. LineInv' /\ StampInv'
  BY <1>1, <1>2, <1>3 DEF LineInv, StampInv
<1>6. BatchInv'
  BY <1>1, <1>2, <1>3 DEF BatchInv, TypeOK
<1>7. QED
  BY <1>4, <1>5, <1>6

LEMMA CrashJobIInv ==
  ASSUME IInv, NEW j \in Jobs, CrashJob(j) PROVE IInv'
<1> USE DEF IInv
<1>1. /\ UNCHANGED <<now, waiting, active, pc, stamp, fired, granted, refused, before, entered>>
      /\ batch' = [batch EXCEPT ![j] = {}] /\ todo' = [todo EXCEPT ![j] = <<>>]
  BY DEF CrashJob, redis, request, history
<1>2. InLine' = InLine /\ Known' = Known /\ HadTurn' = HadTurn
  BY <1>1 DEF InLine, Known, HadTurn
<1>3. TypeOK'
  BY <1>1 DEF TypeOK
<1>4. LineInv' /\ StampInv'
  BY <1>1, <1>2 DEF LineInv, StampInv
<1>5. BatchInv'
  <2> SUFFICES ASSUME NEW i \in Jobs
               PROVE  /\ batch'[i] \subseteq Known
                      /\ ToSet(todo'[i]) \subseteq batch'[i]
                      /\ batch'[i] \subseteq HadTurn \cup ToSet(todo'[i])
    BY <1>1, <1>2 DEF BatchInv
  <2>1. CASE i = j
    <3>1. batch'[i] = {} /\ todo'[i] = <<>>
      BY <1>1, <2>1 DEF TypeOK
    <3>2. todo'[i] \in Seq(Users)
      BY <1>3 DEF TypeOK
    <3>3. ToSet(todo'[i]) = {}
      BY <3>1, <3>2, NobodyLeft
    <3>4. QED
      BY <3>1, <3>3
  <2>2. CASE i # j
    BY <1>1, <2>2 DEF TypeOK, BatchInv
  <2>3. QED
    BY <2>1, <2>2
<1>6. QED
  BY <1>3, <1>4, <1>5

(* A token ends, by the payment that used it or by its lifetime.           *)
LEMMA EndIInv ==
  ASSUME IInv,
         (\E r \in PayRequests : EndToken(r)) \/ (\E u \in Users : Expire(u))
  PROVE  IInv'
<1> USE RequestUser DEF IInv
<1>1. /\ UNCHANGED <<now, waiting, stamp, batch, todo, fired, granted, refused, before, entered>>
      /\ active' \subseteq active
  BY DEF EndToken, Expire, request, cron, history
<1>2. \/ pc' = pc
      \/ \E r \in PayRequests : pc[r] = "pays" /\ pc' = [pc EXCEPT ![r] = "paid"]
  BY DEF EndToken, Expire, Goto, request
<1>3. InLine' = InLine /\ Known' = Known /\ HadTurn' = HadTurn
  BY <1>1 DEF InLine, Known, HadTurn
<1>4. TypeOK'
  BY <1>1, <1>2 DEF TypeOK, PC, Answered
<1>5. LineInv'
  BY <1>1, <1>2, <1>3 DEF LineInv, TypeOK
<1>6. StampInv' /\ BatchInv'
  BY <1>1, <1>2, <1>3 DEF StampInv, BatchInv, TypeOK
<1>7. QED
  BY <1>4, <1>5, <1>6

LEMMA QuietIInv ==
  ASSUME IInv, NewPeriod \/ Tick \/ UNCHANGED vars PROVE IInv'
<1> USE DEF IInv
<1>1. /\ UNCHANGED <<waiting, active, pc, stamp, batch, todo, granted, refused, before, entered>>
      /\ fired' \subseteq fired /\ now' \in 0 .. MaxTime
  BY TokenQueueAssumption DEF NewPeriod, Tick, vars, redis, request, cron, history, TypeOK
<1>2. InLine' = InLine /\ Known' = Known /\ HadTurn' = HadTurn
  BY <1>1 DEF InLine, Known, HadTurn
<1>3. QED
  BY <1>1, <1>2 DEF TypeOK, LineInv, BatchInv, StampInv

LEMMA NextIInv == IInv /\ [Next]_vars => IInv'
<1> SUFFICES ASSUME IInv, [Next]_vars PROVE IInv'
  OBVIOUS
<1> USE RequestUser
<1>1. ASSUME NEW r \in EnqueueRequests \cup ScanRequests, GetActive(r) \/ GetOrder(r) PROVE IInv'
  BY <1>1, LookIInv
<1>2. ASSUME NEW r \in EnqueueRequests, Add(r) PROVE IInv'
  BY <1>2, AddIInv
<1>3. ASSUME NEW r \in PayRequests, Guard(r) \/ EndToken(r) PROVE IInv'
  BY <1>3, LookIInv, EndIInv
<1>4. ASSUME NEW j \in Jobs, Job(j) \/ CrashJob(j) PROVE IInv'
  BY <1>4, FireIInv, TurnIInv, RemoveActivatedIInv, CrashJobIInv DEF Job
<1>5. CASE NewPeriod \/ Tick \/ UNCHANGED vars
  BY <1>5, QuietIInv
<1>6. ASSUME NEW u \in Users, Expire(u) PROVE IInv'
  BY <1>6, EndIInv
<1>7. QED
  BY <1>1, <1>2, <1>3, <1>4, <1>5, <1>6 DEF Next

LEMMA InductiveInv == Spec => []IInv
BY InitIInv, NextIInv, PTL DEF Spec

-----------------------------------------------------------------------------

(* Every reachable state is well typed.                                    *)
THEOREM TokenTypeCorrect == Spec => []TypeOK
BY InductiveInv, PTL DEF IInv

(* Whoever was put into line stays in it until he is given a token or his  *)
(* SET fails, however many instances read, activate, remove and crash: as  *)
(* long as there is no failed SET, nobody is lost.                         *)
THEOREM OnlyErrorsLose == Spec => [](LostOnlyToErrors /\ (refused = {} => NobodyLost))
<1>1. IInv => LostOnlyToErrors /\ (refused = {} => NobodyLost)
  BY DEF IInv, LineInv, LostOnlyToErrors, NobodyLost, Known, HadTurn
<1>2. QED
  BY <1>1, InductiveInv, PTL

(* Nobody passes the guard of a route who was not put into line.           *)
THEOREM NobodySkips == Spec => []NobodySkipsTheLine
<1>1. IInv => NobodySkipsTheLine
  BY DEF IInv, LineInv, NobodySkipsTheLine, Known
<1>2. QED
  BY <1>1, InductiveInv, PTL

-----------------------------------------------------------------------------
(* The queue implements WaitingLine.  Whoever was put into line and has    *)
(* had no turn stands there with the score he came with, ...               *)
PlaceInv ==
  /\ \A t \in entered : pc[t] = "waits" /\ stamp[t] \in 0 .. MaxTime
  /\ \A t \in entered : UserOf[t] \notin HadTurn => waiting[UserOf[t]] = stamp[t]
  /\ \A t \in EnqueueRequests : before[t] \subseteq entered
  /\ \A t \in EnqueueRequests : pc[t] \in {"idle", "getOrder"} => stamp[t] = Null

(* ... and those he must not overtake precede him in every list of users   *)
(* whose turn comes in some job.                                           *)
Passes(t, e) == UserOf[t] \notin HadTurn /\ stamp[e] < stamp[t] /\ UserOf[e] \notin HadTurn

OrderInv ==
  \A j \in Jobs : \A i \in DOMAIN todo[j] : \A t \in entered : \A e \in before[t] :
    UserOf[t] = todo[j][i] /\ Passes(t, e) =>
      \E k \in DOMAIN todo[j] : k < i /\ todo[j][k] = UserOf[e]

RefInv == IInv /\ PlaceInv /\ OrderInv

LEMMA InitRefInv == Init => RefInv
BY InitIInv, RequestUser DEF RefInv, PlaceInv, OrderInv, Init

(* What a request may do that is not in line yet.                          *)
Moves(t) ==
  \/ pc'[t] = pc[t]
  \/ /\ pc[t] # "waits" /\ pc'[t] # "idle"
     /\ pc'[t] = "getOrder" => pc[t] = "idle"

(* Steps that change neither who is in line, nor what the jobs have read.  *)
LEMMA FrameRefInv ==
  ASSUME RefInv, IInv', UNCHANGED <<waiting, todo, HadTurn, entered>>,
         \/ UNCHANGED <<stamp, before>>
            /\ \A t \in EnqueueRequests : Moves(t)
         \/ \E r \in EnqueueRequests :
              /\ pc[r] = "getOrder" /\ pc' = [pc EXCEPT ![r] = "add"]
              /\ stamp' = [stamp EXCEPT ![r] = now]
              /\ before' = [before EXCEPT ![r] = entered]
  PROVE  RefInv'
<1> USE DEF RefInv
<1>1. entered \subseteq EnqueueRequests
  BY DEF IInv, TypeOK
<1>2. CASE UNCHANGED <<stamp, before>>
            /\ \A t \in EnqueueRequests : Moves(t)
  <2>1. PlaceInv'
    BY <1>1, <1>2 DEF PlaceInv, Moves
  <2>2. OrderInv'
    BY <1>2 DEF OrderInv, Passes
  <2>3. QED
    BY <2>1, <2>2
<1>3. ASSUME NEW r \in EnqueueRequests,
             pc[r] = "getOrder", pc' = [pc EXCEPT ![r] = "add"],
             stamp' = [stamp EXCEPT ![r] = now],
             before' = [before EXCEPT ![r] = entered]
      PROVE  RefInv'
  <2>1. r \notin entered
    BY <1>3 DEF PlaceInv
  <2>2. \A t \in entered : stamp'[t] = stamp[t] /\ before'[t] = before[t] /\ pc'[t] = pc[t]
    BY <1>1, <1>3, <2>1, RequestUser DEF IInv, TypeOK
  <2>3. PlaceInv'
    BY <1>1, <1>3, <2>2, RequestUser DEF PlaceInv, IInv, TypeOK
  <2>4. \A t \in entered : before[t] \subseteq entered
    BY <1>1 DEF PlaceInv
  <2>5. OrderInv'
    BY <2>2, <2>4 DEF OrderInv, Passes
  <2>6. QED
    BY <2>3, <2>5
<1>4. QED
  BY <1>2, <1>3

LEMMA AddRefInv ==
  ASSUME RefInv, IInv', NEW r \in EnqueueRequests, Add(r) PROVE RefInv'
<1> USE RequestUser DEF RefInv
<1> DEFINE u == UserOf[r]
<1>1. /\ UNCHANGED <<HadTurn, todo, batch, stamp, before>>
      /\ pc' = [pc EXCEPT ![r] = "waits"] /\ pc[r] = "add"
      /\ waiting' = [waiting EXCEPT ![u] = IF @ = Null THEN stamp[r] ELSE @]
      /\ entered' = IF waiting[u] = Null /\ u \notin HadTurn THEN entered \cup {r} ELSE entered
  BY DEF Add, AddNX, Goto, cron, HadTurn
<1>2. entered \subseteq EnqueueRequests /\ stamp[r] \in 0 .. MaxTime /\ stamp[r] # Null
  BY <1>1, TokenQueueAssumption DEF IInv, TypeOK, StampInv
<1>3. ASSUME NEW t \in entered', UserOf[t] \notin HadTurn PROVE waiting'[UserOf[t]] = stamp[t]
  <2>1. CASE t \in entered
    <3>1. waiting[UserOf[t]] = stamp[t] /\ stamp[t] # Null /\ UserOf[t] \in Users
      BY <1>2, <1>3, <2>1, TokenQueueAssumption DEF PlaceInv
    <3>2. QED
      BY <1>1, <3>1 DEF IInv, TypeOK
  <2>2. CASE t = r /\ waiting[u] = Null
    BY <1>1, <2>2 DEF IInv, TypeOK
  <2>3. QED
    BY <1>1, <2>1, <2>2
<1>4. PlaceInv'
  <2>1. \A t \in entered' : pc'[t] = "waits" /\ stamp'[t] \in 0 .. MaxTime
    BY <1>1, <1>2 DEF PlaceInv, IInv, TypeOK
  <2>2. \A t \in EnqueueRequests : before'[t] \subseteq entered'
    BY <1>1 DEF PlaceInv
  <2>3. \A t \in EnqueueRequests : pc'[t] \in {"idle", "getOrder"} => stamp'[t] = Null
    BY <1>1 DEF PlaceInv, IInv, TypeOK
  <2>4. QED
    BY <1>1, <1>3, <2>1, <2>2, <2>3 DEF PlaceInv
<1>5. ASSUME NEW j \in Jobs, NEW i \in DOMAIN todo[j], NEW t \in entered', UserOf[t] = todo[j][i],
             UserOf[t] \notin HadTurn
      PROVE  t \in entered
  <2>1. SUFFICES ASSUME t = r, waiting[u] = Null PROVE FALSE
    BY <1>1
  <2>2. u \in ToSet(todo[j])
    BY <1>5, <2>1 DEF ToSet
  <2>3. PICK q \in entered : UserOf[q] = u
    BY <2>2 DEF IInv, BatchInv, Known
  <2>4. u \in InLine
    BY <1>5, <2>1, <2>3 DEF IInv, LineInv
  <2>5. QED
    BY <2>1, <2>4 DEF InLine
<1>6. OrderInv'
  BY <1>1, <1>5 DEF OrderInv, Passes
<1>7. QED
  BY <1>4, <1>6

(* The heart of the matter: what a job reads has nobody in it without all  *)
(* those whose score is smaller.                                           *)
LEMMA FireRefInv ==
  ASSUME RefInv, IInv', NEW j \in Jobs, Fire(j) PROVE RefInv'
<1> USE DEF RefInv
<1>1. UNCHANGED <<waiting, pc, stamp, HadTurn, before, entered>>
  BY DEF Fire, HadTurn, redis, request, history
<1>2. PICK n \in 0 .. Throughput : \E s \in [1 .. n -> InLine] :
        Oldest(s) /\ todo' = [todo EXCEPT ![j] = s]
  BY DEF Fire
<1>3. PICK s \in [1 .. n -> InLine] : Oldest(s) /\ todo' = [todo EXCEPT ![j] = s]
  BY <1>2
<1>4. n \in Nat /\ DOMAIN s = 1 .. n
  BY TokenQueueAssumption
<1>5. PlaceInv'
  BY <1>1 DEF PlaceInv
<1>6. ASSUME NEW i \in DOMAIN s, NEW t \in entered, NEW e \in before[t],
             UserOf[t] = s[i], Passes(t, e)
      PROVE  \E k \in DOMAIN s : k < i /\ s[k] = UserOf[e]
  <2> DEFINE u == UserOf[t]  v == UserOf[e]
  <2>1. t \in EnqueueRequests /\ e \in entered /\ e \in EnqueueRequests
    BY DEF IInv, TypeOK, PlaceInv
  <2>2. waiting[u] = stamp[t] /\ waiting[v] = stamp[e] /\ stamp[t] \in Int /\ stamp[e] \in Int
    BY <1>6, <2>1, TokenQueueAssumption DEF PlaceInv, Passes
  <2>3. v \in InLine
    BY <2>1, <2>2, RequestUser, TokenQueueAssumption DEF InLine
  <2>4. ~Ahead(u, v)
    BY <1>6, <2>2 DEF Ahead, Passes
  <2>5. v \in ToSet(s)
    BY <1>3, <1>6, <2>3, <2>4 DEF Oldest, IsHead
  <2>6. PICK k \in DOMAIN s : s[k] = v
    BY <2>5 DEF ToSet
  <2>7. k # i
    BY <1>6, <2>2, <2>6 DEF Passes
  <2>8. ~(i < k)
    BY <1>3, <1>6, <2>4, <2>6 DEF Oldest, IsHead
  <2>9. QED
    BY <1>4, <2>6, <2>7, <2>8
<1>7. OrderInv'
  <2> SUFFICES ASSUME NEW h \in Jobs, NEW i \in DOMAIN todo'[h], NEW t \in entered, NEW e \in before[t],
                      UserOf[t] = todo'[h][i], Passes(t, e)
               PROVE  \E k \in DOMAIN todo'[h] : k < i /\ todo'[h][k] = UserOf[e]
    BY <1>1 DEF OrderInv, Passes
  <2>1. CASE h = j
    <3>1. todo'[h] = s
      BY <1>3, <2>1 DEF IInv, TypeOK
    <3>2. QED
      BY <1>6, <3>1
  <2>2. CASE h # j
    <3>1. todo'[h] = todo[h]
      BY <1>3, <2>2 DEF IInv, TypeOK
    <3>2. QED
      BY <3>1 DEF OrderInv
  <2>3. QED
    BY <2>1, <2>2
<1>8. QED
  BY <1>5, <1>7

LEMMA TurnRefInv ==
  ASSUME RefInv, IInv', NEW j \in Jobs, Turn(j) PROVE RefInv'
<1> USE DEF RefInv
<1> DEFINE u == Head(todo[j])
<1>1. /\ UNCHANGED <<waiting, pc, stamp, before, entered>>
      /\ HadTurn' = HadTurn \cup {u}
      /\ todo' = [todo EXCEPT ![j] = Tail(todo[j])] /\ todo[j] # <<>>
  BY TurnTaken
<1>2. /\ todo[j] \in Seq(Users) /\ Len(todo[j]) \in Nat \ {0} /\ u = todo[j][1]
      /\ DOMAIN todo[j] = 1 .. Len(todo[j]) /\ DOMAIN Tail(todo[j]) = 1 .. Len(todo[j]) - 1
      /\ \A i \in 1 .. Len(todo[j]) - 1 : Tail(todo[j])[i] = todo[j][i + 1]
  BY <1>1 DEF IInv, TypeOK
<1>3. PlaceInv'
  BY <1>1 DEF PlaceInv
<1>4. OrderInv'
  <2> SUFFICES ASSUME NEW h \in Jobs, NEW i \in DOMAIN todo'[h], NEW t \in entered, NEW e \in before[t],
                      UserOf[t] = todo'[h][i], Passes(t, e), UserOf[e] # u
               PROVE  \E k \in DOMAIN todo'[h] : k < i /\ todo'[h][k] = UserOf[e]
    BY <1>1 DEF OrderInv, Passes
  <2>1. CASE h = j
    <3>1. todo'[h] = Tail(todo[j])
      BY <1>1, <2>1 DEF IInv, TypeOK
    <3>2. i \in 1 .. Len(todo[j]) - 1 /\ i + 1 \in DOMAIN todo[j] /\ todo[j][i + 1] = UserOf[t]
      BY <1>2, <3>1
    <3>3. PICK k \in DOMAIN todo[j] : k < i + 1 /\ todo[j][k] = UserOf[e]
      BY <3>2 DEF OrderInv
    <3>4. k # 1
      BY <1>2, <3>3
    <3>5. k - 1 \in 1 .. Len(todo[j]) - 1 /\ (k - 1) + 1 = k /\ k - 1 < i
      BY <1>2, <3>2, <3>3, <3>4
    <3>6. Tail(todo[j])[k - 1] = UserOf[e]
      BY <1>2, <3>3, <3>5
    <3>7. QED
      BY <1>2, <3>1, <3>5, <3>6
  <2>2. CASE h # j
    <3>1. todo'[h] = todo[h]
      BY <1>1, <2>2 DEF IInv, TypeOK
    <3>2. QED
      BY <3>1 DEF OrderInv
  <2>3. QED
    BY <2>1, <2>2
<1>5. QED
  BY <1>3, <1>4

LEMMA RemoveActivatedRefInv ==
  ASSUME RefInv, IInv', NEW j \in Jobs, RemoveActivated(j) PROVE RefInv'
<1> USE DEF RefInv
<1>1. /\ UNCHANGED <<pc, stamp, todo, HadTurn, before, entered>>
      /\ waiting' = [v \in Users |-> IF v \in batch[j] THEN Null ELSE waiting[v]]
  BY DEF RemoveActivated, Removed, HadTurn, request, history
<1>2. batch[j] \subseteq HadTurn
  <2>1. todo[j] = <<>>
    BY DEF RemoveActivated
  <2>2. ToSet(todo[j]) = {}
    BY <2>1, NobodyLeft DEF IInv, TypeOK
  <2>3. QED
    BY <2>2 DEF IInv, BatchInv
<1>3. \A t \in entered : UserOf[t] \notin HadTurn => waiting'[UserOf[t]] = waiting[UserOf[t]]
  BY <1>1, <1>2, RequestUser DEF IInv, TypeOK
<1>4. PlaceInv'
  BY <1>1, <1>3 DEF PlaceInv
<1>5. OrderInv'
  BY <1>1 DEF OrderInv, Passes
<1>6. QED
  BY <1>4, <1>5

LEMMA CrashJobRefInv ==
  ASSUME RefInv, IInv', NEW j \in Jobs, CrashJob(j) PROVE RefInv'
<1> USE DEF RefInv
<1>1. /\ UNCHANGED <<waiting, pc, stamp, HadTurn, before, entered>>
      /\ todo' = [todo EXCEPT ![j] = <<>>]
  BY DEF CrashJob, HadTurn, redis, request, history
<1>2. PlaceInv'
  BY <1>1 DEF PlaceInv
<1>3. OrderInv'
  <2> SUFFICES ASSUME NEW h \in Jobs, NEW i \in DOMAIN todo'[h], NEW t \in entered, NEW e \in before[t],
                      UserOf[t] = todo'[h][i], Passes(t, e)
               PROVE  \E k \in DOMAIN todo'[h] : k < i /\ todo'[h][k] = UserOf[e]
    BY <1>1 DEF OrderInv, Passes
  <2>1. todo'[h] = todo[h] \/ todo'[h] = <<>>
    BY <1>1 DEF IInv, TypeOK
  <2>2. todo'[h] # <<>>
    OBVIOUS
  <2>3. QED
    BY <2>1, <2>2 DEF OrderInv
<1>4. QED
  BY <1>2, <1>3

LEMMA RequestRefInv ==
  ASSUME RefInv, IInv', NEW r \in Requests,
         GetActive(r) \/ GetOrder(r) \/ Guard(r) \/ (r \in PayRequests /\ EndToken(r))
  PROVE  RefInv'
<1>1. UNCHANGED <<waiting, todo, HadTurn, entered>>
  BY DEF GetActive, GetOrder, Guard, EndToken, HadTurn, redis, cron, history
<1>2. pc \in [Requests -> PC] /\ EnqueueRequests \subseteq Requests
  BY RequestUser DEF RefInv, IInv, TypeOK
<1>3. CASE GetOrder(r) /\ ~UNCHANGED <<stamp, before>>
  BY <1>1, <1>3, FrameRefInv DEF GetOrder, Goto
<1>4. CASE UNCHANGED <<stamp, before>>
  <2>1. PICK next \in PC \ {"idle"} : /\ pc' = [pc EXCEPT ![r] = next]
                                      /\ next = "getOrder" => pc[r] = "idle"
                                      /\ pc[r] # "waits"
    BY DEF GetActive, GetOrder, Guard, EndToken, Goto, PC, Answered
  <2>2. \A t \in EnqueueRequests : Moves(t)
    BY <1>2, <2>1 DEF Moves
  <2>3. QED
    BY <1>1, <1>4, <2>2, FrameRefInv DEF RefInv
<1>5. QED
  BY <1>3, <1>4 DEF GetActive, Guard, EndToken, history

LEMMA QuietRefInv ==
  ASSUME RefInv, IInv', NewPeriod \/ Tick \/ (\E u \in Users : Expire(u)) \/ UNCHANGED vars
  PROVE  RefInv'
<1>1. UNCHANGED <<waiting, todo, HadTurn, entered, stamp, before, pc>>
  BY DEF NewPeriod, Tick, Expire, HadTurn, vars, redis, request, cron, history
<1>2. QED
  BY <1>1, FrameRefInv DEF Moves

LEMMA NextRefInv == RefInv /\ IInv' /\ [Next]_vars => RefInv'
<1> SUFFICES ASSUME RefInv, IInv', [Next]_vars PROVE RefInv'
  OBVIOUS
<1> USE RequestUser
<1>1. ASSUME NEW r \in EnqueueRequests \cup ScanRequests, GetActive(r) \/ GetOrder(r) PROVE RefInv'
  BY <1>1, RequestRefInv
<1>2. ASSUME NEW r \in EnqueueRequests, Add(r) PROVE RefInv'
  BY <1>2, AddRefInv
<1>3. ASSUME NEW r \in PayRequests, Guard(r) \/ EndToken(r) PROVE RefInv'
  BY <1>3, RequestRefInv
<1>4. ASSUME NEW j \in Jobs, Job(j) \/ CrashJob(j) PROVE RefInv'
  BY <1>4, FireRefInv, TurnRefInv, RemoveActivatedRefInv, CrashJobRefInv DEF Job
<1>5. CASE NewPeriod \/ Tick \/ (\E u \in Users : Expire(u)) \/ UNCHANGED vars
  BY <1>5, QuietRefInv
<1>6. QED
  BY <1>1, <1>2, <1>3, <1>4, <1>5 DEF Next

LEMMA Simulation == RefInv /\ [Next]_vars => [Queue!Next]_Queue!lineVars
<1> DEFINE admitted == {r \in entered : UserOf[r] \in HadTurn}
<1> SUFFICES ASSUME RefInv, [Next]_vars
             PROVE  Queue!Next \/ UNCHANGED <<stamp, before, entered, admitted>>
  BY DEF Queue!lineVars
<1> USE RequestUser
<1>1. entered \subseteq EnqueueRequests
  BY DEF RefInv, IInv, TypeOK
<1>2. ASSUME NEW r \in EnqueueRequests \cup ScanRequests, GetOrder(r), ~UNCHANGED <<stamp, before>>
      PROVE  Queue!Next
  <2>1. /\ r \in EnqueueRequests /\ pc[r] = "getOrder" /\ now \in 0 .. MaxTime
        /\ stamp' = [stamp EXCEPT ![r] = now]
        /\ before' = [before EXCEPT ![r] = entered]
        /\ UNCHANGED <<entered, HadTurn>>
    BY <1>2 DEF GetOrder, HadTurn, RefInv, IInv, TypeOK
  <2>2. stamp[r] = Null
    BY <2>1 DEF RefInv, PlaceInv
  <2>3. Queue!Arrive(r, now)
    BY <2>1, <2>2 DEF Queue!Arrive
  <2>4. QED
    BY <2>1, <2>3 DEF Queue!Next
<1>3. ASSUME NEW r \in EnqueueRequests, Add(r)
      PROVE  Queue!Next \/ UNCHANGED <<stamp, before, entered, admitted>>
  <2>1. CASE waiting[UserOf[r]] = Null /\ UserOf[r] \notin HadTurn
    <3>1. /\ entered' = entered \cup {r} /\ UNCHANGED <<stamp, before, HadTurn>>
          /\ stamp[r] # Null
      BY <1>3, <2>1, TokenQueueAssumption DEF Add, HadTurn, RefInv, IInv, StampInv
    <3>2. admitted' = admitted
      BY <2>1, <3>1
    <3>3. Queue!Enter(r)
      BY <3>1, <3>2 DEF Queue!Enter
    <3>4. QED
      BY <3>3 DEF Queue!Next
  <2>2. CASE ~(waiting[UserOf[r]] = Null /\ UserOf[r] \notin HadTurn)
    BY <1>3, <2>2 DEF Add, HadTurn
  <2>3. QED
    BY <2>1, <2>2
<1>4. ASSUME NEW j \in Jobs, Turn(j)
      PROVE  Queue!Next \/ UNCHANGED <<stamp, before, entered, admitted>>
  <2> DEFINE u == Head(todo[j])  S == {t \in entered : UserOf[t] = u}
  <2>1. /\ UNCHANGED <<stamp, before, entered>> /\ HadTurn' = HadTurn \cup {u}
        /\ todo[j] # <<>>
    BY <1>4, TurnTaken
  <2>2. CASE u \in HadTurn
    BY <2>1, <2>2
  <2>3. CASE u \notin HadTurn
    <3>1. 1 \in DOMAIN todo[j] /\ todo[j][1] = u /\ DOMAIN todo[j] \subseteq Nat \ {0}
      BY <2>1 DEF RefInv, IInv, TypeOK
    <3>2. ASSUME NEW t \in S, NEW e \in before[t], stamp[e] < stamp[t]
          PROVE  e \in admitted
      <4>1. ~\E k \in DOMAIN todo[j] : k < 1 /\ todo[j][k] = UserOf[e]
        BY <3>1
      <4>2. ~Passes(t, e)
        BY <3>1, <3>2, <4>1 DEF RefInv, OrderInv
      <4>3. e \in entered
        BY <1>1 DEF RefInv, PlaceInv
      <4>4. QED
        BY <2>3, <3>2, <4>2, <4>3 DEF Passes
    <3>3. admitted' = admitted \cup S
      BY <2>1
    <3>4. /\ S \in SUBSET EnqueueRequests /\ S \subseteq entered
          /\ \A t \in S : \A e \in before[t] : stamp[e] < stamp[t] => e \in admitted \cup S
          /\ admitted' = admitted \cup S
          /\ UNCHANGED <<stamp, before, entered>>
      BY <1>1, <2>1, <3>2, <3>3
    <3>5. \E T \in SUBSET EnqueueRequests :
             /\ T \subseteq entered
             /\ \A t \in T : \A e \in before[t] : stamp[e] < stamp[t] => e \in admitted \cup T
             /\ admitted' = admitted \cup T
             /\ UNCHANGED <<stamp, before, entered>>
      <4> HIDE DEF S, admitted
      <4> QED
        BY <3>4
    <3>6. QED
      BY <3>5, Zenon DEF Queue!Next, Queue!Admit
  <2>4. QED
    BY <2>2, <2>3
<1>5. QED
  <2>1. CASE UNCHANGED <<stamp, before, entered, HadTurn>>
    BY <2>1
  <2>2. CASE ~UNCHANGED <<stamp, before, entered, HadTurn>>
    <3>1. ASSUME NEW r \in EnqueueRequests \cup ScanRequests, GetActive(r) \/ GetOrder(r)
          PROVE  Queue!Next
      BY <1>2, <2>2, <3>1 DEF GetActive, GetOrder, HadTurn, history
    <3>2. ASSUME NEW r \in PayRequests, Guard(r) \/ EndToken(r) PROVE FALSE
      BY <2>2, <3>2 DEF Guard, EndToken, HadTurn, history
    <3>3. ASSUME NEW j \in Jobs, Fire(j) \/ RemoveActivated(j) \/ CrashJob(j) PROVE FALSE
      BY <2>2, <3>3 DEF Fire, RemoveActivated, CrashJob, HadTurn, request, history
    <3>4. ~(NewPeriod \/ Tick \/ (\E u \in Users : Expire(u)) \/ UNCHANGED vars)
      BY <2>2 DEF NewPeriod, Tick, Expire, HadTurn, vars, request, history
    <3>5. \/ \E r \in EnqueueRequests \cup ScanRequests : GetActive(r) \/ GetOrder(r)
          \/ \E r \in EnqueueRequests : Add(r)
          \/ \E j \in Jobs : Turn(j)
      BY <3>2, <3>3, <3>4 DEF Next, Job
    <3>6. CASE \E r \in EnqueueRequests \cup ScanRequests : GetActive(r) \/ GetOrder(r)
      BY <3>1, <3>6
    <3>7. CASE \E r \in EnqueueRequests : Add(r)
      BY <1>3, <3>7
    <3>8. CASE \E j \in Jobs : Turn(j)
      BY <1>4, <3>8
    <3>9. QED
      BY <3>5, <3>6, <3>7, <3>8
  <2>3. QED
    BY <2>1, <2>2

(* Whatever the instances do and whichever SET fails, nobody who was in    *)
(* line when a later one read the clock has his turn after him: the queue  *)
(* implements WaitingLine.                                                 *)
THEOREM FirstInFirstOut == Spec => ImplementsWaitingLine
<1>1. Init => Queue!Init
  BY DEF Init, Queue!Init
<1>2. Init => RefInv
  BY InitRefInv
<1>3. QED
  BY <1>1, <1>2, InductiveInv, NextRefInv, Simulation, PTL
  DEF Spec, ImplementsWaitingLine, Queue!Spec

(* When a user has been given a token, so has everybody who was in line    *)
(* before his request read the clock, and read it earlier, unless a SET    *)
(* has failed for that user.                                               *)
OvertakenOnlyByErrors ==
  \A t \in entered : \A e \in before[t] :
    UserOf[t] \in granted /\ stamp[e] < stamp[t] => UserOf[e] \in granted \cup refused

(* Nobody is overtaken unless his SET fails: what TokenQueue inherits from *)
(* WaitingLine, said of users and their tokens.                            *)
THEOREM NobodyOvertaken == Spec => []OvertakenOnlyByErrors
<1>1. Null \notin 0 .. MaxTime
  BY TokenQueueAssumption
<1>2. Queue!Spec => []Queue!NoOvertaking
  BY <1>1, Queue!NobodyIsOvertaken
<1>3. Queue!NoOvertaking => OvertakenOnlyByErrors
  BY DEF Queue!NoOvertaking, OvertakenOnlyByErrors, HadTurn
<1>4. QED
  BY <1>2, <1>3, FirstInFirstOut, PTL DEF ImplementsWaitingLine

-----------------------------------------------------------------------------
(* Throughput.  Each job that runs in a period brings at most one batch of *)
(* users to those let in or still on the list of some job; a period ends   *)
(* when the lists are empty.                                               *)

Listed == UNION {ToSet(todo[j]) : j \in Jobs}

BatchesInv ==
  /\ IsFiniteSet(fired) /\ IsFiniteSet(grants \cup Listed)
  /\ Cardinality(grants \cup Listed) <= Throughput * Cardinality(fired)

LEMMA UsersOfList ==
  ASSUME NEW n \in Nat, NEW S, NEW s \in [1 .. n -> S]
  PROVE  IsFiniteSet(ToSet(s)) /\ Cardinality(ToSet(s)) <= n
<1>1. IsFiniteSet(1 .. n) /\ Cardinality(1 .. n) = n
  BY FS_Interval
<1>2. s \in Surjection(1 .. n, ToSet(s))
  BY DEF Surjection, ToSet
<1>3. QED
  BY <1>1, <1>2, FS_Surjection

LEMMA EmptyList == ToSet(<<>>) = {}
<1>1. <<>> \in Seq(Users)
  OBVIOUS
<1>2. QED
  BY <1>1, NobodyLeft

(* Steps that fire no job and put nobody on a list.                        *)
LEMMA BatchesKept ==
  ASSUME BatchesInv, fired' = fired, (grants \cup Listed)' \subseteq grants \cup Listed
  PROVE  BatchesInv'
<1>1. /\ IsFiniteSet((grants \cup Listed)')
      /\ Cardinality((grants \cup Listed)') <= Cardinality(grants \cup Listed)
  BY FS_Subset DEF BatchesInv
<1>2. /\ Cardinality((grants \cup Listed)') \in Nat /\ Cardinality(grants \cup Listed) \in Nat
      /\ Cardinality(fired) \in Nat /\ Throughput \in Nat
  BY <1>1, FS_CardinalityType, TokenQueueAssumption DEF BatchesInv
<1>3. QED
  BY <1>1, <1>2 DEF BatchesInv

LEMMA FireBatches ==
  ASSUME IInv, BatchesInv, CountNext, NEW j \in Jobs, Fire(j)
  PROVE  BatchesInv'
<1>1. PICK n \in 0 .. Throughput : \E s \in [1 .. n -> InLine] : todo' = [todo EXCEPT ![j] = s]
  BY DEF Fire
<1>2. PICK s \in [1 .. n -> InLine] : todo' = [todo EXCEPT ![j] = s]
  BY <1>1
<1>3. n \in Nat /\ Throughput \in Nat /\ n <= Throughput
  BY TokenQueueAssumption
<1>4. IsFiniteSet(ToSet(s)) /\ Cardinality(ToSet(s)) <= Throughput /\ Cardinality(ToSet(s)) \in Nat
  <2>1. IsFiniteSet(ToSet(s)) /\ Cardinality(ToSet(s)) <= n
    BY <1>3, UsersOfList
  <2>2. Cardinality(ToSet(s)) \in Nat
    BY <2>1, FS_CardinalityType
  <2>3. QED
    BY <1>3, <2>1, <2>2
<1>5. fired' = fired \cup {j} /\ j \notin fired /\ grants' \subseteq grants
  BY DEF Fire, CountNext, history
<1>6. (grants \cup Listed)' \subseteq (grants \cup Listed) \cup ToSet(s)
  <2>1. \A i \in Jobs : todo'[i] = todo[i] \/ todo'[i] = s
    BY <1>2 DEF IInv, TypeOK
  <2>2. Listed' \subseteq Listed \cup ToSet(s)
    BY <2>1 DEF Listed
  <2>3. QED
    BY <1>5, <2>2
<1>7. /\ IsFiniteSet((grants \cup Listed) \cup ToSet(s))
      /\ Cardinality((grants \cup Listed) \cup ToSet(s))
           = Cardinality(grants \cup Listed) + Cardinality(ToSet(s))
               - Cardinality((grants \cup Listed) \cap ToSet(s))
  BY <1>4, FS_Union DEF BatchesInv
<1>8. IsFiniteSet((grants \cup Listed) \cap ToSet(s))
  <2>1. (grants \cup Listed) \cap ToSet(s) \in SUBSET ToSet(s)
    OBVIOUS
  <2>2. QED
    BY <1>4, <2>1, FS_Subset
<1>9. /\ IsFiniteSet((grants \cup Listed)')
      /\ Cardinality((grants \cup Listed)') <= Cardinality((grants \cup Listed) \cup ToSet(s))
  BY <1>6, <1>7, FS_Subset
<1>10. IsFiniteSet(fired') /\ Cardinality(fired') = Cardinality(fired) + 1
  BY <1>5, FS_AddElement DEF BatchesInv
<1>11. /\ Cardinality(fired) \in Nat /\ Cardinality(grants \cup Listed) \in Nat
       /\ Cardinality((grants \cup Listed)') \in Nat
       /\ Cardinality((grants \cup Listed) \cap ToSet(s)) \in Nat
  BY <1>8, <1>9, FS_CardinalityType DEF BatchesInv
<1>12. Cardinality((grants \cup Listed)') <= Throughput * Cardinality(fired) + Throughput
  BY <1>3, <1>4, <1>7, <1>9, <1>11 DEF BatchesInv
<1>13. Throughput * Cardinality(fired') = Throughput * Cardinality(fired) + Throughput
  BY <1>3, <1>10, <1>11
<1>14. QED
  BY <1>9, <1>10, <1>12, <1>13 DEF BatchesInv

LEMMA TurnBatches ==
  ASSUME IInv, BatchesInv, CountNext, NEW j \in Jobs, Turn(j)
  PROVE  BatchesInv'
<1> DEFINE u == Head(todo[j])
<1>1. /\ fired' = fired /\ todo' = [todo EXCEPT ![j] = Tail(todo[j])]
      /\ grants' \subseteq grants \cup {u} /\ todo[j] # <<>>
  BY TurnTaken DEF CountNext
<1>2. ToSet(todo[j]) = {u} \cup ToSet(Tail(todo[j]))
  BY <1>1, HeadAndTail DEF IInv, TypeOK
<1>3. u \in Listed
  BY <1>2 DEF Listed
<1>4. Listed' \subseteq Listed
  <2>1. \A i \in Jobs : ToSet(todo'[i]) \subseteq ToSet(todo[i])
    BY <1>1, <1>2 DEF IInv, TypeOK
  <2>2. QED
    BY <2>1 DEF Listed
<1>5. QED
  BY <1>1, <1>3, <1>4, BatchesKept

LEMMA CrashJobBatches ==
  ASSUME IInv, BatchesInv, CountNext, NEW j \in Jobs, CrashJob(j)
  PROVE  BatchesInv'
<1>1. /\ fired' = fired /\ grants' \subseteq grants
      /\ todo' = [todo EXCEPT ![j] = <<>>]
  BY DEF CrashJob, CountNext, history
<1>2. ASSUME NEW i \in Jobs PROVE ToSet(todo'[i]) \subseteq ToSet(todo[i])
  <2>1. todo'[i] = todo[i] \/ todo'[i] = <<>>
    BY <1>1 DEF IInv, TypeOK
  <2>2. QED
    BY <2>1, EmptyList
<1>3. Listed' \subseteq Listed
  BY <1>2 DEF Listed
<1>4. QED
  BY <1>1, <1>3, BatchesKept

LEMMA NewPeriodBatches ==
  ASSUME IInv, BatchesInv, CountNext, NewPeriod
  PROVE  BatchesInv'
<1>1. fired' = {} /\ grants' = {} /\ todo' = todo /\ \A j \in Jobs : batch[j] = {}
  BY DEF NewPeriod, CountNext, Idle
<1>2. \A j \in Jobs : ToSet(todo'[j]) = {}
  BY <1>1 DEF IInv, BatchInv
<1>3. (grants \cup Listed)' = {}
  BY <1>1, <1>2 DEF Listed
<1>4. IsFiniteSet({}) /\ Cardinality({}) = 0 /\ Throughput * 0 = 0
  BY FS_EmptySet, TokenQueueAssumption
<1>5. QED
  BY <1>1, <1>3, <1>4 DEF BatchesInv

LEMMA NextBatches == IInv /\ BatchesInv /\ [CountNext]_<<vars, grants>> => BatchesInv'
<1> SUFFICES ASSUME IInv, BatchesInv, [CountNext]_<<vars, grants>> PROVE BatchesInv'
  OBVIOUS
<1>1. ASSUME CountNext, UNCHANGED <<todo, fired, granted>> PROVE BatchesInv'
  BY <1>1, BatchesKept DEF CountNext, Listed
<1>2. CASE UNCHANGED <<vars, grants>>
  BY <1>2, BatchesKept DEF vars, cron, Listed
<1>3. ASSUME CountNext,
             NEW r \in EnqueueRequests \cup ScanRequests, GetActive(r) \/ GetOrder(r)
      PROVE  BatchesInv'
  BY <1>1, <1>3 DEF GetActive, GetOrder, cron, history
<1>4. ASSUME CountNext, NEW r \in EnqueueRequests, Add(r) PROVE BatchesInv'
  BY <1>1, <1>4 DEF Add, cron
<1>5. ASSUME CountNext, NEW r \in PayRequests, Guard(r) \/ EndToken(r) PROVE BatchesInv'
  BY <1>1, <1>5 DEF Guard, EndToken, cron, history
<1>6. ASSUME CountNext, NEW j \in Jobs, RemoveActivated(j) PROVE BatchesInv'
  BY <1>1, <1>6 DEF RemoveActivated, history
<1>7. ASSUME CountNext, Tick \/ (\E u \in Users : Expire(u)) PROVE BatchesInv'
  BY <1>1, <1>7 DEF Tick, Expire, cron, history
<1>8. CASE CountNext
  BY <1>3, <1>4, <1>5, <1>6, <1>7, <1>8, FireBatches, TurnBatches, CrashJobBatches,
     NewPeriodBatches DEF CountNext, Next, Job
<1>9. QED
  BY <1>2, <1>8

LEMMA BatchesInductive == CountSpec => [](IInv /\ BatchesInv)
<1>1. CountInit => Init /\ BatchesInv
  <2> SUFFICES ASSUME CountInit PROVE BatchesInv
    BY DEF CountInit
  <2>1. \A j \in Jobs : ToSet(todo[j]) = {}
    BY EmptyList DEF CountInit, Init
  <2>2. grants \cup Listed = {} /\ fired = {}
    BY <2>1 DEF CountInit, Init, Listed
  <2>3. IsFiniteSet({}) /\ Cardinality({}) = 0 /\ Throughput * 0 = 0
    BY FS_EmptySet, TokenQueueAssumption
  <2>4. QED
    BY <2>2, <2>3 DEF BatchesInv
<1>2. [CountNext]_<<vars, grants>> => [Next]_vars
  BY DEF CountNext
<1>3. Init => IInv
  BY InitIInv
<1>4. IInv /\ [Next]_vars => IInv'
  BY NextIInv
<1>5. IInv /\ BatchesInv /\ [CountNext]_<<vars, grants>> => BatchesInv'
  BY NextBatches
<1>6. QED
  BY <1>1, <1>2, <1>3, <1>4, <1>5, PTL DEF CountSpec

LEMMA GrantsAreFew ==
  ASSUME BatchesInv
  PROVE  Cardinality(grants) \in Nat /\ Cardinality(grants) <= Throughput * Cardinality(fired)
<1>1. grants \in SUBSET (grants \cup Listed)
  OBVIOUS
<1>2. IsFiniteSet(grants) /\ Cardinality(grants) <= Cardinality(grants \cup Listed)
  BY <1>1, FS_Subset DEF BatchesInv
<1>3. /\ Cardinality(grants) \in Nat /\ Cardinality(grants \cup Listed) \in Nat
      /\ Cardinality(fired) \in Nat /\ Throughput \in Nat
  BY <1>2, FS_CardinalityType, TokenQueueAssumption DEF BatchesInv
<1>4. QED
  BY <1>2, <1>3 DEF BatchesInv

(* In a period the service lets in one throughput for each instance whose  *)
(* cron has run, and no more: two instances that read the same users, or   *)
(* crash half-way, add nothing to it.                                      *)
THEOREM OneBatchForEach == CountSpec => []OneBatchEach
<1>1. BatchesInv => OneBatchEach
  BY GrantsAreFew DEF OneBatchEach
<1>2. QED
  BY <1>1, BatchesInductive, PTL

(* The documents are right of one instance, which is all that the waiting  *)
(* times told to the users count on: the throughput run needs a second.    *)
THEOREM OneInstanceKeepsThroughput ==
  ASSUME NEW job, Jobs = {job} PROVE CountSpec => []ThroughputKept
<1>1. IInv /\ BatchesInv => ThroughputKept
  <2> SUFFICES ASSUME IInv, BatchesInv PROVE ThroughputKept
    OBVIOUS
  <2>1. IsFiniteSet({job}) /\ Cardinality({job}) = 1
    BY FS_Singleton
  <2>2. fired \in SUBSET {job}
    BY DEF IInv, TypeOK
  <2>3. IsFiniteSet(fired) /\ Cardinality(fired) <= 1
    BY <2>1, <2>2, FS_Subset
  <2>4. Cardinality(fired) \in {0, 1} /\ Throughput \in Nat
    BY <2>3, FS_CardinalityType, TokenQueueAssumption
  <2>5. Throughput * Cardinality(fired) <= Throughput
    BY <2>4
  <2>6. QED
    BY <2>4, <2>5, GrantsAreFew DEF ThroughputKept
<1>2. QED
  BY <1>1, BatchesInductive, PTL
=============================================================================
