---------------------------- MODULE OutboxProofs ----------------------------
(***************************************************************************)
(* Proofs about Outbox, for any number of events, topics, groups and       *)
(* instances, with any of the consumers bound, and any bound on copies.    *)
(***************************************************************************)
EXTENDS Outbox, FiniteSetTheorems, TLAPS

(* A topic holds its own events, and a handler is busy only while its      *)
(* group has a message to consume.                                         *)
MessageInv ==
  /\ \A t \in Topics : \A i \in DOMAIN log[t] : TopicOf[log[t][i]] = t
  /\ \A g \in Groups, t \in Topics, c \in AllConsumers :
       step[g][t][c] # "idle" => position[g][t] < Len(log[t])

(* Nothing is sent before its row is committed, ...                        *)
RowInv ==
  /\ \A e \in Events : status[e] = "none" =>
       e \notin due /\ inflight[e] = 0 /\ ~InLog(e) /\ \A j \in Jobs : e \notin found[j]
  /\ EventIsKept

(* ... and the handler that has inserted the row of table processed is the *)
(* only one about to call.                                                 *)
Calling(g, t) == step[g][t]["dataPlatform"] = "call"

CallInv ==
  /\ \A e \in Events : processed[e] = "none" => calls[e] = 0
  /\ SuccessIsCalled
  /\ \A g \in Groups, t \in Topics : Calling(g, t) =>
       processed[Message(g, t)] = "RECEIVED" /\ calls[Message(g, t)] = 0
  /\ \A g \in Groups, t \in Topics :
       step[g][t]["dataPlatform"] = "toSuccess" => calls[Message(g, t)] = 1
  /\ \A g, h \in Groups, t, v \in Topics :
       Calling(g, t) /\ Calling(h, v) /\ Message(g, t) = Message(h, v) => g = h /\ t = v

IInv == TypeOK /\ MessageInv /\ RowInv /\ CallInv

LEMMA InitIInv == Init => IInv
<1> SUFFICES ASSUME Init PROVE IInv
  OBVIOUS
<1>1. \A g \in Groups, t \in Topics, c \in AllConsumers : step[g][t][c] = "idle"
  BY DEF Init
<1>2. \A t \in Topics : log[t] = <<>> /\ DOMAIN log[t] = {}
  BY DEF Init
<1>3. \A e \in Events : ~InLog(e)
  BY <1>2, OutboxAssumption DEF InLog, Logged
<1>4. TypeOK
  BY OutboxAssumption DEF Init, TypeOK, Steps
<1>5. MessageInv
  BY <1>1, <1>2 DEF MessageInv
<1>6. RowInv
  BY <1>3 DEF Init, RowInv, EventIsKept
<1>7. CallInv
  <2>1. \A g \in Groups, t \in Topics : step[g][t]["dataPlatform"] = "idle"
    BY <1>1 DEF AllConsumers
  <2>2. QED
    BY <2>1 DEF Init, CallInv, Calling, SuccessIsCalled
<1>8. QED
  BY <1>4, <1>5, <1>6, <1>7 DEF IInv

(* The message a busy handler works on is an event of its topic's log.     *)
LEMMA MessageLogged ==
  ASSUME TypeOK, MessageInv, NEW g \in Groups, NEW t \in Topics, NEW c \in AllConsumers,
         step[g][t][c] # "idle"
  PROVE  Message(g, t) \in Events /\ InLog(Message(g, t))
<1> DEFINE i == position[g][t] + 1
<1>1. position[g][t] \in Nat /\ log[t] \in Seq(Events) /\ position[g][t] < Len(log[t])
  BY DEF TypeOK, MessageInv
<1>2. i \in DOMAIN log[t] /\ log[t][i] \in Events
  BY <1>1
<1>3. TopicOf[log[t][i]] = t
  BY <1>2 DEF MessageInv
<1>4. QED
  BY <1>2, <1>3 DEF Message, InLog, Logged

(* Emitting keeps within the bound.                                        *)
LEMMA EmitBound ==
  ASSUME TypeOK, NEW S \in SUBSET Events, Emit(S)
  PROVE  /\ inflight' \in [Events -> 0 .. MaxCopies]
         /\ \A e \in Events \ S : inflight'[e] = inflight[e]
<1>1. ASSUME NEW e \in S PROVE inflight[e] + 1 \in 0 .. MaxCopies
  <2>1. log[TopicOf[e]] \in Seq(Events)
    BY OutboxAssumption DEF TypeOK
  <2>2. Logged(e) \in SUBSET (1 .. Len(log[TopicOf[e]]))
    BY <2>1 DEF Logged
  <2>3. IsFiniteSet(1 .. Len(log[TopicOf[e]]))
    BY <2>1, FS_Interval
  <2>4. Cardinality(Logged(e)) \in Nat
    BY <2>2, <2>3, FS_Subset, FS_CardinalityType
  <2>5. inflight[e] \in 0 .. MaxCopies /\ Copies(e) < MaxCopies
    BY DEF TypeOK, Emit
  <2>6. QED
    BY <2>4, <2>5, OutboxAssumption DEF Copies
<1>2. QED
  BY <1>1 DEF Emit, TypeOK

-----------------------------------------------------------------------------
(* Each action preserves the invariant.                                    *)

(* Steps that leave the calls alone and bring nobody closer to one.        *)
LEMMA CallFrame ==
  ASSUME CallInv, UNCHANGED <<processed, calls>>,
         \A h \in Groups, v \in Topics : step'[h][v]["dataPlatform"] \in {"call", "toSuccess"} =>
           /\ step'[h][v]["dataPlatform"] = step[h][v]["dataPlatform"]
           /\ Message(h, v)' = Message(h, v)
  PROVE  CallInv'
<1>1. \A h \in Groups, v \in Topics :
        Calling(h, v)' => Calling(h, v) /\ Message(h, v)' = Message(h, v)
  BY DEF Calling
<1>2. \A h \in Groups, v \in Topics :
        Calling(h, v)' => processed[Message(h, v)'] = "RECEIVED" /\ calls[Message(h, v)'] = 0
  BY <1>1 DEF CallInv
<1>3. \A h \in Groups, v \in Topics :
        step'[h][v]["dataPlatform"] = "toSuccess" => calls[Message(h, v)'] = 1
  BY DEF CallInv
<1>4. \A h, k \in Groups, v, w \in Topics :
        Calling(h, v)' /\ Calling(k, w)' /\ Message(h, v)' = Message(k, w)' => h = k /\ v = w
  BY <1>1 DEF CallInv
<1>5. QED
  BY <1>2, <1>3, <1>4 DEF CallInv, SuccessIsCalled

(* Sending and time touch neither the log nor the consumers.               *)
LEMMA SenderIInv ==
  ASSUME IInv, UNCHANGED <<log, position, step, platform>>,
         TypeOK',
         \A e \in Events : status'[e] = "none" =>
           e \notin due' /\ inflight'[e] = 0 /\ status[e] = "none" /\ \A j \in Jobs : e \notin found'[j],
         \A e \in Events : status'[e] \in {"PUBLISHED", "removed"} =>
                             status[e] \in {"PUBLISHED", "removed"}
  PROVE  IInv'
<1> USE DEF IInv
<1>1. \A e \in Events : InLog(e)' <=> InLog(e)
  BY DEF InLog, Logged
<1>2. MessageInv'
  BY DEF MessageInv
<1>3. RowInv'
  BY <1>1 DEF RowInv, EventIsKept
<1>4. CallInv'
  BY CallFrame DEF Message, platform
<1>5. QED
  BY <1>2, <1>3, <1>4

LEMMA SendIInv ==
  ASSUME IInv, NEW e \in Events,
         Commit(e) \/ Publish(e) \/ CrashBeforePublish(e) \/ Lose(e) \/ TimePasses(e)
  PROVE  IInv'
<1> USE DEF IInv
<1>1. UNCHANGED <<log, position, step, platform>>
  BY DEF Commit, Publish, CrashBeforePublish, Lose, TimePasses, sending
<1>2. CASE Commit(e)
  <2>1. TypeOK'
    BY <1>2 DEF Commit, TypeOK, platform
  <2>2. QED
    BY <1>1, <1>2, <2>1, SenderIInv DEF Commit, RowInv, TypeOK
<1>3. CASE Publish(e)
  <2>1. inflight' \in [Events -> 0 .. MaxCopies]
        /\ \A f \in Events \ {e} : inflight'[f] = inflight[f]
    BY <1>3, EmitBound DEF Publish
  <2>2. TypeOK'
    BY <1>3, <2>1 DEF Publish, TypeOK, platform, rows
  <2>3. QED
    BY <1>1, <1>3, <2>1, <2>2, SenderIInv DEF Publish, RowInv, rows
<1>4. CASE CrashBeforePublish(e)
  <2>1. TypeOK'
    BY <1>4 DEF CrashBeforePublish, TypeOK, platform, rows
  <2>2. QED
    BY <1>1, <1>4, <2>1, SenderIInv DEF CrashBeforePublish, RowInv, rows
<1>5. CASE Lose(e)
  <2>1. TypeOK'
    BY <1>5, OutboxAssumption DEF Lose, TypeOK, platform, rows
  <2>2. QED
    BY <1>1, <1>5, <2>1, SenderIInv DEF Lose, RowInv, TypeOK, rows
<1>6. CASE TimePasses(e)
  <2>1. age' \in [Events -> 0 .. 2]
    <3>1. age[e] + 1 \in 0 .. 2 /\ age' = [age EXCEPT ![e] = age[e] + 1]
      BY <1>6 DEF TimePasses, TypeOK
    <3>2. QED
      BY <3>1 DEF TypeOK
  <2>2. TypeOK'
    BY <1>6, <2>1 DEF TimePasses, TypeOK, platform, sending
  <2>3. QED
    BY <1>1, <1>6, <2>2, SenderIInv DEF TimePasses, RowInv, sending
<1>7. QED
  BY <1>2, <1>3, <1>4, <1>5, <1>6

LEMMA JobIInv ==
  ASSUME IInv, (\E j \in Jobs : FindFailed(j) \/ Resend(j)) \/ RemoveOld \/ UNCHANGED vars
  PROVE  IInv'
<1> USE DEF IInv
<1>1. UNCHANGED <<log, position, step, platform>>
  BY DEF FindFailed, Resend, RemoveOld, sending, vars
<1>2. ASSUME NEW j \in Jobs, FindFailed(j) PROVE IInv'
  <2>1. TypeOK'
    BY <1>2 DEF FindFailed, FailedRows, TypeOK, platform, rows
  <2>2. \A f \in FailedRows : status[f] # "none"
    BY DEF FailedRows
  <2>3. QED
    BY <1>1, <1>2, <2>1, <2>2, SenderIInv DEF FindFailed, RowInv, TypeOK, rows
<1>3. ASSUME NEW j \in Jobs, Resend(j) PROVE IInv'
  <2>1. found[j] \in SUBSET Events /\ Emit(found[j])
    BY <1>3 DEF Resend, TypeOK
  <2>2. inflight' \in [Events -> 0 .. MaxCopies]
        /\ \A e \in Events \ found[j] : inflight'[e] = inflight[e]
    BY <2>1, EmitBound
  <2>3. TypeOK'
    BY <1>3, <2>2 DEF Resend, TypeOK, platform, rows
  <2>4. QED
    BY <1>1, <1>3, <2>2, <2>3, SenderIInv DEF Resend, RowInv, TypeOK, rows
<1>4. CASE RemoveOld
  <2>1. TypeOK'
    BY <1>4 DEF RemoveOld, TypeOK, platform, sending
  <2>2. QED
    BY <1>1, <1>4, <2>1, SenderIInv DEF RemoveOld, OldPublishedRows, RowInv, TypeOK, sending
<1>5. CASE UNCHANGED vars
  <2>1. TypeOK'
    BY <1>5 DEF vars, TypeOK, platform, sending, rows
  <2>2. QED
    BY <1>1, <1>5, <2>1, SenderIInv DEF vars, RowInv, sending, rows
<1>6. QED
  BY <1>2, <1>3, <1>4, <1>5

(* The log grows at its end.                                               *)
LEMMA LogGrows ==
  ASSUME TypeOK, NEW e \in Events, log' = [log EXCEPT ![TopicOf[e]] = Append(@, e)],
         NEW f \in Events
  PROVE  InLog(f)' <=> InLog(f) \/ f = e
<1> DEFINE t == TopicOf[f]
<1> USE OutboxAssumption
<1>1. /\ t \in Topics /\ log[t] \in Seq(Events)
      /\ log'[t] = IF t = TopicOf[e] THEN Append(log[t], e) ELSE log[t]
  BY DEF TypeOK
<1>2. DOMAIN log[t] = 1 .. Len(log[t]) /\ DOMAIN log'[t] = 1 .. Len(log'[t])
  BY <1>1
<1>3. CASE f = e
  <2>1. Len(log'[t]) \in DOMAIN log'[t] /\ log'[t][Len(log'[t])] = e
    BY <1>1, <1>2, <1>3
  <2>2. QED
    BY <1>3, <2>1 DEF InLog, Logged
<1>4. CASE f # e
  <2>1. \A i \in DOMAIN log[t] : i \in DOMAIN log'[t] /\ log'[t][i] = log[t][i]
    BY <1>1, <1>2
  <2>2. \A i \in DOMAIN log'[t] : i \in DOMAIN log[t] \/ log'[t][i] = e
    BY <1>1, <1>2
  <2>3. Logged(f)' = Logged(f)
    BY <1>4, <2>1, <2>2 DEF Logged
  <2>4. QED
    BY <1>4, <2>3 DEF InLog
<1>5. QED
  BY <1>3, <1>4

(* What a group has been handed stays where it is.                         *)
LEMMA ArriveIInv ==
  ASSUME IInv, NEW e \in Events, Arrive(e) PROVE IInv'
<1> USE OutboxAssumption DEF IInv
<1>1. /\ UNCHANGED <<status, age, due, found, position, step, processed, calls>>
      /\ inflight[e] > 0 /\ inflight' = [inflight EXCEPT ![e] = @ - 1]
      /\ log' = [log EXCEPT ![TopicOf[e]] = Append(@, e)]
  BY DEF Arrive, rows, platform
<1>2. TypeOK'
  BY <1>1 DEF TypeOK
<1>3. \A t \in Topics : /\ log[t] \in Seq(Events) /\ log'[t] \in Seq(Events)
                        /\ Len(log[t]) <= Len(log'[t])
                        /\ \A i \in DOMAIN log[t] : log'[t][i] = log[t][i]
                        /\ \A i \in DOMAIN log'[t] \ DOMAIN log[t] : log'[t][i] = e /\ TopicOf[e] = t
  BY <1>1 DEF TypeOK
<1>4. MessageInv'
  <2>1. ASSUME NEW t \in Topics, NEW i \in DOMAIN log'[t] PROVE TopicOf[log'[t][i]] = t
    BY <1>3, <2>1 DEF MessageInv
  <2>2. ASSUME NEW g \in Groups, NEW t \in Topics, NEW c \in AllConsumers, step[g][t][c] # "idle"
        PROVE  position[g][t] < Len(log'[t])
    <3>1. position[g][t] \in Nat /\ position[g][t] < Len(log[t])
      BY <2>2 DEF TypeOK, MessageInv
    <3>2. QED
      BY <1>3, <3>1
  <2>3. QED
    BY <1>1, <2>1, <2>2 DEF MessageInv
<1>5. ASSUME NEW g \in Groups, NEW t \in Topics, NEW c \in AllConsumers, step[g][t][c] # "idle"
      PROVE  Message(g, t)' = Message(g, t)
  <2>1. position[g][t] \in Nat /\ position[g][t] < Len(log[t])
    BY <1>5 DEF TypeOK, MessageInv
  <2>2. position[g][t] + 1 \in DOMAIN log[t]
    BY <1>3, <2>1
  <2>3. QED
    BY <1>1, <1>3, <2>2 DEF Message
<1>6. \A f \in Events : InLog(f)' <=> InLog(f) \/ f = e
  BY <1>1, LogGrows
<1>7. RowInv'
  BY <1>1, <1>6 DEF RowInv, EventIsKept, TypeOK
<1>8. CallInv'
  <2>1. \A g \in Groups, t \in Topics :
          step[g][t]["dataPlatform"] # "idle" => Message(g, t)' = Message(g, t)
    BY <1>5 DEF AllConsumers
  <2>2. QED
    BY <1>1, <2>1, CallFrame
<1>9. QED
  BY <1>2, <1>4, <1>7, <1>8

(* A step of a handler, or of its group, leaves the senders alone.  What    *)
(* it may do to the steps of the handlers is named by the hypotheses.      *)
LEMMA ConsumerIInv ==
  ASSUME IInv, UNCHANGED <<age, due, found, inflight, log>>, TypeOK', EventIsKept', CallInv',
         \A e \in Events : status'[e] = "none" => status[e] = "none",
         \A g \in Groups, t \in Topics, c \in AllConsumers : step'[g][t][c] # "idle" =>
           position'[g][t] = position[g][t] /\ position[g][t] < Len(log[t])
  PROVE  IInv'
<1> USE DEF IInv
<1>1. \A e \in Events : InLog(e)' <=> InLog(e)
  BY DEF InLog, Logged
<1>2. MessageInv'
  BY DEF MessageInv
<1>3. RowInv'
  BY <1>1 DEF RowInv
<1>4. QED
  BY <1>2, <1>3

(* Where a step of one handler leaves the others.                          *)
LEMMA HandlerStep ==
  ASSUME IInv, NEW g \in Groups, NEW t \in Topics, NEW c \in AllConsumers, NEW next \in Steps,
         Goto(g, t, c, next), step[g][t][c] # "idle"
  PROVE  /\ step' \in [Groups -> [Topics -> [AllConsumers -> Steps]]]
         /\ step'[g][t][c] = next
         /\ \A h \in Groups, v \in Topics, d \in AllConsumers :
              (h = g /\ v = t /\ d = c) \/ step'[h][v][d] = step[h][v][d]
         /\ \A h \in Groups, v \in Topics, d \in AllConsumers :
              step'[h][v][d] # "idle" => position[h][v] < Len(log[v])
<1> USE DEF IInv
<1>1. step' = [step EXCEPT ![g][t][c] = next]
  BY DEF Goto
<1>2. \A h \in Groups, v \in Topics, d \in AllConsumers :
        step'[h][v][d] = IF h = g /\ v = t /\ d = c THEN next ELSE step[h][v][d]
  BY <1>1 DEF TypeOK
<1>3. step' \in [Groups -> [Topics -> [AllConsumers -> Steps]]]
  BY <1>1 DEF TypeOK
<1>4. ASSUME NEW h \in Groups, NEW v \in Topics, NEW d \in AllConsumers, step'[h][v][d] # "idle"
      PROVE  position[h][v] < Len(log[v])
  <2>1. step[h][v][d] # "idle"
    BY <1>2, <1>4
  <2>2. QED
    BY <2>1 DEF MessageInv
<1>5. QED
  BY <1>2, <1>3, <1>4

LEMMA RowStepIInv ==
  ASSUME IInv, NEW g \in Groups, NEW t \in Topics, ReadRow(g, t) \/ SaveRow(g, t)
  PROVE  IInv'
<1> DEFINE e == Message(g, t)
<1> USE DEF IInv
<1>1. "outbox" \in AllConsumers /\ "dataPlatform" \in AllConsumers /\ "outbox" # "dataPlatform"
  BY DEF AllConsumers
<1>2. /\ UNCHANGED <<age, due, found, inflight, log, position, processed, calls>>
      /\ step[g][t]["outbox"] # "idle"
  BY DEF ReadRow, SaveRow, rows, sending, platform
<1>3. PICK next \in Steps : Goto(g, t, "outbox", next)
  BY DEF ReadRow, SaveRow, Steps, Ended
<1>4. /\ step' \in [Groups -> [Topics -> [AllConsumers -> Steps]]]
      /\ \A h \in Groups, v \in Topics, d \in AllConsumers :
           step'[h][v][d] # "idle" => position[h][v] < Len(log[v])
      /\ \A h \in Groups, v \in Topics : step'[h][v]["dataPlatform"] = step[h][v]["dataPlatform"]
  BY <1>1, <1>2, <1>3, HandlerStep
<1>5. e \in Events /\ InLog(e)
  BY <1>1, <1>2, MessageLogged
<1>6. \/ status' = status
      \/ status' = [status EXCEPT ![e] = IF @ = "removed" THEN @ ELSE "PUBLISHED"]
  BY DEF ReadRow, SaveRow, rows
<1>7. TypeOK'
  BY <1>2, <1>4, <1>5, <1>6 DEF TypeOK
<1>8. EventIsKept'
  <2>1. \A f \in Events : InLog(f)' <=> InLog(f)
    BY <1>2 DEF InLog, Logged
  <2>2. QED
    BY <1>5, <1>6, <2>1 DEF TypeOK, RowInv, EventIsKept
<1>9. CallInv'
  BY <1>2, <1>4, CallFrame DEF Message
<1>10. \A f \in Events : status'[f] = "none" => status[f] = "none"
  BY <1>5, <1>6 DEF TypeOK
<1>11. QED
  BY <1>2, <1>4, <1>7, <1>8, <1>9, <1>10, ConsumerIInv

(* The heart of the matter: the unique index lets one handler through.     *)
LEMMA PlatformStepIInv ==
  ASSUME IInv, NEW g \in Groups, NEW t \in Topics,
         CreateProcessed(g, t) \/ CallDataPlatform(g, t) \/ ToSuccess(g, t)
  PROVE  IInv'
<1> DEFINE e == Message(g, t)
           at(h, v) == step[h][v]["dataPlatform"]
<1> USE DEF IInv
<1>1. "dataPlatform" \in AllConsumers
  BY DEF AllConsumers
<1>2. /\ UNCHANGED <<status, age, due, found, inflight, log, position>>
      /\ at(g, t) # "idle"
  BY DEF CreateProcessed, CallDataPlatform, ToSuccess, rows, sending
<1>3. PICK next \in Steps : Goto(g, t, "dataPlatform", next)
  BY DEF CreateProcessed, CallDataPlatform, ToSuccess, Steps, Ended
<1>4. /\ step' \in [Groups -> [Topics -> [AllConsumers -> Steps]]]
      /\ \A h \in Groups, v \in Topics, d \in AllConsumers :
           step'[h][v][d] # "idle" => position[h][v] < Len(log[v])
      /\ \A h \in Groups, v \in Topics : at(h, v)' = at(h, v) \/ (h = g /\ v = t /\ at(h, v)' = next)
  BY <1>1, <1>2, <1>3, HandlerStep
<1>5. e \in Events
  BY <1>1, <1>2, MessageLogged
<1>6. EventIsKept'
  BY <1>2 DEF RowInv, EventIsKept, InLog, Logged
<1>7. \A h \in Groups, v \in Topics : Message(h, v)' = Message(h, v)
  BY <1>2 DEF Message
<1>8. at(g, t)' = next
  BY <1>1, <1>2, <1>3, HandlerStep
<1>9. CASE CreateProcessed(g, t) /\ NotYetProcessed(e)
  <2>1. /\ processed' = [processed EXCEPT ![e] = "RECEIVED"] /\ UNCHANGED calls
        /\ processed[e] = "none" /\ Goto(g, t, "dataPlatform", "call")
    BY <1>9 DEF CreateProcessed, NotYetProcessed
  <2>2. at(g, t)' = "call"
    BY <1>1, <1>2, <2>1, HandlerStep DEF Steps
  <2>3. TypeOK'
    BY <1>2, <1>4, <2>1 DEF TypeOK
  <2>4. CallInv'
    <3>1. \A h \in Groups, v \in Topics : at(h, v) = "call" => Message(h, v) # e
      BY <2>1 DEF CallInv, Calling
    <3>2. calls[e] = 0 /\ processed'[e] = "RECEIVED"
      BY <1>5, <2>1 DEF CallInv, TypeOK
    <3>3. \A f \in Events : f # e => processed'[f] = processed[f]
      BY <2>1 DEF TypeOK
    <3>4. \A h \in Groups, v \in Topics : at(h, v) # "idle" => Message(h, v) \in Events
      BY <1>1, MessageLogged
    <3>5. \A h \in Groups, v \in Topics : Calling(h, v)' => Calling(h, v) \/ (h = g /\ v = t)
      BY <1>4 DEF Calling
    <3>6. ASSUME NEW h \in Groups, NEW v \in Topics, Calling(h, v)'
          PROVE  processed'[Message(h, v)] = "RECEIVED" /\ calls[Message(h, v)] = 0
      BY <3>2, <3>3, <3>4, <3>5, <3>6 DEF CallInv, Calling
    <3>7. \A f \in Events : /\ processed'[f] = "none" => calls[f] = 0
                            /\ processed'[f] = "SUCCESS" => calls[f] = 1
      BY <3>2, <3>3 DEF CallInv, SuccessIsCalled
    <3>8. \A h \in Groups, v \in Topics : at(h, v)' = "toSuccess" => calls[Message(h, v)] = 1
      BY <1>4, <2>2 DEF CallInv
    <3>9. ASSUME NEW h \in Groups, NEW k \in Groups, NEW v \in Topics, NEW w \in Topics,
                 Calling(h, v)', Calling(k, w)', Message(h, v) = Message(k, w)
          PROVE  h = k /\ v = w
      BY <3>1, <3>5, <3>9 DEF CallInv, Calling
    <3>10. QED
      BY <1>7, <2>1, <3>6, <3>7, <3>8, <3>9 DEF CallInv, SuccessIsCalled
  <2>5. QED
    BY <1>2, <1>4, <1>6, <2>3, <2>4, ConsumerIInv
<1>10. CASE CreateProcessed(g, t) /\ ~NotYetProcessed(e)
  <2>1. UNCHANGED <<processed, calls>> /\ Goto(g, t, "dataPlatform", "threw")
    BY <1>10 DEF CreateProcessed
  <2>2. at(g, t)' = "threw"
    BY <1>1, <1>2, <2>1, HandlerStep DEF Steps, Ended
  <2>3. TypeOK'
    BY <1>2, <1>4, <2>1 DEF TypeOK
  <2>4. CallInv'
    BY <1>4, <1>7, <2>1, <2>2, CallFrame
  <2>5. QED
    BY <1>2, <1>4, <1>6, <2>3, <2>4, ConsumerIInv
<1>11. CASE CallDataPlatform(g, t)
  <2>1. /\ calls' = [calls EXCEPT ![e] = @ + 1] /\ UNCHANGED processed
        /\ Calling(g, t) /\ Goto(g, t, "dataPlatform", "toSuccess")
    BY <1>11 DEF CallDataPlatform, Calling
  <2>2. at(g, t)' = "toSuccess"
    BY <1>1, <1>2, <2>1, HandlerStep DEF Steps
  <2>3. /\ calls[e] = 0 /\ processed[e] = "RECEIVED" /\ calls'[e] = 1
        /\ \A f \in Events : f # e => calls'[f] = calls[f]
    BY <1>5, <2>1 DEF CallInv, TypeOK
  <2>4. TypeOK'
    BY <1>2, <1>4, <2>1, <2>3 DEF TypeOK
  <2>5. CallInv'
    <3>1. \A h \in Groups, v \in Topics : at(h, v) # "idle" => Message(h, v) \in Events
      BY <1>1, MessageLogged
    <3>2. \A h \in Groups, v \in Topics :
            Calling(h, v)' => Calling(h, v) /\ Message(h, v) # e
      BY <1>4, <2>1, <2>2 DEF CallInv, Calling
    <3>3. ASSUME NEW h \in Groups, NEW v \in Topics, Calling(h, v)'
          PROVE  processed[Message(h, v)] = "RECEIVED" /\ calls'[Message(h, v)] = 0
      BY <2>3, <3>1, <3>2, <3>3 DEF CallInv, Calling
    <3>4. \A f \in Events : /\ processed[f] = "none" => calls'[f] = 0
                            /\ processed[f] = "SUCCESS" => calls'[f] = 1
      BY <2>3 DEF CallInv, SuccessIsCalled
    <3>5. ASSUME NEW h \in Groups, NEW v \in Topics, at(h, v)' = "toSuccess"
          PROVE  calls'[Message(h, v)] = 1
      <4>1. CASE h = g /\ v = t
        BY <2>3, <4>1
      <4>2. CASE ~(h = g /\ v = t)
        BY <1>4, <2>3, <3>1, <3>5, <4>2 DEF CallInv
      <4>3. QED
        BY <4>1, <4>2
    <3>6. QED
      BY <1>7, <2>1, <3>2, <3>3, <3>4, <3>5 DEF CallInv, SuccessIsCalled
  <2>6. QED
    BY <1>2, <1>4, <1>6, <2>4, <2>5, ConsumerIInv
<1>12. CASE ToSuccess(g, t)
  <2>1. /\ processed' = [processed EXCEPT ![e] = "SUCCESS"] /\ UNCHANGED calls
        /\ at(g, t) = "toSuccess" /\ Goto(g, t, "dataPlatform", "done")
    BY <1>12 DEF ToSuccess
  <2>2. at(g, t)' = "done"
    BY <1>1, <1>2, <2>1, HandlerStep DEF Steps, Ended
  <2>3. calls[e] = 1
    BY <2>1 DEF CallInv
  <2>4. TypeOK'
    BY <1>2, <1>4, <2>1 DEF TypeOK
  <2>5. CallInv'
    <3>1. \A h \in Groups, v \in Topics : at(h, v) # "idle" => Message(h, v) \in Events
      BY <1>1, MessageLogged
    <3>2. \A h \in Groups, v \in Topics :
            Calling(h, v)' => Calling(h, v) /\ Message(h, v) # e
      BY <1>4, <2>2, <2>3 DEF CallInv, Calling
    <3>3. /\ processed'[e] = "SUCCESS"
          /\ \A f \in Events : f # e => processed'[f] = processed[f]
      BY <1>5, <2>1 DEF TypeOK
    <3>4. \A f \in Events : /\ processed'[f] = "none" => calls[f] = 0
                            /\ processed'[f] = "SUCCESS" => calls[f] = 1
      BY <2>3, <3>3 DEF CallInv, SuccessIsCalled
    <3>5. ASSUME NEW h \in Groups, NEW v \in Topics, Calling(h, v)'
          PROVE  processed'[Message(h, v)] = "RECEIVED" /\ calls[Message(h, v)] = 0
      BY <3>1, <3>2, <3>3, <3>5 DEF CallInv, Calling
    <3>6. \A h \in Groups, v \in Topics : at(h, v)' = "toSuccess" => calls[Message(h, v)] = 1
      BY <1>4, <2>2 DEF CallInv
    <3>7. QED
      BY <1>7, <2>1, <3>2, <3>4, <3>5, <3>6 DEF CallInv, SuccessIsCalled
  <2>6. QED
    BY <1>2, <1>4, <1>6, <2>4, <2>5, ConsumerIInv
<1>13. QED
  BY <1>9, <1>10, <1>11, <1>12

LEMMA GroupIInv ==
  ASSUME IInv, NEW g \in Groups, NEW t \in Topics,
         Deliver(g, t) \/ Finish(g, t) \/ Redeliver(g, t)
  PROVE  IInv'
<1> USE DEF IInv
<1>1. UNCHANGED <<status, age, due, found, inflight, log, processed, calls>>
  BY DEF Deliver, Finish, Redeliver, rows, sending, platform
<1>2. PICK next \in [AllConsumers -> Steps] :
        /\ step' = [step EXCEPT ![g][t] = next]
        /\ next["dataPlatform"] \notin {"call", "toSuccess"}
        /\ (\A c \in AllConsumers : next[c] = "idle") \/ Deliver(g, t)
  <2>1. CASE Deliver(g, t)
    <3> DEFINE started == [c \in AllConsumers |->
                             IF c \notin Consumers THEN "idle"
                             ELSE IF c = "outbox" THEN "readRow" ELSE "create"]
    <3>1. started \in [AllConsumers -> Steps] /\ started["dataPlatform"] \notin {"call", "toSuccess"}
      BY DEF AllConsumers, Steps
    <3>2. QED
      BY <2>1, <3>1 DEF Deliver
  <2>2. CASE Finish(g, t) \/ Redeliver(g, t)
    <3> DEFINE idle == [c \in AllConsumers |-> "idle"]
    <3>1. idle \in [AllConsumers -> Steps] /\ idle["dataPlatform"] = "idle"
      BY DEF AllConsumers, Steps
    <3>2. QED
      BY <2>2, <3>1 DEF Finish, Redeliver, Idle
  <2>3. QED
    BY <2>1, <2>2
<1>3. \A h \in Groups, v \in Topics : step'[h][v] = IF h = g /\ v = t THEN next ELSE step[h][v]
  BY <1>2 DEF TypeOK
<1>4. step' \in [Groups -> [Topics -> [AllConsumers -> Steps]]]
  BY <1>2 DEF TypeOK
<1>5. /\ position' \in [Groups -> [Topics -> Nat]]
      /\ \A h \in Groups, v \in Topics : position'[h][v] = position[h][v] \/ (h = g /\ v = t)
      /\ Deliver(g, t) => UNCHANGED position
  <2>1. CASE Finish(g, t)
    <3>1. position[g][t] + 1 \in Nat /\ position' = [position EXCEPT ![g][t] = position[g][t] + 1]
      BY <2>1 DEF Finish, TypeOK
    <3>2. ~Deliver(g, t)
      <4>1. PICK c \in Consumers : step[g][t][c] \in Ended
        BY <2>1 DEF Finish
      <4>2. QED
        BY <4>1 DEF Deliver, Ended
    <3>3. QED
      BY <3>1, <3>2 DEF TypeOK
  <2>2. CASE Deliver(g, t) \/ Redeliver(g, t)
    BY <2>2 DEF Deliver, Redeliver, TypeOK
  <2>3. QED
    BY <2>1, <2>2
<1>6. TypeOK'
  BY <1>1, <1>4, <1>5 DEF TypeOK
<1>7. EventIsKept'
  BY <1>1 DEF RowInv, EventIsKept, InLog, Logged
<1>8. ASSUME NEW h \in Groups, NEW v \in Topics, NEW c \in AllConsumers, step'[h][v][c] # "idle"
      PROVE  position'[h][v] = position[h][v] /\ position[h][v] < Len(log[v])
  <2>1. CASE h = g /\ v = t
    <3>1. Deliver(g, t)
      BY <1>2, <1>3, <1>8, <2>1
    <3>2. QED
      BY <1>5, <2>1, <3>1 DEF Deliver
  <2>2. CASE ~(h = g /\ v = t)
    BY <1>3, <1>5, <1>8, <2>2 DEF MessageInv
  <2>3. QED
    BY <2>1, <2>2
<1>9. CallInv'
  <2>1. ASSUME NEW h \in Groups, NEW v \in Topics,
               step'[h][v]["dataPlatform"] \in {"call", "toSuccess"}
        PROVE  /\ step'[h][v]["dataPlatform"] = step[h][v]["dataPlatform"]
               /\ Message(h, v)' = Message(h, v)
    BY <1>1, <1>2, <1>3, <1>5, <2>1 DEF Message
  <2>2. QED
    BY <1>1, <2>1, CallFrame
<1>10. QED
  BY <1>1, <1>6, <1>7, <1>8, <1>9, ConsumerIInv

LEMMA NextIInv == IInv /\ [Next]_vars => IInv'
BY SendIInv, JobIInv, ArriveIInv, RowStepIInv, PlatformStepIInv, GroupIInv DEF Next, Retry, Consume

LEMMA InductiveInv == Spec => []IInv
BY InitIInv, NextIInv, PTL DEF Spec

(* Every reachable state is well typed: in particular, the data platform   *)
(* is called at most once about an event, and no copy is one too many.     *)
THEOREM OutboxTypeCorrect == Spec => []TypeOK
<1>1. IInv => TypeOK
  BY DEF IInv
<1>2. QED
  BY <1>1, InductiveInv, PTL

(* A row that is PUBLISHED or deleted has its message in the log.          *)
THEOREM EventStays == Spec => []EventIsKept
<1>1. IInv => EventIsKept
  BY DEF IInv, RowInv
<1>2. QED
  BY <1>1, InductiveInv, PTL

(* A row of table processed that is SUCCESS has had its call.              *)
THEOREM SuccessHadCall == Spec => []SuccessIsCalled
<1>1. IInv => SuccessIsCalled
  BY DEF IInv, CallInv
<1>2. QED
  BY <1>1, InductiveInv, PTL

-----------------------------------------------------------------------------
(* The outbox implements EventFeed.                                        *)

LEMMA Simulation == IInv /\ IInv' /\ [Next]_vars => [Feed!Next]_Feed!feedVars
<1> DEFINE recorded == {e \in Events : status[e] # "none"}
           sent == {e \in Events : InLog(e)}
<1> SUFFICES ASSUME IInv, IInv', [Next]_vars
             PROVE  Feed!Next \/ UNCHANGED <<recorded, sent, calls>>
  BY DEF Feed!feedVars
<1> USE DEF IInv
<1>1. log' = log => sent' = sent
  BY DEF InLog, Logged
<1>2. ASSUME NEW e \in Events, Commit(e) PROVE Feed!Next
  <2>1. recorded' = recorded \cup {e} /\ e \notin recorded
    BY <1>2 DEF Commit, TypeOK
  <2>2. Feed!Record(e)
    BY <1>1, <1>2, <2>1 DEF Commit, platform, Feed!Record
  <2>3. QED
    BY <2>2 DEF Feed!Next
<1>3. ASSUME NEW e \in Events, Arrive(e) PROVE Feed!Next
  <2>1. UNCHANGED <<status, calls>> /\ recorded' = recorded /\ e \in recorded
    BY <1>3 DEF Arrive, rows, platform, RowInv, TypeOK
  <2>2. log[TopicOf[e]] \in Seq(Events) /\ log' = [log EXCEPT ![TopicOf[e]] = Append(@, e)]
    BY <1>3, OutboxAssumption DEF Arrive, TypeOK
  <2>3. ASSUME NEW f \in Events PROVE InLog(f)' <=> InLog(f) \/ f = e
    BY <2>2, <2>3, LogGrows DEF TypeOK
  <2>4. sent' = sent \cup {e}
    BY <2>3
  <2>5. Feed!Send(e)
    BY <2>1, <2>4 DEF Feed!Send
  <2>6. QED
    BY <2>5 DEF Feed!Next
<1>4. ASSUME NEW g \in Groups, NEW t \in Topics, CallDataPlatform(g, t) PROVE Feed!Next
  <2> DEFINE e == Message(g, t)
  <2>1. /\ UNCHANGED <<status, log>> /\ calls' = [calls EXCEPT ![e] = @ + 1]
        /\ Calling(g, t)
    BY <1>4 DEF CallDataPlatform, rows, sending, Calling
  <2>2. e \in Events /\ InLog(e)
    BY <2>1, MessageLogged DEF Calling, AllConsumers
  <2>3. calls[e] = 0
    BY <2>1 DEF CallInv
  <2>4. Feed!Tell(e)
    BY <1>1, <2>1, <2>2, <2>3 DEF Feed!Tell
  <2>5. QED
    BY <2>2, <2>4 DEF Feed!Next
<1>5. ASSUME NEW g \in Groups, NEW t \in Topics, SaveRow(g, t)
      PROVE  UNCHANGED <<recorded, sent, calls>>
  <2>1. status[Message(g, t)] # "none"
    <3>1. InLog(Message(g, t)) /\ Message(g, t) \in Events
      BY <1>5, MessageLogged DEF SaveRow, AllConsumers
    <3>2. QED
      BY <3>1 DEF RowInv
  <2>2. recorded' = recorded
    BY <1>5, <2>1 DEF SaveRow, TypeOK
  <2>3. QED
    BY <1>1, <1>5, <2>2 DEF SaveRow, sending, platform
<1>6. CASE RemoveOld
  <2>1. recorded' = recorded
    BY <1>6 DEF RemoveOld, OldPublishedRows
  <2>2. QED
    BY <1>1, <1>6, <2>1 DEF RemoveOld, sending, platform
<1>7. CASE UNCHANGED <<status, log, calls>>
  BY <1>1, <1>7
<1>8. QED
  <2>1. ASSUME NEW e \in Events,
               Publish(e) \/ CrashBeforePublish(e) \/ Lose(e) \/ TimePasses(e)
        PROVE  UNCHANGED <<status, log, calls>>
    BY <2>1 DEF Publish, CrashBeforePublish, Lose, TimePasses, rows, sending, platform
  <2>2. ASSUME NEW j \in Jobs, Retry(j) PROVE UNCHANGED <<status, log, calls>>
    BY <2>2 DEF Retry, FindFailed, Resend, rows, platform
  <2>3. ASSUME NEW g \in Groups, NEW t \in Topics,
               \/ Deliver(g, t) \/ Finish(g, t) \/ ReadRow(g, t)
               \/ CreateProcessed(g, t) \/ ToSuccess(g, t) \/ Redeliver(g, t)
        PROVE  UNCHANGED <<status, log, calls>>
    BY <2>3 DEF Deliver, Finish, ReadRow, CreateProcessed, ToSuccess, Redeliver, rows, sending,
       platform
  <2>4. UNCHANGED vars => UNCHANGED <<status, log, calls>>
    BY DEF vars, rows, sending, platform
  <2>5. QED
    BY <1>2, <1>3, <1>4, <1>5, <1>6, <1>7, <2>1, <2>2, <2>3, <2>4 DEF Next, Consume

(* Whatever is crashed, lost, repeated and handled by every group, an event*)
(* is sent only once it is recorded, and the data platform called about it *)
(* at most once: Outbox implements EventFeed.                              *)
THEOREM FeedImplemented == Spec => ImplementsEventFeed
<1>1. Init => Feed!Init
  <2> SUFFICES ASSUME Init PROVE Feed!Init
    OBVIOUS
  <2>1. \A e \in Events : ~InLog(e)
    BY OutboxAssumption DEF Init, InLog, Logged
  <2>2. QED
    BY <2>1 DEF Init, Feed!Init
<1>2. QED
  BY <1>1, InductiveInv, Simulation, PTL
  DEF Spec, ImplementsEventFeed, Feed!Spec

-----------------------------------------------------------------------------
(* No consumer bound: the service as its module binds them today.          *)

Untouched ==
  /\ \A g \in Groups, t \in Topics, c \in AllConsumers : step[g][t][c] = "idle"
  /\ \A e \in Events : status[e] \in {"none", "INIT"} /\ processed[e] = "none"

(* Without a consumer on the topics, whatever is sent, lost and sent again,*)
(* no row leaves INIT: none is marked PUBLISHED or removed, and nothing is *)
(* ever processed, for any events, instances and consumer groups           *)
(* (EveryRowIsPublished, which run unsubscribed refutes on one event).     *)
THEOREM UnsubscribedRowsStay ==
  ASSUME Consumers = {} PROVE Spec => []Untouched
<1>1. Init => Untouched
  BY DEF Init, Untouched
<1>2. Untouched /\ [Next]_vars => Untouched'
  <2> SUFFICES ASSUME Untouched, [Next]_vars PROVE Untouched'
    OBVIOUS
  <2> USE DEF Untouched
  <2>1. ASSUME NEW e \in Events, Commit(e) PROVE Untouched'
    BY <2>1 DEF Commit, platform
  <2>2. ASSUME NEW g \in Groups, NEW t \in Topics, Consume(g, t) \/ Redeliver(g, t)
        PROVE  FALSE
    BY <2>2 DEF AllConsumers, Consume, Deliver, Finish, ReadRow, SaveRow, CreateProcessed,
                CallDataPlatform, ToSuccess, Redeliver
  <2>3. CASE RemoveOld
    BY <2>3 DEF RemoveOld, OldPublishedRows, platform
  <2>4. CASE UNCHANGED <<status, step, processed>>
    BY <2>4
  <2>5. ASSUME NEW e \in Events,
               Publish(e) \/ CrashBeforePublish(e) \/ Arrive(e) \/ Lose(e) \/ TimePasses(e)
        PROVE  UNCHANGED <<status, step, processed>>
    BY <2>5 DEF Publish, CrashBeforePublish, Arrive, Lose, TimePasses, rows, platform
  <2>6. ASSUME NEW j \in Jobs, Retry(j) PROVE UNCHANGED <<status, step, processed>>
    BY <2>6 DEF Retry, FindFailed, Resend, rows, platform
  <2>7. QED
    BY <2>1, <2>2, <2>3, <2>4, <2>5, <2>6 DEF Next, vars, rows, platform
<1>3. QED
  BY <1>1, <1>2, PTL DEF Spec
=============================================================================
