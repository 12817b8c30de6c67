------------------------------- MODULE Outbox -------------------------------
(***************************************************************************)
(* How an event reaches the data platform: the outbox table, the event     *)
(* handlers and the retry job that send its rows to Kafka, the consumers   *)
(* that mark a row PUBLISHED and call the data platform, and the job that  *)
(* deletes old rows.                                                       *)
(*                                                                         *)
(* An event stands for its row and for every message that carries it: a    *)
(* consumer uses nothing of the message but the row's id.  Each consumer   *)
(* group of main.ts reads each topic (one partition) from a position of    *)
(* its own and runs every handler bound to the topic, side by side; the    *)
(* position moves once they have all ended.                                *)
(***************************************************************************)
EXTENDS Naturals, Sequences, FiniteSets

CONSTANTS
  Events, Topics, TopicOf, \* bookings and payments, each with its topic
  Groups,     \* offset-consumer and data-platform-consumer
  Consumers,  \* the consumers that are bound to the topics
  Jobs,       \* the retry cron of each instance
  MaxCopies   \* bound: messages of one event that are on their way or in the log

AllConsumers == {"outbox", "dataPlatform"}

ASSUME OutboxAssumption ==
  /\ TopicOf \in [Events -> Topics]
  /\ Consumers \subseteq AllConsumers
  /\ MaxCopies \in Nat \ {0}

VARIABLES
  status, age,  \* of a row: its status; 1 after three minutes, 2 after ten days
  due,          \* events whose publication is still to come after the commit
  found,        \* of a job: the rows it has read and not yet sent
  inflight,     \* of an event: messages emitted, which nobody waits for
  log,          \* of a topic: the events of its messages
  position,     \* of a group and a topic: messages consumed
  step,         \* of a group, a topic and a consumer: where its handler is
  processed,    \* of an event: the status of its row in table processed
  calls         \* of an event: calls of the data platform about it

rows     == <<status, age>>
sending  == <<due, found, inflight, log>>
platform == <<processed, calls>>
vars     == <<rows, sending, position, step, platform>>

Ended == {"done", "threw"}

Steps == {"idle", "readRow", "saveRow", "create", "call", "toSuccess"} \cup Ended

TypeOK ==
  /\ status \in [Events -> {"none", "INIT", "PUBLISHED", "removed"}]
  /\ age \in [Events -> 0 .. 2]
  /\ due \subseteq Events
  /\ found \in [Jobs -> SUBSET Events]
  /\ inflight \in [Events -> 0 .. MaxCopies]
  /\ log \in [Topics -> Seq(Events)]
  /\ position \in [Groups -> [Topics -> Nat]]
  /\ step \in [Groups -> [Topics -> [AllConsumers -> Steps]]]
  /\ processed \in [Events -> {"none", "RECEIVED", "SUCCESS"}]
  /\ calls \in [Events -> 0 .. 1]

Init ==
  /\ status = [e \in Events |-> "none"]
  /\ age = [e \in Events |-> 0]
  /\ due = {}
  /\ found = [j \in Jobs |-> {}]
  /\ inflight = [e \in Events |-> 0]
  /\ log = [t \in Topics |-> <<>>]
  /\ position = [g \in Groups |-> [t \in Topics |-> 0]]
  /\ step = [g \in Groups |-> [t \in Topics |-> [c \in AllConsumers |-> "idle"]]]
  /\ processed = [e \in Events |-> "none"]
  /\ calls = [e \in Events |-> 0]

-----------------------------------------------------------------------------
(* Sending.                                                                *)

Logged(e) == {i \in DOMAIN log[TopicOf[e]] : log[TopicOf[e]][i] = e}

Copies(e) == inflight[e] + Cardinality(Logged(e))

Emit(S) ==
  /\ \A e \in S : Copies(e) < MaxCopies
  /\ inflight' = [e \in Events |-> IF e \in S THEN inflight[e] + 1 ELSE inflight[e]]

(* The use case commits; its own publication of the event comes next.      *)
Commit(e) ==
  /\ status[e] = "none"
  /\ status' = [status EXCEPT ![e] = "INIT"]
  /\ due' = due \cup {e}
  /\ UNCHANGED <<age, found, inflight, log, position, step, platform>>

(* eventBus.publish() runs the handler, which emits and does not wait: the *)
(* error it would catch never reaches it.                                  *)
Publish(e) ==
  /\ e \in due
  /\ Emit({e})
  /\ due' = due \ {e}
  /\ UNCHANGED <<rows, found, log, position, step, platform>>

(* The instance crashes between the commit and the publication.            *)
CrashBeforePublish(e) ==
  /\ e \in due
  /\ due' = due \ {e}
  /\ UNCHANGED <<rows, found, inflight, log, position, step, platform>>

(* External: Kafka appends an emitted message, or it is lost.              *)
Arrive(e) ==
  /\ inflight[e] > 0
  /\ inflight' = [inflight EXCEPT ![e] = @ - 1]
  /\ log' = [log EXCEPT ![TopicOf[e]] = Append(@, e)]
  /\ UNCHANGED <<rows, due, found, position, step, platform>>

Lose(e) ==
  /\ inflight[e] > 0
  /\ inflight' = [inflight EXCEPT ![e] = @ - 1]
  /\ UNCHANGED <<rows, due, found, log, position, step, platform>>

-----------------------------------------------------------------------------
(* The jobs.                                                               *)

TimePasses(e) ==
  /\ status[e] \in {"INIT", "PUBLISHED"} /\ age[e] < 2
  /\ age' = [age EXCEPT ![e] = @ + 1]
  /\ UNCHANGED <<status, sending, position, step, platform>>

FreshRows == {e \in Events : status[e] = "INIT" /\ age[e] < 1} \* mutant: MoreThan(date)

FailedRows == {e \in Events : status[e] = "INIT" /\ age[e] >= 1}

(* Cron, every five minutes: the rows found are emitted one after another, *)
(* whatever has become of them since.                                      *)
FindFailed(j) ==
  /\ found[j] = {}
  /\ found' = [found EXCEPT ![j] = FailedRows]
  /\ UNCHANGED <<rows, due, inflight, log, position, step, platform>>

Resend(j) ==
  /\ found[j] # {}
  /\ Emit(found[j])
  /\ found' = [found EXCEPT ![j] = {}]
  /\ UNCHANGED <<rows, due, log, position, step, platform>>

OldRows == {e \in Events : status[e] # "none" /\ age[e] = 2} \* mutant: any status

OldPublishedRows == {e \in Events : status[e] = "PUBLISHED" /\ age[e] = 2}

(* Cron, every week: one DELETE.                                           *)
RemoveOld ==
  /\ status' = [e \in Events |-> IF e \in OldPublishedRows THEN "removed" ELSE status[e]]
  /\ UNCHANGED <<age, sending, position, step, platform>>

-----------------------------------------------------------------------------
(* The consumers.                                                          *)

Message(g, t) == log[t][position[g][t] + 1]

Goto(g, t, c, next) == step' = [step EXCEPT ![g][t][c] = next]

(* External: a group hands its next message to every handler of the topic. *)
Deliver(g, t) ==
  /\ Consumers # {}
  /\ position[g][t] < Len(log[t])
  /\ \A c \in Consumers : step[g][t][c] = "idle"
  /\ step' = [step EXCEPT ![g][t] = [c \in AllConsumers |->
                IF c \notin Consumers THEN "idle"
                ELSE IF c = "outbox" THEN "readRow" ELSE "create"]]
  /\ UNCHANGED <<rows, sending, position, platform>>

(* OutboxService.toPublished(): it throws when the row is not there.       *)
ReadRow(g, t) ==
  /\ step[g][t]["outbox"] = "readRow"
  /\ Goto(g, t, "outbox",
          IF status[Message(g, t)] \in {"INIT", "PUBLISHED"} THEN "saveRow" ELSE "threw")
  /\ UNCHANGED <<rows, sending, position, platform>>

SaveUnchanged(g, t) == \* mutant: save() without toPublished()
  /\ step[g][t]["outbox"] = "saveRow"
  /\ Goto(g, t, "outbox", "done")
  /\ UNCHANGED <<rows, sending, position, platform>>

(* save() of a row that was deleted since it was read inserts another one, *)
(* PUBLISHED, whose id the sequence gives and no message carries.          *)
SaveRow(g, t) ==
  /\ step[g][t]["outbox"] = "saveRow"
  /\ status' = [status EXCEPT ![Message(g, t)] = IF @ = "removed" THEN @ ELSE "PUBLISHED"]
  /\ Goto(g, t, "outbox", "done")
  /\ UNCHANGED <<age, sending, position, platform>>

AnyRow(e) == TRUE \* mutant: no unique index on outboxId

NotYetProcessed(e) == processed[e] = "none"

CreateOrResume(g, t) == \* mutant: what is RECEIVED already is marked SUCCESS
  /\ step[g][t]["dataPlatform"] = "create"
  /\ processed' = [processed EXCEPT ![Message(g, t)] = IF @ = "none" THEN "RECEIVED" ELSE @]
  /\ Goto(g, t, "dataPlatform", IF NotYetProcessed(Message(g, t)) THEN "call" ELSE "toSuccess")
  /\ UNCHANGED <<rows, sending, position, calls>>

(* The unique index on processed.outboxId refuses a second row.            *)
CreateProcessed(g, t) ==
  LET e == Message(g, t) IN
  /\ step[g][t]["dataPlatform"] = "create"
  /\ \/ /\ NotYetProcessed(e)
        /\ processed' = [processed EXCEPT ![e] = "RECEIVED"]
        /\ Goto(g, t, "dataPlatform", "call")
     \/ /\ ~NotYetProcessed(e)
        /\ Goto(g, t, "dataPlatform", "threw")
        /\ UNCHANGED processed
  /\ UNCHANGED <<rows, sending, position, calls>>

(* External: the call may fail; the handler does not tell.                 *)
CallDataPlatform(g, t) ==
  /\ step[g][t]["dataPlatform"] = "call"
  /\ calls' = [calls EXCEPT ![Message(g, t)] = @ + 1]
  /\ Goto(g, t, "dataPlatform", "toSuccess")
  /\ UNCHANGED <<rows, sending, position, processed>>

ToSuccess(g, t) ==
  /\ step[g][t]["dataPlatform"] = "toSuccess"
  /\ processed' = [processed EXCEPT ![Message(g, t)] = "SUCCESS"]
  /\ Goto(g, t, "dataPlatform", "done")
  /\ UNCHANGED <<rows, sending, position, calls>>

Idle(g, t) == [step EXCEPT ![g][t] = [c \in AllConsumers |-> "idle"]]

(* External: the next message is taken once every handler has ended.       *)
Finish(g, t) ==
  /\ Consumers # {}
  /\ \A c \in Consumers : step[g][t][c] \in Ended
  /\ position' = [position EXCEPT ![g][t] = @ + 1]
  /\ step' = Idle(g, t)
  /\ UNCHANGED <<rows, sending, platform>>

(* External: the message is handed out again after an error of a handler,  *)
(* or after a crash of the instance before the position was stored.        *)
Redeliver(g, t) ==
  /\ \E c \in Consumers : step[g][t][c] # "idle"
  /\ step' = Idle(g, t)
  /\ UNCHANGED <<rows, sending, position, platform>>

Consume(g, t) ==
  \/ Deliver(g, t) \/ Finish(g, t)
  \/ ReadRow(g, t) \/ SaveRow(g, t)
  \/ CreateProcessed(g, t) \/ CallDataPlatform(g, t) \/ ToSuccess(g, t)

Retry(j) == FindFailed(j) \/ Resend(j)

Next ==
  \/ \E e \in Events :
       Commit(e) \/ Publish(e) \/ CrashBeforePublish(e) \/ Arrive(e) \/ Lose(e) \/ TimePasses(e)
  \/ \E j \in Jobs : Retry(j)
  \/ RemoveOld
  \/ \E g \in Groups, t \in Topics : Consume(g, t) \/ Redeliver(g, t)

(* The instances keep their schedules and their consumers running, whatever *)
(* crashes there are, and Kafka does not lose every message.               *)
Fairness ==
  /\ \A e \in Events : WF_vars(TimePasses(e)) /\ SF_vars(Arrive(e))
  /\ \A j \in Jobs : WF_vars(FindFailed(j)) /\ WF_vars(Resend(j))
  /\ \A g \in Groups, t \in Topics : SF_vars(Finish(g, t)) /\ WF_vars(Deliver(g, t))
       /\ SF_vars(ReadRow(g, t)) /\ SF_vars(SaveRow(g, t))

Spec == Init /\ [][Next]_vars

FairSpec == Spec /\ Fairness

-----------------------------------------------------------------------------
(* Properties.                                                             *)

InLog(e) == Logged(e) # {}

(* A row is marked PUBLISHED, and may be deleted, only when its message is *)
(* in the log: no crash, loss or cleanup makes the service forget an event *)
(* that Kafka does not have.                                               *)
EventIsKept == \A e \in Events : status[e] \in {"PUBLISHED", "removed"} => InLog(e)

(* What the table processed says has been done, has been done: neither a   *)
(* crash between its two writes nor the other group, which handles the     *)
(* same message, turns a row SUCCESS for which no call was made.           *)
SuccessIsCalled == \A e \in Events : processed[e] = "SUCCESS" => calls[e] = 1

(* Whatever is crashed and lost between the commit and Kafka, the message  *)
(* of a committed row gets to the log.                                     *)
EveryEventIsSent == \A e \in Events : status[e] # "none" ~> InLog(e)

(* The documents: a consumer marks the row PUBLISHED when it receives the  *)
(* message.                                                                *)
EveryRowIsPublished ==
  \A e \in Events : status[e] = "INIT" ~> status[e] \in {"PUBLISHED", "removed"}

(* An event is recorded, then sent, and the data platform called about it  *)
(* once, although messages are repeated and two groups handle each.        *)
Feed == INSTANCE EventFeed WITH
          recorded <- {e \in Events : status[e] # "none"},
          sent     <- {e \in Events : InLog(e)},
          told     <- calls

ImplementsEventFeed == Feed!Spec
=============================================================================
