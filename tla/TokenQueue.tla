----------------------------- MODULE TokenQueue -----------------------------
(***************************************************************************)
(* The waiting queue in Redis: the requests that enter it and look at it,  *)
(* the cron of every instance that turns the oldest waiting users into     *)
(* holders of an active token, the guard of the routes that ask for one,   *)
(* and the end of the token.                                               *)
(*                                                                         *)
(* A step is one Redis command: each is atomic, and between two of them    *)
(* any other client's may come.                                            *)
(***************************************************************************)
EXTENDS Integers, FiniteSets, Sequences, SequencesExt

CONSTANTS
  Users,                         \* numbers: equal scores are ordered by member
  EnqueueRequests, ScanRequests, \* POST /token and GET /token
  PayRequests,                   \* the guarded route whose use case ends the token
  UserOf,                        \* of a request
  Jobs,                          \* the cron of each instance
  Throughput,                    \* QUEUE_THROUGHPUT
  MaxTime,                       \* bound of the clock, in milliseconds
  Null

Requests == EnqueueRequests \cup ScanRequests \cup PayRequests \* one in two sets is either

ASSUME TokenQueueAssumption ==
  /\ Users \subseteq Nat /\ UserOf \in [Requests -> Users]
  /\ Throughput \in Nat \ {0} /\ MaxTime \in Nat
  /\ Null \notin Int

VARIABLES
  now,
  waiting,   \* waiting_tokens: of a user, the score or Null
  active,    \* users with a key active_tokens:<user>
  pc,        \* of a request: its next step
  stamp,     \* of a POST: the score it sends, read when it sends it
  batch,     \* of a job: the users it has read and not yet removed
  todo,      \* of a job: those it has still to activate
  fired,     \* jobs that have run in this period of ten seconds
  granted,   \* users who were ever given a token
  refused,   \* users who were not, but for whom a SET failed
  before,    \* of a POST: those in `entered' when it read the clock
  entered    \* the POSTs that put into line a user who had had no turn yet

redis   == <<waiting, active>>
request == <<pc, stamp>>
cron    == <<batch, todo, fired>>
history == <<granted, refused, before, entered>>
vars    == <<now, redis, request, cron, history>>

Answered == {"holdsToken", "waits", "notFound", "unauthorized", "paid"}

PC == {"idle", "getOrder", "add", "pays"} \cup Answered

TypeOK ==
  /\ now \in 0 .. MaxTime
  /\ waiting \in [Users -> (0 .. MaxTime) \cup {Null}]
  /\ active \subseteq Users
  /\ pc \in [Requests -> PC]
  /\ stamp \in [EnqueueRequests -> (0 .. MaxTime) \cup {Null}]
  /\ batch \in [Jobs -> SUBSET Users]
  /\ todo \in [Jobs -> Seq(Users)]
  /\ fired \subseteq Jobs
  /\ granted \subseteq Users /\ refused \subseteq Users
  /\ before \in [EnqueueRequests -> SUBSET EnqueueRequests]
  /\ entered \subseteq EnqueueRequests

Init ==
  /\ now = 0
  /\ waiting = [u \in Users |-> Null]
  /\ active = {}
  /\ pc = [r \in Requests |-> "idle"]
  /\ stamp = [r \in EnqueueRequests |-> Null]
  /\ batch = [j \in Jobs |-> {}]
  /\ todo = [j \in Jobs |-> <<>>]
  /\ fired = {}
  /\ granted = {} /\ refused = {}
  /\ before = [r \in EnqueueRequests |-> {}]
  /\ entered = {}

-----------------------------------------------------------------------------
(* The sorted set.                                                         *)

InLine == {u \in Users : waiting[u] # Null}

(* Users for whom a job has sent a SET or failed to, whatever came of it.  *)
HadTurn == granted \cup refused

(* By score, then by member.                                               *)
Ahead(u, v) ==
  \/ waiting[u] < waiting[v]
  \/ waiting[u] = waiting[v] /\ u < v

(* The first Throughput of a set of members, or all of them, in order.     *)
IsHead(s, S) ==
  /\ \A i, k \in DOMAIN s : i < k => Ahead(s[i], s[k])
  /\ \A u \in S \ ToSet(s) :
       Len(s) = Throughput /\ \A i \in DOMAIN s : Ahead(s[i], u)

OldestFromOne(s) == \* mutant: ZRANGE 1 Throughput
  LET first == {u \in InLine : \A v \in InLine \ {u} : Ahead(u, v)} IN
  IsHead(s, InLine \ first) /\ ToSet(s) \cap first = {}

(* ZRANGE 0 Throughput-1.                                                  *)
Oldest(s) == IsHead(s, InLine)

-----------------------------------------------------------------------------
(* POST /token and GET /token.  A request may stop anywhere: none of them  *)
(* is bound to go on.                                                      *)

Goto(r, next) == pc' = [pc EXCEPT ![r] = next]

GetActive(r) ==
  /\ pc[r] = "idle"
  /\ Goto(r, IF UserOf[r] \in active THEN "holdsToken" ELSE "getOrder")
  /\ UNCHANGED <<now, redis, stamp, cron, history>>

(* ZRANK.  A user who is not in line is put into it by POST, and is not    *)
(* found by GET.  The score is the instance's clock when the reply is in.  *)
GetOrder(r) ==
  LET u == UserOf[r] IN
  /\ pc[r] = "getOrder"
  /\ \/ /\ waiting[u] # Null
        /\ Goto(r, "waits")
        /\ UNCHANGED <<stamp, before>>
     \/ /\ waiting[u] = Null /\ r \in ScanRequests
        /\ Goto(r, "notFound")
        /\ UNCHANGED <<stamp, before>>
     \/ /\ waiting[u] = Null /\ r \in EnqueueRequests
        /\ stamp' = [stamp EXCEPT ![r] = now]
        /\ before' = [before EXCEPT ![r] = entered]
        /\ Goto(r, "add")
  /\ UNCHANGED <<now, redis, cron, granted, refused, entered>>

AddAlways(u, score) == [waiting EXCEPT ![u] = score] \* mutant: no NX

AddIncr(u, score) == \* mutant: INCR for NX
  [waiting EXCEPT ![u] = IF @ = Null THEN score ELSE @ + score]

(* ZADD NX: the score of a member already there stays.  The ZCARD that     *)
(* follows only gives the answer its number.                               *)
AddNX(u, score) == [waiting EXCEPT ![u] = IF @ = Null THEN score ELSE @]

Add(r) ==
  LET u == UserOf[r] IN
  /\ pc[r] = "add"
  /\ waiting' = AddNX(u, stamp[r])
  /\ entered' = IF waiting[u] = Null /\ u \notin HadTurn THEN entered \cup {r} ELSE entered
  /\ Goto(r, "waits")
  /\ UNCHANGED <<now, active, stamp, cron, granted, refused, before>>

-----------------------------------------------------------------------------
(* The cron of each instance, every ten seconds.                           *)

Idle(j) == batch[j] = {}

(* activateQueues() reads the oldest and returns if there are none.        *)
Fire(j) ==
  /\ j \notin fired /\ Idle(j)
  /\ fired' = fired \cup {j}
  /\ \E n \in 0 .. Throughput : \E s \in [1 .. n -> InLine] :
       /\ Oldest(s)
       /\ todo' = [todo EXCEPT ![j] = s]
       /\ batch' = [batch EXCEPT ![j] = ToSet(s)]
  /\ UNCHANGED <<now, redis, request, history>>

(* SET NX of the next user; the SETs and the ZREM follow one another on    *)
(* the instance's connection, though the code awaits none of the SETs.     *)
Activate(j) ==
  /\ todo[j] # <<>>
  /\ active' = active \cup {Head(todo[j])}
  /\ granted' = granted \cup {Head(todo[j])} /\ refused' = refused \ {Head(todo[j])}
  /\ todo' = [todo EXCEPT ![j] = Tail(@)]
  /\ UNCHANGED <<now, waiting, request, batch, fired, before, entered>>

(* Redis answers the SET with an error, as when its memory is full, or     *)
(* generateToken() throws before it is sent.  Nobody awaits or catches     *)
(* that: the other SETs go on, and the ZREM still names this user.         *)
ActivationFails(j) ==
  /\ todo[j] # <<>>
  /\ refused' = refused \cup ({Head(todo[j])} \ granted)
  /\ todo' = [todo EXCEPT ![j] = Tail(@)]
  /\ UNCHANGED <<now, redis, request, batch, fired, granted, before, entered>>

RemoveHead(j) == \* mutant: ZREMRANGEBYRANK 0 n-1, whoever is there by now
  {u \in InLine : Cardinality({v \in InLine : Ahead(v, u)}) < Cardinality(batch[j])}

Removed(j) == batch[j]

(* One ZREM of all that were read.                                         *)
RemoveActivated(j) ==
  /\ batch[j] # {} /\ todo[j] = <<>>
  /\ waiting' = [u \in Users |-> IF u \in Removed(j) THEN Null ELSE waiting[u]]
  /\ batch' = [batch EXCEPT ![j] = {}]
  /\ UNCHANGED <<now, active, request, todo, fired, history>>

(* The instance crashes, or its ZREM fails: what it has not sent to Redis  *)
(* is never sent, and the next period begins with the same users.          *)
CrashJob(j) ==
  /\ ~Idle(j)
  /\ batch' = [batch EXCEPT ![j] = {}]
  /\ todo' = [todo EXCEPT ![j] = <<>>]
  /\ UNCHANGED <<now, redis, request, fired, history>>

(* A period is long enough for the jobs of the one before to have ended.   *)
NewPeriod ==
  /\ fired # {} /\ \A j \in Jobs : Idle(j)
  /\ fired' = {}
  /\ UNCHANGED <<now, redis, request, batch, todo, history>>

-----------------------------------------------------------------------------
(* Active tokens.                                                          *)

VerifyOnly(u) == TRUE \* mutant: the JWT is verified and the key not looked for

HoldsToken(u) == u \in active

(* TokenQueueAuthGuard verifies the token of the request and then looks    *)
(* for a token of its user, this one or another.                           *)
Guard(r) ==
  /\ pc[r] = "idle"
  /\ Goto(r, IF HoldsToken(UserOf[r]) THEN "pays" ELSE "unauthorized")
  /\ UNCHANGED <<now, redis, stamp, cron, history>>

(* The payment is made and sends a DEL, which names the user and not the   *)
(* token and which it does not await.                                      *)
EndToken(r) ==
  /\ pc[r] = "pays"
  /\ active' = active \ {UserOf[r]}
  /\ Goto(r, "paid")
  /\ UNCHANGED <<now, waiting, stamp, cron, history>>

(* The key's five minutes are over.                                        *)
Expire(u) ==
  /\ u \in active
  /\ active' = active \ {u}
  /\ UNCHANGED <<now, waiting, request, cron, history>>

Tick ==
  /\ now < MaxTime
  /\ now' = now + 1
  /\ UNCHANGED <<redis, request, cron, history>>

Turn(j) == Activate(j) \/ ActivationFails(j)

Job(j) == Fire(j) \/ Turn(j) \/ RemoveActivated(j)

Next ==
  \/ \E r \in EnqueueRequests \cup ScanRequests : GetActive(r) \/ GetOrder(r)
  \/ \E r \in EnqueueRequests : Add(r)
  \/ \E r \in PayRequests : Guard(r) \/ EndToken(r)
  \/ \E j \in Jobs : Job(j) \/ CrashJob(j)
  \/ NewPeriod
  \/ \E u \in Users : Expire(u)
  \/ Tick

(* The schedules go on, and crashes do not always strike at the same       *)
(* command.  A SET may fail every time.                                    *)
Fairness ==
  /\ WF_vars(NewPeriod)
  /\ \A j \in Jobs :
       /\ WF_vars(Fire(j)) /\ SF_vars(RemoveActivated(j))
       /\ \A n \in 1 .. Throughput : SF_vars(Turn(j) /\ Len(todo[j]) = n)

Spec == Init /\ [][Next]_vars

FairSpec == Spec /\ Fairness

-----------------------------------------------------------------------------
(* Properties.                                                             *)

(* The documents: a user is removed from the line when the activation has  *)
(* been acknowledged, so that he is in line until he has a token.          *)
NobodyLost == \A r \in entered : UserOf[r] \in InLine \cup granted

(* A failed SET is the only way to lose one's place: two jobs may read,    *)
(* activate and remove the same users, and either may crash between its    *)
(* commands; an answer that speaks of a place in line is given to nobody   *)
(* who was not put there.                                                  *)
LostOnlyToErrors ==
  /\ \A r \in entered : UserOf[r] \in InLine \cup HadTurn
  /\ \A r \in Requests : pc[r] = "waits" =>
       \E q \in entered : UserOf[q] = UserOf[r]

(* Nobody gets past the guard who did not wait in line: whatever two jobs, *)
(* crashes and expiring tokens do, no token comes from anywhere else.      *)
NobodySkipsTheLine ==
  \A r \in Requests : pc[r] \in {"pays", "paid"} =>
    \E q \in entered : UserOf[q] = UserOf[r]

(* The documents: first in, first out.  A user who was in line when a      *)
(* later one read the clock has his turn no later: when the later one has  *)
(* a token, the earlier one has or has had a token too, or his SET failed. *)
Queue == INSTANCE WaitingLine WITH
           Tickets  <- EnqueueRequests,
           Places   <- 0 .. MaxTime,
           at       <- stamp,
           admitted <- {r \in entered : UserOf[r] \in HadTurn}

ImplementsWaitingLine == Queue!Spec

(* Everyone's waiting ends: he is given a token, or a SET of his fails,    *)
(* and he is out of the line.                                              *)
WaitingEnds == \A u \in Users : u \in InLine ~> u \in HadTurn \ InLine
=============================================================================
