--------------------------- MODULE CatalogueCache ---------------------------
(***************************************************************************)
(* The catalogue and its look-aside cache in Redis: the list of concerts   *)
(* and, for each concert, the list of its bookable schedules.  A scan that *)
(* misses reads PostgreSQL and fills the cache, with no expiry; creating a *)
(* concert or a schedule inserts it and then evicts the list it belongs to.*)
(***************************************************************************)
EXTENDS Integers

CONSTANTS
  Concerts, Schedules, ConcertOf, \* what there is to create
  Opens, Closes,                  \* of a schedule: bookingStartAt, bookingEndAt
  Scans,                          \* GET /concerts and GET /concerts/:id/schedules
  MaxTime,                        \* bound of the clock
  AllConcerts, Null               \* the key "concerts", and no value

ASSUME CatalogueAssumption ==
  /\ ConcertOf \in [Schedules -> Concerts]
  /\ Opens \in [Schedules -> Int] /\ Closes \in [Schedules -> Int]
  /\ MaxTime \in Nat
  /\ Concerts \cap Schedules = {} /\ AllConcerts \notin Concerts

VARIABLES
  now,
  creation, \* of a concert or a schedule: how far the request to create it is
  cache,    \* of a list: what is cached, and when it was read
  pc,       \* of a scan: its next step
  list,     \* of a scan: the list it asks for
  read,     \* of a scan: what it has read from the database, and when
  late,     \* scans whose list has got a new row since they read it
  spoilt    \* lists cached by a late scan, or not evicted because of a crash

scan == <<pc, list, read>>
vars == <<now, creation, cache, scan, late, spoilt>>

Items == Concerts \cup Schedules

Lists == {AllConcerts} \cup Concerts

Entry == [items : SUBSET Items, at : 0 .. MaxTime]

TypeOK ==
  /\ now \in 0 .. MaxTime
  /\ creation \in [Items -> {"none", "evict", "ended"}]
  /\ cache \in [Lists -> Entry \cup {Null}]
  /\ pc \in [Scans -> {"getCache", "readConcert", "readList", "setCache", "answered", "notFound"}]
  /\ list \in [Scans -> Lists \cup {Null}]
  /\ read \in [Scans -> Entry \cup {Null}]
  /\ late \subseteq Scans /\ spoilt \subseteq Lists

Init ==
  /\ now = 0
  /\ creation = [x \in Items |-> "none"]
  /\ cache = [l \in Lists |-> Null]
  /\ pc = [r \in Scans |-> "getCache"]
  /\ list = [r \in Scans |-> Null]
  /\ read = [r \in Scans |-> Null]
  /\ late = {} /\ spoilt = {}

-----------------------------------------------------------------------------
(* The tables.                                                             *)

Rows == {x \in Items : creation[x] # "none"}

Bookable(s, time) == Opens[s] <= time /\ time < Closes[s]

(* SELECT all concerts, or the schedules of a concert bookable at a time.  *)
Listed(l, time) ==
  IF l = AllConcerts THEN Rows \cap Concerts
  ELSE {s \in Rows \cap Schedules : ConcertOf[s] = l /\ Bookable(s, time)}

-----------------------------------------------------------------------------
(* GET /concerts and GET /concerts/:id/schedules.                          *)

Goto(r, next) == pc' = [pc EXCEPT ![r] = next]

GetCache(r) ==
  /\ pc[r] = "getCache"
  /\ \E l \in Lists :
       /\ list' = [list EXCEPT ![r] = l]
       /\ Goto(r, IF cache[l] # Null THEN "answered"
                  ELSE IF l = AllConcerts THEN "readList" ELSE "readConcert")
  /\ UNCHANGED <<now, creation, cache, read, late, spoilt>>

AnyConcert(c) == TRUE \* mutant: the concert is not looked for

ConcertExists(c) == c \in Rows

ReadConcert(r) ==
  /\ pc[r] = "readConcert"
  /\ Goto(r, IF ConcertExists(list[r]) THEN "readList" ELSE "notFound")
  /\ UNCHANGED <<now, creation, cache, list, read, late, spoilt>>

ReadList(r) ==
  /\ pc[r] = "readList"
  /\ read' = [read EXCEPT ![r] = [items |-> Listed(list[r], now), at |-> now]]
  /\ Goto(r, "setCache")
  /\ UNCHANGED <<now, creation, cache, list, late, spoilt>>

(* No expiry is given, and an empty list is cached like any other.         *)
SetCache(r) ==
  LET l == list[r] IN
  /\ pc[r] = "setCache"
  /\ cache' = [cache EXCEPT ![l] = read[r]]
  /\ spoilt' = IF r \in late THEN spoilt \cup {l} ELSE spoilt \ {l}
  /\ read' = [read EXCEPT ![r] = Null]
  /\ late' = late \ {r}
  /\ Goto(r, "answered")
  /\ UNCHANGED <<now, creation, list>>

-----------------------------------------------------------------------------
(* POST /concerts and POST /concerts/:id/schedules.                        *)

EvictConcerts(x) == AllConcerts \* mutant: del(concerts) for every list

EvictOwnKey(x) == IF x \in Concerts THEN AllConcerts ELSE x \* mutant: the schedule's id

ListOf(x) == IF x \in Concerts THEN AllConcerts ELSE ConcertOf[x]

Insert(x) ==
  /\ creation[x] = "none"
  /\ creation' = [creation EXCEPT ![x] = "evict"]
  /\ late' = late \cup {r \in Scans : pc[r] = "setCache" /\ list[r] = ListOf(x)}
  /\ UNCHANGED <<now, cache, scan, spoilt>>

CreateConcert(c) == Insert(c)

(* A schedule is refused while its concert does not exist.                 *)
CreateSchedule(s) == ConcertExists(ConcertOf[s]) /\ Insert(s)

Evict(x) ==
  LET l == ListOf(x) IN
  /\ creation[x] = "evict"
  /\ cache' = [cache EXCEPT ![l] = Null]
  /\ creation' = [creation EXCEPT ![x] = "ended"]
  /\ spoilt' = spoilt \ {l}
  /\ UNCHANGED <<now, scan, late>>

(* The instance crashes, or Redis cannot be reached.                       *)
CrashBeforeEvict(x) ==
  /\ creation[x] = "evict"
  /\ creation' = [creation EXCEPT ![x] = "ended"]
  /\ spoilt' = spoilt \cup {ListOf(x)}
  /\ UNCHANGED <<now, cache, scan, late>>

Tick ==
  /\ now < MaxTime
  /\ now' = now + 1
  /\ UNCHANGED <<creation, cache, scan, late, spoilt>>

Next ==
  \/ \E r \in Scans : GetCache(r) \/ ReadConcert(r) \/ ReadList(r) \/ SetCache(r)
  \/ \E c \in Concerts : CreateConcert(c)
  \/ \E s \in Schedules : CreateSchedule(s)
  \/ \E x \in Items : Evict(x) \/ CrashBeforeEvict(x)
  \/ Tick

Spec == Init /\ [][Next]_vars

-----------------------------------------------------------------------------
(* Properties.                                                             *)

Settled(l) == l \notin spoilt /\ \A x \in Items : ListOf(x) = l => creation[x] # "evict"

(* A list in the cache has every row it should have had when it was read   *)
(* and every one created since, but for the two ways the code leaves open: *)
(* a fill that read before the insertion and writes after the eviction,    *)
(* and a crash between the insertion and the eviction.                     *)
CompleteUnlessRaced ==
  \A l \in Lists : cache[l] # Null /\ Settled(l) =>
    cache[l].items = Listed(l, cache[l].at)

(* The schedules of a concert are cached only once the concert is there:   *)
(* creating a concert evicts no list but that of the concerts.             *)
NoListBeforeConcert == \A c \in Concerts : cache[c] # Null => c \in Rows

(* The documents: the list of bookable schedules changes by the creation   *)
(* of a schedule, not with time, so that eviction keeps it right.          *)
CachedListIsCurrent ==
  \A l \in Lists : cache[l] # Null /\ Settled(l) => cache[l].items = Listed(l, now)
=============================================================================
