------------------------ MODULE CatalogueCacheProofs ------------------------
(***************************************************************************)
(* Proofs about CatalogueCache, for every catalogue, every number of scans *)
(* and any clock bound.                                                    *)
(***************************************************************************)
EXTENDS CatalogueCache, TLAPS

(* What a scan knows of the list it has read: nothing was added to it      *)
(* since, or the scan is late; and a concert it asks for is there.         *)
ScanOK(r) ==
  /\ pc[r] # "getCache" => list[r] \in Lists
  /\ pc[r] = "readConcert" => list[r] \in Concerts
  /\ pc[r] \in {"readList", "setCache"} => list[r] \in {AllConcerts} \cup Rows
  /\ pc[r] = "setCache" /\ r \notin late => read[r].items = Listed(list[r], read[r].at)

ScansOK == \A r \in Scans : ScanOK(r)

IInv == TypeOK /\ ScansOK /\ CompleteUnlessRaced /\ NoListBeforeConcert

LEMMA InitIInv == Init => IInv
BY CatalogueAssumption
DEF Init, IInv, TypeOK, ScansOK, ScanOK, CompleteUnlessRaced, NoListBeforeConcert,
    Items, Lists

(* A list holds rows only, and which rows depends on nothing but the rows. *)
LEMMA ListedRows ==
  ASSUME NEW l, NEW time PROVE Listed(l, time) \subseteq Items
BY DEF Listed, Rows

LEMMA ListOfItem ==
  ASSUME NEW x \in Items
  PROVE  /\ ListOf(x) \in Lists
         /\ ListOf(x) = AllConcerts <=> x \in Concerts
         /\ ListOf(x) # AllConcerts => x \in Schedules /\ ListOf(x) = ConcertOf[x]
BY CatalogueAssumption DEF ListOf, Items, Lists

LEMMA InsertRows ==
  ASSUME TypeOK, NEW x \in Items, Insert(x)
  PROVE  Rows' = Rows \cup {x}
BY DEF TypeOK, Insert, Rows

LEMMA EndRows ==
  ASSUME TypeOK, NEW x \in Items, Evict(x) \/ CrashBeforeEvict(x)
  PROVE  Rows' = Rows
BY DEF TypeOK, Evict, CrashBeforeEvict, Rows

(* An insertion changes no list but the one the row belongs to.            *)
LEMMA InsertListed ==
  ASSUME TypeOK, NEW x \in Items, Insert(x), NEW l \in Lists, l # ListOf(x), NEW time
  PROVE  Listed(l, time)' = Listed(l, time)
<1>1. Rows' = Rows \cup {x}
  BY InsertRows
<1>2. CASE l = AllConcerts
  BY <1>1, <1>2, ListOfItem DEF Listed
<1>3. CASE l # AllConcerts
  <2>1. x \in Schedules => ConcertOf[x] # l
    BY CatalogueAssumption, ListOfItem DEF ListOf
  <2>2. QED
    BY <1>1, <1>3, <2>1 DEF Listed, Bookable
<1>4. QED
  BY <1>2, <1>3

LEMMA SameListed ==
  ASSUME Rows' = Rows, NEW l, NEW time
  PROVE  Listed(l, time)' = Listed(l, time)
BY DEF Listed, Bookable

-----------------------------------------------------------------------------
(* Each action preserves the invariant.                                    *)

LEMMA GetCacheIInv ==
  ASSUME IInv, NEW r \in Scans, GetCache(r) PROVE IInv'
<1> USE DEF IInv, GetCache, Goto
<1>1. PICK l \in Lists :
        /\ list' = [list EXCEPT ![r] = l]
        /\ pc' = [pc EXCEPT ![r] = IF cache[l] # Null THEN "answered"
                   ELSE IF l = AllConcerts THEN "readList" ELSE "readConcert"]
  OBVIOUS
<1>2. TypeOK'
  BY <1>1 DEF TypeOK
<1>3. Rows' = Rows
  BY DEF Rows
<1>4. ScansOK'
  <2> SUFFICES ASSUME NEW q \in Scans PROVE ScanOK(q)'
    BY DEF ScansOK
  <2>1. CASE q = r
    BY <1>1, <2>1 DEF ScanOK, TypeOK, Lists
  <2>2. CASE q # r
    BY <1>1, <1>3, <2>2, SameListed DEF ScansOK, ScanOK, TypeOK
  <2>3. QED
    BY <2>1, <2>2
<1>5. CompleteUnlessRaced' /\ NoListBeforeConcert'
  BY <1>3, SameListed DEF CompleteUnlessRaced, NoListBeforeConcert, Settled
<1>6. QED
  BY <1>2, <1>4, <1>5

LEMMA ReadConcertIInv ==
  ASSUME IInv, NEW r \in Scans, ReadConcert(r) PROVE IInv'
<1> USE DEF IInv, ReadConcert, Goto
<1>1. TypeOK'
  BY DEF TypeOK
<1>2. Rows' = Rows
  BY DEF Rows
<1>3. ScansOK'
  <2> SUFFICES ASSUME NEW q \in Scans PROVE ScanOK(q)'
    BY DEF ScansOK
  <2>1. CASE q = r
    BY <1>2, <2>1 DEF ScansOK, ScanOK, TypeOK, ConcertExists
  <2>2. CASE q # r
    BY <1>2, <2>2, SameListed DEF ScansOK, ScanOK, TypeOK
  <2>3. QED
    BY <2>1, <2>2
<1>4. CompleteUnlessRaced' /\ NoListBeforeConcert'
  BY <1>2, SameListed DEF CompleteUnlessRaced, NoListBeforeConcert, Settled
<1>5. QED
  BY <1>1, <1>3, <1>4

LEMMA ReadListIInv ==
  ASSUME IInv, NEW r \in Scans, ReadList(r) PROVE IInv'
<1> USE DEF IInv, ReadList, Goto
<1> DEFINE entry == [items |-> Listed(list[r], now), at |-> now]
<1>1. entry \in Entry
  BY ListedRows DEF TypeOK, Entry
<1>2. TypeOK'
  BY <1>1 DEF TypeOK
<1>3. Rows' = Rows
  BY DEF Rows
<1>4. ScansOK'
  <2> SUFFICES ASSUME NEW q \in Scans PROVE ScanOK(q)'
    BY DEF ScansOK
  <2>1. CASE q = r
    <3>1. read'[q] = entry /\ list'[q] = list[r] /\ pc'[q] = "setCache"
      BY <2>1 DEF TypeOK
    <3>2. Listed(list[r], now)' = Listed(list[r], now)
      BY <1>3, SameListed
    <3>3. read'[q].items = Listed(list[q], read[q].at)'
      BY <3>1, <3>2, <1>3, SameListed DEF Listed, Bookable
    <3>4. QED
      BY <2>1, <3>1, <3>3, <1>3 DEF ScansOK, ScanOK, TypeOK
  <2>2. CASE q # r
    BY <1>3, <2>2, SameListed DEF ScansOK, ScanOK, TypeOK
  <2>3. QED
    BY <2>1, <2>2
<1>5. CompleteUnlessRaced' /\ NoListBeforeConcert'
  BY <1>3, SameListed DEF CompleteUnlessRaced, NoListBeforeConcert, Settled
<1>6. QED
  BY <1>2, <1>4, <1>5

(* The fill: what is cached is what the scan knows, unless it is late, and *)
(* then the list is spoilt.                                                *)
LEMMA SetCacheIInv ==
  ASSUME IInv, NEW r \in Scans, SetCache(r) PROVE IInv'
<1> USE DEF IInv, SetCache, Goto
<1> DEFINE l0 == list[r]
<1>1. l0 \in Lists /\ ScanOK(r)
  BY DEF ScansOK, ScanOK
<1>2. TypeOK'
  BY <1>1 DEF TypeOK
<1>3. Rows' = Rows
  BY DEF Rows
<1>4. ScansOK'
  <2> SUFFICES ASSUME NEW q \in Scans PROVE ScanOK(q)'
    BY DEF ScansOK
  <2>1. CASE q = r
    BY <1>1, <2>1 DEF ScanOK, TypeOK
  <2>2. CASE q # r
    BY <1>3, <2>2, SameListed DEF ScansOK, ScanOK, TypeOK
  <2>3. QED
    BY <2>1, <2>2
<1>5. CompleteUnlessRaced'
  <2> SUFFICES ASSUME NEW l \in Lists, cache'[l] # Null, Settled(l)'
               PROVE  cache'[l].items = Listed(l, cache[l].at)'
    BY DEF CompleteUnlessRaced
  <2>1. CASE l = l0
    <3>1. cache'[l] = read[r]
      BY <2>1 DEF TypeOK
    <3>2. r \notin late
      BY <2>1 DEF Settled
    <3>3. cache'[l].items = Listed(l, cache'[l].at)
      BY <1>1, <2>1, <3>1, <3>2 DEF ScanOK
    <3>4. QED
      BY <1>3, <3>3 DEF Listed, Bookable
  <2>2. CASE l # l0
    <3>1. cache'[l] = cache[l] /\ Settled(l)
      BY <2>2 DEF TypeOK, Settled
    <3>2. QED
      BY <1>3, <3>1 DEF CompleteUnlessRaced, Listed, Bookable
  <2>3. QED
    BY <2>1, <2>2
<1>6. NoListBeforeConcert'
  <2> SUFFICES ASSUME NEW c \in Concerts, cache'[c] # Null PROVE c \in Rows
    BY <1>3 DEF NoListBeforeConcert
  <2>1. CASE c = l0
    BY <1>1, <2>1, CatalogueAssumption DEF ScanOK
  <2>2. CASE c # l0
    BY <2>2 DEF TypeOK, NoListBeforeConcert, Lists
  <2>3. QED
    BY <2>1, <2>2
<1>7. QED
  BY <1>2, <1>4, <1>5, <1>6

(* An insertion unsettles the list of the row and makes its scans late.    *)
LEMMA InsertIInv ==
  ASSUME IInv, NEW x \in Items, Insert(x) PROVE IInv'
<1> USE DEF IInv, Insert
<1>1. TypeOK'
  BY DEF TypeOK, scan
<1>2. Rows' = Rows \cup {x}
  BY InsertRows
<1>3. ScansOK'
  <2> SUFFICES ASSUME NEW q \in Scans PROVE ScanOK(q)'
    BY DEF ScansOK
  <2>1. ScanOK(q)
    BY DEF ScansOK
  <2>2. CASE pc[q] = "setCache" /\ list[q] = ListOf(x)
    BY <1>2, <2>1, <2>2 DEF ScanOK, scan
  <2>3. CASE ~(pc[q] = "setCache" /\ list[q] = ListOf(x))
    <3>1. UNCHANGED <<pc[q], list[q], read[q]>> /\ (q \in late' <=> q \in late)
      BY <2>3 DEF scan
    <3>2. ASSUME pc[q] = "setCache", q \notin late
          PROVE  read'[q].items = Listed(list[q], read[q].at)'
      <4>1. PICK l, time : l = list[q] /\ time = read[q].at
        OBVIOUS
      <4>2. l \in Lists /\ l # ListOf(x) /\ read[q].items = Listed(l, time)
        BY <2>1, <2>3, <3>2, <4>1 DEF ScanOK
      <4>3. Listed(l, time)' = Listed(l, time)
        BY <4>2, InsertListed
      <4>4. Listed(list[q], read[q].at)' = Listed(l, time)'
        BY <3>1, <4>1 DEF Listed, Bookable
      <4>5. QED
        BY <3>1, <4>2, <4>3, <4>4
    <3>3. QED
      BY <1>2, <2>1, <3>1, <3>2 DEF ScanOK
  <2>4. QED
    BY <2>2, <2>3
<1>4. CompleteUnlessRaced'
  <2> SUFFICES ASSUME NEW l \in Lists, cache'[l] # Null, Settled(l)'
               PROVE  cache'[l].items = Listed(l, cache[l].at)'
    BY DEF CompleteUnlessRaced
  <2>1. l # ListOf(x)
    BY DEF Settled, TypeOK
  <2>2. Settled(l)
    BY <2>1 DEF Settled, TypeOK
  <2>3. PICK time : time = cache[l].at
    OBVIOUS
  <2>4. Listed(l, time)' = Listed(l, time)
    BY <2>1, InsertListed
  <2>5. Listed(l, cache[l].at)' = Listed(l, time)'
    BY <2>3 DEF Listed, Bookable
  <2>6. QED
    BY <2>2, <2>3, <2>4, <2>5 DEF CompleteUnlessRaced
<1>5. NoListBeforeConcert'
  BY <1>2 DEF NoListBeforeConcert
<1>6. QED
  BY <1>1, <1>3, <1>4, <1>5

LEMMA EvictIInv ==
  ASSUME IInv, NEW x \in Items, Evict(x) PROVE IInv'
<1> USE DEF IInv, Evict
<1>1. TypeOK' /\ Rows' = Rows
  BY EndRows, ListOfItem DEF TypeOK, scan
<1>2. ScansOK'
  <2> SUFFICES ASSUME NEW q \in Scans PROVE ScanOK(q)'
    BY DEF ScansOK
  <2>1. ScanOK(q) /\ UNCHANGED <<pc, list, read>>
    BY DEF ScansOK, scan
  <2>2. QED
    BY <1>1, <2>1 DEF ScanOK, Listed, Bookable
<1>3. CompleteUnlessRaced'
  <2> SUFFICES ASSUME NEW l \in Lists, cache'[l] # Null, Settled(l)'
               PROVE  cache'[l].items = Listed(l, cache[l].at)'
    BY DEF CompleteUnlessRaced
  <2>1. l # ListOf(x) /\ cache'[l] = cache[l]
    BY DEF TypeOK
  <2>2. Settled(l)
    BY <2>1 DEF Settled, TypeOK
  <2>3. QED
    BY <1>1, <2>1, <2>2 DEF CompleteUnlessRaced, Listed, Bookable
<1>4. NoListBeforeConcert'
  BY <1>1 DEF NoListBeforeConcert, TypeOK, Lists
<1>5. QED
  BY <1>1, <1>2, <1>3, <1>4

LEMMA CrashIInv ==
  ASSUME IInv, NEW x \in Items, CrashBeforeEvict(x) PROVE IInv'
<1> USE DEF IInv, CrashBeforeEvict
<1>1. TypeOK' /\ Rows' = Rows
  BY EndRows, ListOfItem DEF TypeOK, scan
<1>2. ScansOK'
  <2> SUFFICES ASSUME NEW q \in Scans PROVE ScanOK(q)'
    BY DEF ScansOK
  <2>1. ScanOK(q) /\ UNCHANGED <<pc, list, read>>
    BY DEF ScansOK, scan
  <2>2. QED
    BY <1>1, <2>1 DEF ScanOK, Listed, Bookable
<1>3. CompleteUnlessRaced'
  <2> SUFFICES ASSUME NEW l \in Lists, cache'[l] # Null, Settled(l)'
               PROVE  cache'[l].items = Listed(l, cache[l].at)'
    BY DEF CompleteUnlessRaced
  <2>1. l # ListOf(x)
    BY DEF Settled
  <2>2. Settled(l)
    BY <2>1 DEF Settled, TypeOK
  <2>3. QED
    BY <1>1, <2>2 DEF CompleteUnlessRaced, Listed, Bookable
<1>4. NoListBeforeConcert'
  BY <1>1 DEF NoListBeforeConcert
<1>5. QED
  BY <1>1, <1>2, <1>3, <1>4

LEMMA QuietIInv ==
  ASSUME IInv, Tick \/ UNCHANGED vars PROVE IInv'
<1>1. UNCHANGED <<creation, cache, scan, late, spoilt>>
  BY DEF Tick, vars
<1>2. Rows' = Rows /\ TypeOK'
  BY <1>1, CatalogueAssumption DEF Rows, IInv, TypeOK, Tick, vars, scan
<1>3. QED
  BY <1>1, <1>2, SameListed
  DEF IInv, ScansOK, ScanOK, CompleteUnlessRaced, NoListBeforeConcert, Settled, scan

LEMMA InductiveInv == Spec => []IInv
<1>1. IInv /\ [Next]_vars => IInv'
  <2> SUFFICES ASSUME IInv, [Next]_vars PROVE IInv'
    OBVIOUS
  <2>1. ASSUME NEW r \in Scans, GetCache(r) \/ ReadConcert(r) \/ ReadList(r) \/ SetCache(r)
        PROVE  IInv'
    BY <2>1, GetCacheIInv, ReadConcertIInv, ReadListIInv, SetCacheIInv
  <2>2. ASSUME NEW c \in Concerts, CreateConcert(c) PROVE IInv'
    BY <2>2, InsertIInv DEF CreateConcert, Items
  <2>3. ASSUME NEW s \in Schedules, CreateSchedule(s) PROVE IInv'
    BY <2>3, InsertIInv DEF CreateSchedule, Items
  <2>4. ASSUME NEW x \in Items, Evict(x) \/ CrashBeforeEvict(x) PROVE IInv'
    BY <2>4, EvictIInv, CrashIInv
  <2>5. CASE Tick \/ UNCHANGED vars
    BY <2>5, QuietIInv
  <2>6. QED
    BY <2>1, <2>2, <2>3, <2>4, <2>5 DEF Next
<1>2. QED
  BY <1>1, InitIInv, PTL DEF Spec

(* Every reachable state is well typed: what is cached is a list of rows   *)
(* that exist, under a key that some scan asks for.                        *)
THEOREM CatalogueTypeCorrect == Spec => []TypeOK
BY InductiveInv, PTL DEF IInv

(* A cached list is complete, however many scans fill it and creations     *)
(* evict it, except after the two races the code leaves open.              *)
THEOREM CachedListComplete == Spec => []CompleteUnlessRaced
BY InductiveInv, PTL DEF IInv

(* No list of schedules is cached for a concert that is not there.         *)
THEOREM ConcertBeforeList == Spec => []NoListBeforeConcert
BY InductiveInv, PTL DEF IInv

(* A list holds the same schedules at two times between which none opens   *)
(* or closes for booking.                                                  *)
SameBookable(l, time) ==
  \A s \in Schedules : ConcertOf[s] = l => (Bookable(s, time) <=> Bookable(s, now))

CurrentBetweenChanges ==
  \A l \in Lists :
    cache[l] # Null /\ Settled(l) /\ (l = AllConcerts \/ SameBookable(l, cache[l].at)) =>
      cache[l].items = Listed(l, now)

(* Time is all that makes a settled list stale: the list of concerts, which*)
(* depends on no time, is always current, and so is a list of schedules for*)
(* as long as none of the concert's opens or closes for booking after it   *)
(* was read (CachedListIsCurrent, without that condition, does not hold).  *)
THEOREM OnlyTimeMakesStale == Spec => []CurrentBetweenChanges
<1>1. CompleteUnlessRaced => CurrentBetweenChanges
  <2> SUFFICES ASSUME CompleteUnlessRaced, NEW l \in Lists, cache[l] # Null, Settled(l),
                      l = AllConcerts \/ SameBookable(l, cache[l].at)
               PROVE  cache[l].items = Listed(l, now)
    BY DEF CurrentBetweenChanges
  <2>1. cache[l].items = Listed(l, cache[l].at)
    BY DEF CompleteUnlessRaced
  <2>2. Listed(l, cache[l].at) = Listed(l, now)
    BY DEF Listed, SameBookable
  <2>3. QED
    BY <2>1, <2>2
<1>2. QED
  BY <1>1, CachedListComplete, PTL
=============================================================================
