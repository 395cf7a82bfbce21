-------------------------- MODULE RateLimitProofs --------------------------
(***************************************************************************)
(* The limits of RateLimit hold for every number of clients and requests,  *)
(* every setting of the three limits and every length of the periods.      *)
(*                                                                         *)
(* The limits are not inductive alone: an admission is counted against the *)
(* deques, so the deques must still hold every admission that can share a  *)
(* window with it (Kept), and a request may carry an old time (Waiting).   *)
(***************************************************************************)
EXTENDS RateLimit, FiniteSetTheorems, TLAPS

(* A request that waits for the lock read the clock at most MaxLag ago.     *)
Waiting ==
    \A r \in Requests : stamped[r] # None =>
        stamped[r].at <= clock /\ clock - stamped[r].at <= MaxLag

(* An admission that a deque has dropped is more than a day old.            *)
Kept ==
    \A i \in DOMAIN log :
        /\ i \notin all => clock - log[i].at > Day
        /\ i \notin perIp[log[i].client] => clock - log[i].at > Day

Bookkeeping == TypeOK /\ Waiting /\ Kept

-----------------------------------------------------------------------------
(* One more element than a part of what was counted keeps a limit that the  *)
(* count was below.                                                         *)
LEMMA OneMore ==
    ASSUME NEW S, NEW T, IsFiniteSet(T), S \subseteq T, NEW x, NEW limit \in Nat,
           Cardinality(T) < limit
    PROVE  Cardinality(S \cup {x}) <= limit
<1>1. IsFiniteSet(S) /\ Cardinality(S) <= Cardinality(T)
  BY FS_Subset
<1>2. Cardinality(S) \in Nat /\ Cardinality(T) \in Nat
  BY <1>1, FS_CardinalityType
<1>3. Cardinality(S \cup {x}) <= Cardinality(S) + 1
  BY <1>1, <1>2, FS_AddElement
<1>4. IsFiniteSet(S \cup {x}) /\ Cardinality(S \cup {x}) \in Nat
  BY <1>1, FS_AddElement, FS_CardinalityType
<1>. QED
  BY <1>1, <1>2, <1>3, <1>4

(* The constants are numbers.                                               *)
LEMMA Numbers ==
    /\ Minute \in Nat /\ Day \in Nat /\ MaxLag \in Nat /\ MaxClock \in Nat
    /\ PerMinute \in Nat /\ PerDay \in Nat /\ GlobalPerDay \in Nat
    /\ Minute + MaxLag <= Day
  BY ConstantsAssumption

(* A logged admission has a client and a time.                              *)
LEMMA Logged ==
    ASSUME TypeOK, NEW i \in DOMAIN log
    PROVE  log[i] \in Stamp /\ log[i].client \in Clients /\ log[i].at \in Nat
<1>1. log \in Seq(Stamp) /\ DOMAIN log = 1 .. Len(log)
  BY DEF TypeOK
<1>2. log[i] \in Stamp
  BY <1>1
<1>. QED
  BY <1>2, Numbers DEF Stamp

(* The positions of a log are a finite set, and so is any part of them.     *)
LEMMA PositionsFinite ==
    ASSUME TypeOK, NEW S \in SUBSET DOMAIN log
    PROVE  IsFiniteSet(S)
<1>1. DOMAIN log = 1 .. Len(log) /\ Len(log) \in Nat
  BY DEF TypeOK
<1>2. IsFiniteSet(1 .. Len(log))
  BY <1>1, FS_Interval
<1>. QED
  BY <1>1, <1>2, FS_Subset

(* What pruning leaves out is more than a day older than the request.       *)
LEMMA PrunedKeepsADay ==
    ASSUME NEW deque \in SUBSET DOMAIN log, NEW n \in Int, TypeOK
    PROVE  /\ Pruned(deque, n) \subseteq deque
           /\ \A i \in deque : n - log[i].at <= Day => i \in Pruned(deque, n)
<1>1. \A i \in deque : i <= i
  BY DEF TypeOK
<1>. QED
  BY <1>1 DEF Pruned

(* Appending keeps the elements there are and adds one behind them.         *)
LEMMA AppendKeeps ==
    ASSUME NEW S, NEW s \in Seq(S), NEW e \in S
    PROVE  /\ Append(s, e) \in Seq(S)
           /\ DOMAIN Append(s, e) = DOMAIN s \cup {Len(s) + 1}
           /\ \A i \in DOMAIN s : Append(s, e)[i] = s[i]
           /\ Append(s, e)[Len(s) + 1] = e
<1>1. Len(s) \in Nat /\ DOMAIN s = 1 .. Len(s)
  OBVIOUS
<1>2. Append(s, e) \in Seq(S) /\ Len(Append(s, e)) = Len(s) + 1
  OBVIOUS
<1>3. DOMAIN Append(s, e) = 1 .. Len(s) + 1
  BY <1>1, <1>2
<1>4. DOMAIN Append(s, e) = DOMAIN s \cup {Len(s) + 1}
  BY <1>1, <1>3
<1>. QED
  BY <1>1, <1>2, <1>4

-----------------------------------------------------------------------------
LEMMA BookkeepingInit == Init => Bookkeeping
<1>. SUFFICES ASSUME Init PROVE Bookkeeping
  OBVIOUS
<1>1. TypeOK
  BY ConstantsAssumption DEF Init, TypeOK
<1>2. Waiting /\ Kept
  BY DEF Init, Waiting, Kept
<1>. QED
  BY <1>1, <1>2 DEF Bookkeeping

LEMMA CheckBookkeeping ==
    ASSUME Bookkeeping, NEW r \in Requests, Check(r)
    PROVE  Bookkeeping'
<1>. DEFINE n == stamped[r].at
            c == stamped[r].client
            every == Pruned(all, n)
            hits == Pruned(perIp[c], n)
            admitted == Admits(hits, every, n)
            new == IF admitted THEN {Len(log) + 1} ELSE {}
<1>0. /\ stamped[r] \in Stamp /\ n \in 0 .. MaxClock /\ c \in Clients
      /\ n <= clock /\ clock \in Nat /\ n \in Nat
  BY Numbers DEF Check, Bookkeeping, TypeOK, Waiting, Stamp
<1>1. /\ all' = every \cup new
      /\ perIp' = [perIp EXCEPT ![c] = hits \cup new]
      /\ log' = IF new = {} THEN log ELSE Append(log, stamped[r])
      /\ stamped' = [stamped EXCEPT ![r] = None]
      /\ clock' = clock
  BY DEF Check
<1>2. /\ every \subseteq DOMAIN log /\ hits \subseteq DOMAIN log
      /\ every \subseteq all /\ hits \subseteq perIp[c]
      /\ \A i \in all : n - log[i].at <= Day => i \in every
      /\ \A i \in perIp[c] : n - log[i].at <= Day => i \in hits
  BY <1>0, PrunedKeepsADay DEF Bookkeeping, TypeOK
<1>3. log \in Seq(Stamp) /\ Len(log) \in Nat /\ DOMAIN log = 1 .. Len(log)
  BY DEF Bookkeeping, TypeOK
<1>3a. new = {} \/ new = {Len(log) + 1}
  OBVIOUS
<1>. HIDE DEF every, hits, admitted, new
<1>4. \/ new = {} /\ log' = log
      \/ /\ new = {Len(log) + 1} /\ log' \in Seq(Stamp)
         /\ DOMAIN log' = DOMAIN log \cup {Len(log) + 1}
         /\ \A i \in DOMAIN log : log'[i] = log[i]
         /\ log'[Len(log) + 1] = stamped[r]
  <2>1. CASE new = {}
    BY <1>1, <2>1
  <2>2. CASE new = {Len(log) + 1}
    <3>1. log' = Append(log, stamped[r])
      BY <1>1, <2>2
    <3>2. /\ Append(log, stamped[r]) \in Seq(Stamp)
          /\ DOMAIN Append(log, stamped[r]) = DOMAIN log \cup {Len(log) + 1}
          /\ \A i \in DOMAIN log : Append(log, stamped[r])[i] = log[i]
          /\ Append(log, stamped[r])[Len(log) + 1] = stamped[r]
      BY <1>0, <1>3, AppendKeeps
    <3>. QED
      BY <2>2, <3>1, <3>2, Zenon
  <2>. QED
    BY <1>3a, <2>1, <2>2
<1>5. TypeOK'
  <2>1. log' \in Seq(Stamp) /\ new \subseteq DOMAIN log' /\ DOMAIN log \subseteq DOMAIN log'
    BY <1>0, <1>3, <1>4
  <2>2. perIp' \in [Clients -> SUBSET DOMAIN log'] /\ all' \subseteq DOMAIN log'
    BY <1>1, <1>2, <2>1 DEF Bookkeeping, TypeOK
  <2>3. stamped' \in [Requests -> Stamp \cup {None}] /\ clock' \in 0 .. MaxClock
    BY <1>1 DEF Bookkeeping, TypeOK
  <2>. QED
    BY <2>1, <2>2, <2>3 DEF TypeOK
<1>6. Waiting'
  BY <1>1 DEF Bookkeeping, TypeOK, Waiting
<1>7. Kept'
  <2>1. ASSUME NEW i \in DOMAIN log
        PROVE  /\ i \notin all' => clock' - log'[i].at > Day
               /\ i \notin perIp'[log'[i].client] => clock' - log'[i].at > Day
    <3>1. log'[i] = log[i] /\ log[i] \in Stamp /\ log[i].at \in Nat /\ log[i].client \in Clients
      BY <1>4, Logged DEF Bookkeeping
    <3>2. Day \in Nat
      BY Numbers
    <3>3. i \notin all' => clock' - log'[i].at > Day
      BY <1>0, <1>1, <1>2, <3>1, <3>2 DEF Bookkeeping, Kept
    <3>4. CASE log[i].client = c
      <4>1. perIp'[log'[i].client] = hits \cup new
        BY <1>0, <1>1, <3>1, <3>4 DEF Bookkeeping, TypeOK
      <4>2. i \notin perIp'[log'[i].client] => clock - log[i].at > Day
        BY <1>0, <1>2, <3>1, <3>2, <3>4, <4>1 DEF Bookkeeping, Kept
      <4>. QED
        BY <1>1, <3>1, <3>3, <4>2
    <3>5. CASE log[i].client # c
      <4>1. perIp'[log'[i].client] = perIp[log[i].client]
        BY <1>0, <1>1, <3>1, <3>5 DEF Bookkeeping, TypeOK
      <4>. QED
        BY <1>1, <3>1, <3>3, <4>1 DEF Bookkeeping, Kept
    <3>. QED
      BY <3>4, <3>5
  <2>2. ASSUME new # {}
        PROVE  Len(log) + 1 \in all' /\ Len(log) + 1 \in perIp'[log'[Len(log) + 1].client]
    <3>1. log'[Len(log) + 1].client = c /\ new = {Len(log) + 1}
      BY <1>4, <2>2
    <3>. QED
      BY <1>0, <1>1, <3>1 DEF Bookkeeping, TypeOK
  <2>. QED
    BY <1>4, <2>1, <2>2 DEF Kept
<1>. QED
  BY <1>5, <1>6, <1>7 DEF Bookkeeping

LEMMA BookkeepingStep == Bookkeeping /\ [Next]_vars => Bookkeeping'
<1>. SUFFICES ASSUME Bookkeeping, [Next]_vars PROVE Bookkeeping'
  OBVIOUS
<1>1. CASE Tick
  <2>1. TypeOK'
    BY <1>1, Numbers DEF Bookkeeping, TypeOK, Tick
  <2>2. Waiting'
    <3>. SUFFICES ASSUME NEW r \in Requests, stamped'[r] # None
                  PROVE  stamped'[r].at <= clock' /\ clock' - stamped'[r].at <= MaxLag
      BY DEF Waiting
    <3>1. stamped' = stamped /\ clock' = clock + 1 /\ clock + 1 - stamped[r].at <= MaxLag
      BY <1>1 DEF Tick
    <3>2. stamped[r].at \in Int /\ clock \in Int
      BY <3>1, Numbers DEF Bookkeeping, TypeOK, Stamp
    <3>. QED
      BY <3>1, <3>2 DEF Bookkeeping, Waiting
  <2>3. Kept'
    <3>. SUFFICES ASSUME NEW i \in DOMAIN log'
                  PROVE  /\ i \notin all' => clock' - log'[i].at > Day
                         /\ i \notin perIp'[log'[i].client] => clock' - log'[i].at > Day
      BY DEF Kept
    <3>1. log' = log /\ all' = all /\ perIp' = perIp /\ clock' = clock + 1
      BY <1>1 DEF Tick
    <3>2. log[i].at \in Int /\ clock \in Int /\ Day \in Int
      BY <3>1, Logged, Numbers DEF Bookkeeping, TypeOK
    <3>. QED
      BY <3>1, <3>2 DEF Bookkeeping, Kept
  <2>. QED
    BY <2>1, <2>2, <2>3 DEF Bookkeeping
<1>2. ASSUME NEW r \in Requests, NEW c \in Clients, ReadClock(r, c)
      PROVE  Bookkeeping'
  <2>1. [client |-> c, at |-> clock] \in Stamp
    BY DEF Bookkeeping, TypeOK, Stamp
  <2>2. TypeOK'
    BY <1>2, <2>1 DEF Bookkeeping, TypeOK, ReadClock
  <2>3. Waiting'
    BY <1>2, <2>1, Numbers DEF Bookkeeping, TypeOK, Waiting, ReadClock
  <2>4. Kept'
    BY <1>2 DEF Bookkeeping, Kept, ReadClock
  <2>. QED
    BY <2>2, <2>3, <2>4 DEF Bookkeeping
<1>3. ASSUME NEW r \in Requests, Check(r)
      PROVE  Bookkeeping'
  BY <1>3, CheckBookkeeping
<1>4. CASE Reset
  <2>1. TypeOK'
    BY <1>4 DEF Bookkeeping, TypeOK, Reset
  <2>2. Waiting' /\ Kept'
    BY <1>4 DEF Bookkeeping, Waiting, Kept, Reset
  <2>. QED
    BY <2>1, <2>2 DEF Bookkeeping
<1>5. CASE UNCHANGED vars
  BY <1>5 DEF Bookkeeping, TypeOK, Waiting, Kept, Stamp, vars
<1>. QED
  BY <1>1, <1>2, <1>3, <1>4, <1>5 DEF Next
-----------------------------------------------------------------------------
(* While the bookkeeping is right, an admission compares each limit with at *)
(* least the admissions of its client (or of all) that lie in a window with *)
(* it.                                                                      *)
LEMMA CountedForClient ==
    ASSUME Bookkeeping, NEW r \in Requests, stamped[r] # None,
           NEW from \in Int, NEW length \in Int, length + MaxLag <= Day,
           from <= stamped[r].at, stamped[r].at <= from + length
    PROVE  InWindow(from, length) \cap OfClient(stamped[r].client)
             \subseteq Pruned(perIp[stamped[r].client], stamped[r].at)
<1>. DEFINE n == stamped[r].at
            c == stamped[r].client
<1>1. /\ n \in Int /\ c \in Clients /\ clock \in Int
      /\ clock - n <= MaxLag /\ perIp[c] \subseteq DOMAIN log
  BY Numbers DEF Bookkeeping, TypeOK, Waiting, Stamp
<1>2. ASSUME NEW i \in InWindow(from, length) \cap OfClient(c)
      PROVE  i \in Pruned(perIp[c], n)
  <2>1. /\ i \in DOMAIN log /\ from <= log[i].at /\ log[i].at <= from + length
        /\ log[i].client = c
    BY <1>2 DEF InWindow, OfClient
  <2>2. log[i].at \in Nat
    BY <2>1, Logged DEF Bookkeeping
  <2>3. n - log[i].at <= length /\ n - log[i].at <= Day - MaxLag
    BY <1>1, <2>1, <2>2, Numbers
  <2>4. i \in perIp[c]
    <3>1. clock - log[i].at <= Day
      BY <1>1, <2>2, <2>3, Numbers
    <3>2. i \notin perIp[log[i].client] => clock - log[i].at > Day
      BY <2>1 DEF Bookkeeping, Kept
    <3>. QED
      BY <1>1, <2>1, <2>2, <3>1, <3>2, Numbers
  <2>5. n - log[i].at <= Day
    BY <1>1, <2>2, <2>3, Numbers
  <2>. QED
    BY <1>1, <2>4, <2>5, PrunedKeepsADay DEF Bookkeeping
<1>. QED
  BY <1>2

LEMMA CountedForAll ==
    ASSUME Bookkeeping, NEW r \in Requests, stamped[r] # None,
           NEW from \in Int, NEW length \in Int, length + MaxLag <= Day,
           from <= stamped[r].at, stamped[r].at <= from + length
    PROVE  InWindow(from, length) \subseteq Pruned(all, stamped[r].at)
<1>. DEFINE n == stamped[r].at
<1>1. n \in Int /\ clock \in Int /\ clock - n <= MaxLag /\ all \subseteq DOMAIN log
  BY Numbers DEF Bookkeeping, TypeOK, Waiting, Stamp
<1>2. ASSUME NEW i \in InWindow(from, length)
      PROVE  i \in Pruned(all, n)
  <2>1. i \in DOMAIN log /\ from <= log[i].at /\ log[i].at <= from + length
    BY <1>2 DEF InWindow
  <2>2. log[i].at \in Nat
    BY <2>1, Logged DEF Bookkeeping
  <2>3. n - log[i].at <= length /\ n - log[i].at <= Day - MaxLag
    BY <1>1, <2>1, <2>2, Numbers
  <2>4. i \in all
    <3>1. clock - log[i].at <= Day
      BY <1>1, <2>2, <2>3, Numbers
    <3>. QED
      BY <1>1, <2>1, <2>2, <3>1, Numbers DEF Bookkeeping, Kept
  <2>5. n - log[i].at <= Day
    BY <1>1, <2>2, <2>3, Numbers
  <2>. QED
    BY <1>1, <2>4, <2>5, PrunedKeepsADay DEF Bookkeeping
<1>. QED
  BY <1>2

(* How a step changes a window: not at all, it is emptied, or the admitted  *)
(* request joins it.                                                        *)
Joins(r) ==
    /\ Check(r)
    /\ Admits(Pruned(perIp[stamped[r].client], stamped[r].at), Pruned(all, stamped[r].at), stamped[r].at)
    /\ log' = Append(log, stamped[r])

LEMMA LogSteps ==
    ASSUME Bookkeeping, [Next]_vars
    PROVE  log' = log \/ log' = <<>> \/ \E r \in Requests : Joins(r)
<1>1. ASSUME NEW r \in Requests, Check(r)
      PROVE  log' = log \/ Joins(r)
  BY <1>1 DEF Check, Joins
<1>2. CASE Tick \/ Reset \/ UNCHANGED vars
  BY <1>2 DEF Tick, Reset, vars
<1>3. ASSUME NEW r \in Requests, NEW c \in Clients, ReadClock(r, c)
      PROVE  log' = log
  BY <1>3 DEF ReadClock
<1>. QED
  BY <1>1, <1>2, <1>3 DEF Next

LEMMA WindowOfJoined ==
    ASSUME Bookkeeping, NEW r \in Requests, Joins(r), NEW from \in Int, NEW length \in Int
    PROVE  /\ \A d \in Clients :
                 OfClient(d)' = IF d = stamped[r].client THEN OfClient(d) \cup {Len(log) + 1}
                                                         ELSE OfClient(d)
           /\ InWindow(from, length)' =
                IF from <= stamped[r].at /\ stamped[r].at <= from + length
                  THEN InWindow(from, length) \cup {Len(log) + 1} ELSE InWindow(from, length)
<1>1. log \in Seq(Stamp) /\ stamped[r] \in Stamp
  BY DEF Bookkeeping, TypeOK, Joins, Check
<1>2. /\ DOMAIN log' = DOMAIN log \cup {Len(log) + 1}
      /\ \A i \in DOMAIN log : log'[i] = log[i]
      /\ log'[Len(log) + 1] = stamped[r]
  BY <1>1, AppendKeeps DEF Joins
<1>3. ASSUME NEW d \in Clients
      PROVE  OfClient(d)' = IF d = stamped[r].client THEN OfClient(d) \cup {Len(log) + 1}
                                                     ELSE OfClient(d)
  BY <1>2 DEF OfClient
<1>4. InWindow(from, length)' =
        IF from <= stamped[r].at /\ stamped[r].at <= from + length
          THEN InWindow(from, length) \cup {Len(log) + 1} ELSE InWindow(from, length)
  BY <1>2 DEF InWindow
<1>. QED
  BY <1>3, <1>4

-----------------------------------------------------------------------------
LEMMA LimitsInit == Init => Limits
<1>. SUFFICES ASSUME Init PROVE Limits
  OBVIOUS
<1>1. \A from, length : InWindow(from, length) = {}
  BY DEF Init, InWindow
<1>2. \A from, length, c : InWindow(from, length) \cap OfClient(c) = {}
  BY <1>1
<1>. QED
  BY <1>1, <1>2, FS_EmptySet, Numbers DEF Limits, MinuteLimit, DayLimit, GlobalDayLimit

(* The counts of a step that admits the request r.                          *)
LEMMA JoinedClientWindow ==
    ASSUME Bookkeeping, NEW r \in Requests, Joins(r), NEW c \in Clients, NEW from \in Int,
           NEW length \in Int, length + MaxLag <= Day, NEW limit \in Nat,
           Cardinality(InWindow(from, length) \cap OfClient(c)) <= limit,
           NEW counted, IsFiniteSet(counted), Cardinality(counted) < limit,
           (c = stamped[r].client /\ from <= stamped[r].at /\ stamped[r].at <= from + length)
             => InWindow(from, length) \cap OfClient(c) \subseteq counted
    PROVE  Cardinality((InWindow(from, length) \cap OfClient(c))') <= limit
<1>1. CASE c = stamped[r].client /\ from <= stamped[r].at /\ stamped[r].at <= from + length
  <2>1. (InWindow(from, length) \cap OfClient(c))' =
          (InWindow(from, length) \cap OfClient(c)) \cup {Len(log) + 1}
    BY <1>1, WindowOfJoined
  <2>. QED
    BY <1>1, <2>1, OneMore
<1>2. CASE ~(c = stamped[r].client /\ from <= stamped[r].at /\ stamped[r].at <= from + length)
  <2>1. Len(log) + 1 \notin DOMAIN log
    BY DEF Bookkeeping, TypeOK
  <2>2. Len(log) + 1 \notin InWindow(from, length) /\ Len(log) + 1 \notin OfClient(c)
    BY <2>1 DEF InWindow, OfClient
  <2>3. (InWindow(from, length) \cap OfClient(c))' = InWindow(from, length) \cap OfClient(c)
    BY <1>2, <2>2, WindowOfJoined
  <2>. QED
    BY <2>3
<1>. QED
  BY <1>1, <1>2

LEMMA JoinedWindow ==
    ASSUME Bookkeeping, NEW r \in Requests, Joins(r), NEW from \in Int,
           NEW length \in Int, length + MaxLag <= Day, NEW limit \in Nat,
           Cardinality(InWindow(from, length)) <= limit,
           Cardinality(Pruned(all, stamped[r].at)) < limit
    PROVE  Cardinality(InWindow(from, length)') <= limit
<1>1. stamped[r] # None /\ stamped[r].at \in Int
  BY Numbers DEF Joins, Check, Bookkeeping, TypeOK, Stamp
<1>2. IsFiniteSet(Pruned(all, stamped[r].at))
  BY PositionsFinite DEF Pruned, Bookkeeping, TypeOK
<1>3. CASE from <= stamped[r].at /\ stamped[r].at <= from + length
  <2>1. InWindow(from, length)' = InWindow(from, length) \cup {Len(log) + 1}
    BY <1>3, WindowOfJoined
  <2>2. InWindow(from, length) \subseteq Pruned(all, stamped[r].at)
    BY <1>1, <1>3, CountedForAll
  <2>. QED
    BY <1>2, <2>1, <2>2, OneMore
<1>4. CASE ~(from <= stamped[r].at /\ stamped[r].at <= from + length)
  <2>1. InWindow(from, length)' = InWindow(from, length)
    BY <1>4, WindowOfJoined
  <2>. QED
    BY <2>1
<1>. QED
  BY <1>3, <1>4

LEMMA LimitsJoined ==
    ASSUME Bookkeeping, Limits, NEW r \in Requests, Joins(r)
    PROVE  Limits'
<1>. DEFINE n == stamped[r].at
            hits == Pruned(perIp[stamped[r].client], n)
            every == Pruned(all, n)
<1>1. /\ stamped[r] # None /\ n \in Int /\ stamped[r].client \in Clients
      /\ Below(Cardinality(every), GlobalPerDay)
      /\ Below(Cardinality(hits), PerDay)
      /\ Below(Cardinality(Recent(hits, n)), PerMinute)
  BY Numbers DEF Joins, Check, Admits, Bookkeeping, TypeOK, Stamp
<1>2. hits \subseteq DOMAIN log /\ Recent(hits, n) \subseteq DOMAIN log
  BY <1>1 DEF Pruned, Recent, Bookkeeping, TypeOK
<1>3. IsFiniteSet(hits) /\ IsFiniteSet(Recent(hits, n))
  BY <1>2, PositionsFinite DEF Bookkeeping
<1>4. Day - MaxLag \in Int /\ Minute \in Int /\ MaxClock \in Int
  BY Numbers
<1>5. MinuteLimit'
  <2>. SUFFICES ASSUME PerMinute > 0, NEW c \in Clients, NEW from \in 0 .. MaxClock
                PROVE  Cardinality((InWindow(from, Minute) \cap OfClient(c))') <= PerMinute
    BY DEF MinuteLimit
  <2>1. Cardinality(InWindow(from, Minute) \cap OfClient(c)) <= PerMinute
    BY DEF Limits, MinuteLimit
  <2>2. Cardinality(Recent(hits, n)) < PerMinute
    BY <1>1, Numbers DEF Below
  <2>3. ASSUME c = stamped[r].client, from <= n, n <= from + Minute
        PROVE  InWindow(from, Minute) \cap OfClient(c) \subseteq Recent(hits, n)
    <3>1. InWindow(from, Minute) \cap OfClient(c) \subseteq hits
      BY <1>1, <1>4, <2>3, Numbers, CountedForClient
    <3>2. ASSUME NEW i \in InWindow(from, Minute)
          PROVE  n - log[i].at <= Minute
      <4>1. i \in DOMAIN log /\ from <= log[i].at
        BY DEF InWindow
      <4>2. log[i].at \in Nat
        BY <4>1, Logged DEF Bookkeeping
      <4>. QED
        BY <1>1, <1>4, <2>3, <4>1, <4>2
    <3>. QED
      BY <3>1, <3>2 DEF Recent
  <2>. QED
    BY <1>3, <1>4, <2>1, <2>2, <2>3, Numbers, JoinedClientWindow
<1>6. DayLimit'
  <2>. SUFFICES ASSUME PerDay > 0, NEW c \in Clients, NEW from \in 0 .. MaxClock
                PROVE  Cardinality((InWindow(from, Day - MaxLag) \cap OfClient(c))') <= PerDay
    BY DEF DayLimit
  <2>1. Cardinality(InWindow(from, Day - MaxLag) \cap OfClient(c)) <= PerDay
    BY DEF Limits, DayLimit
  <2>2. Cardinality(hits) < PerDay
    BY <1>1, Numbers DEF Below
  <2>3. ASSUME c = stamped[r].client, from <= n, n <= from + (Day - MaxLag)
        PROVE  InWindow(from, Day - MaxLag) \cap OfClient(c) \subseteq hits
    BY <1>1, <1>4, <2>3, Numbers, CountedForClient
  <2>. QED
    BY <1>3, <1>4, <2>1, <2>2, <2>3, Numbers, JoinedClientWindow
<1>7. GlobalDayLimit'
  <2>. SUFFICES ASSUME GlobalPerDay > 0, NEW from \in 0 .. MaxClock
                PROVE  Cardinality(InWindow(from, Day - MaxLag)') <= GlobalPerDay
    BY DEF GlobalDayLimit
  <2>1. Cardinality(InWindow(from, Day - MaxLag)) <= GlobalPerDay
    BY DEF Limits, GlobalDayLimit
  <2>2. Cardinality(every) < GlobalPerDay
    BY <1>1, Numbers DEF Below
  <2>. QED
    BY <1>4, <2>1, <2>2, Numbers, JoinedWindow
<1>. QED
  BY <1>5, <1>6, <1>7 DEF Limits

LEMMA LimitsStep == Bookkeeping /\ Limits /\ [Next]_vars => Limits'
<1>. SUFFICES ASSUME Bookkeeping, Limits, [Next]_vars PROVE Limits'
  OBVIOUS
<1>1. CASE log' = log
  BY <1>1 DEF Limits, MinuteLimit, DayLimit, GlobalDayLimit, InWindow, OfClient
<1>2. CASE log' = <<>>
  <2>1. \A from, length : InWindow(from, length)' = {}
    BY <1>2 DEF InWindow
  <2>2. \A from, length, c : (InWindow(from, length) \cap OfClient(c))' = {}
    BY <2>1
  <2>3. MinuteLimit'
    BY <2>2, FS_EmptySet, Numbers DEF MinuteLimit
  <2>4. DayLimit'
    BY <2>2, FS_EmptySet, Numbers DEF DayLimit
  <2>5. GlobalDayLimit'
    BY <2>1, FS_EmptySet, Numbers DEF GlobalDayLimit
  <2>. QED
    BY <2>3, <2>4, <2>5 DEF Limits
<1>3. ASSUME NEW r \in Requests, Joins(r)
      PROVE  Limits'
  BY <1>3, LimitsJoined
<1>. QED
  BY <1>1, <1>2, <1>3, LogSteps

-----------------------------------------------------------------------------
(* What holds in every reachable state; the two theorems are parts of it.   *)
LEMMA Always == Spec => [](Bookkeeping /\ Limits)
<1>1. Init => Bookkeeping /\ Limits
  BY BookkeepingInit, LimitsInit
<1>2. Bookkeeping /\ Limits /\ [Next]_vars => (Bookkeeping /\ Limits)'
  BY BookkeepingStep, LimitsStep
<1>. QED
  BY <1>1, <1>2, PTL DEF Spec

(* The deques only ever hold stamps of admissions that were made.           *)
THEOREM TypeCorrect == Spec => []TypeOK
<1>1. Bookkeeping => TypeOK
  BY DEF Bookkeeping
<1>. QED
  BY <1>1, Always, PTL

(* No address is admitted more than FLOODOPS_AGENT_PER_MINUTE times in any  *)
(* minute, nor more than FLOODOPS_AGENT_PER_DAY times in any day less       *)
(* MaxLag, and all addresses together stay within                           *)
(* FLOODOPS_AGENT_GLOBAL_PER_DAY, however requests overtake each other on   *)
(* the way to the lock.                                                     *)
THEOREM LimitsHold == Spec => []Limits
  BY Always, PTL
=============================================================================
