----------------------------- MODULE RateLimit -----------------------------
(***************************************************************************)
(* AgentRateLimiter of backend/app/rate_limit.py: the in-memory limits on  *)
(* the requests that spend the external LLM quota.                         *)
(*                                                                         *)
(* check() reads the clock and only then takes the lock, so requests enter *)
(* the critical section with times that are out of order by up to MaxLag.  *)
(* `log` is the history of the admissions of this process; a deque of the  *)
(* code is the set of the indices of `log` it still holds, in index order. *)
(***************************************************************************)
EXTENDS Integers, Sequences, FiniteSets

CONSTANTS
    Clients,       \* client_key: first X-Forwarded-For hop or socket peer
    Requests,      \* concurrent request threads
    None,
    Minute, Day,   \* 60 s and 86400 s
    PerMinute, PerDay, GlobalPerDay,   \* the three limits; 0 is "no limit"
    MaxLag,        \* longest wait between reading the clock and the lock
    MaxClock       \* bound on the modelled time

ASSUME ConstantsAssumption ==
    /\ None \notin Clients
    /\ {Minute, Day, MaxClock} \subseteq Nat \ {0}
    /\ {PerMinute, PerDay, GlobalPerDay, MaxLag} \subseteq Nat
    /\ Minute + MaxLag <= Day

VARIABLES
    clock,     \* time.time()
    stamped,   \* per request: [client, at] between the clock and the lock, or None
    perIp,     \* _per_ip: the indices of log each client's deque holds
    all,       \* _all: the indices of log the global deque holds
    log        \* history: the admissions, oldest first

vars == <<clock, stamped, perIp, all, log>>

Stamp == [client : Clients, at : 0 .. MaxClock]

(* while deque and now - deque[0] > 86400: deque.popleft().  The elements   *)
(* that stay are those with an element at or before them that is not old.   *)
(* As a bug: only as many seconds as a minute are kept.                     *)
PrunedAfterAMinute(deque, n) ==
    {i \in deque : \E j \in deque : j <= i /\ n - log[j].at <= Minute - 1}
Pruned(deque, n) ==
    {i \in deque : \E j \in deque : j <= i /\ n - log[j].at <= Day}

Recent(deque, n) == {i \in deque : n - log[i].at <= Minute}

(* A limit of 0 admits everything.                                          *)
Below(count, limit) == limit = 0 \/ count < limit

Admits(hits, every, n) ==
    /\ Below(Cardinality(every), GlobalPerDay)
    /\ Below(Cardinality(hits), PerDay)
    /\ Below(Cardinality(Recent(hits, n)), PerMinute)

-----------------------------------------------------------------------------
Init ==
    /\ clock = 0
    /\ stamped = [r \in Requests |-> None]
    /\ perIp = [c \in Clients |-> {}]
    /\ all = {}
    /\ log = <<>>

Tick ==
    /\ clock < MaxClock
    /\ \A r \in Requests : stamped[r] # None => clock + 1 - stamped[r].at <= MaxLag
    /\ clock' = clock + 1
    /\ UNCHANGED <<stamped, perIp, all, log>>

(* now = time.time(), before the lock.                                      *)
ReadClock(r, c) ==
    /\ stamped[r] = None
    /\ stamped' = [stamped EXCEPT ![r] = [client |-> c, at |-> clock]]
    /\ UNCHANGED <<clock, perIp, all, log>>

(* The whole of the locked section; a refused request prunes as well.  As a *)
(* bug: the stamp is appended to the deques before the limits are compared. *)
CheckStampsFirst(r) ==
    /\ stamped[r] # None
    /\ LET n     == stamped[r].at
           c     == stamped[r].client
           every == Pruned(all, n)
           hits  == Pruned(perIp[c], n)
           new   == {Len(log) + 1}
       IN /\ all' = every \cup new
          /\ perIp' = [perIp EXCEPT ![c] = hits \cup new]
          /\ log' = IF Admits(hits, every, n) THEN Append(log, stamped[r]) ELSE log
    /\ stamped' = [stamped EXCEPT ![r] = None]
    /\ UNCHANGED clock
Check(r) ==
    /\ stamped[r] # None
    /\ LET n     == stamped[r].at
           c     == stamped[r].client
           every == Pruned(all, n)
           hits  == Pruned(perIp[c], n)
           new   == IF Admits(hits, every, n) THEN {Len(log) + 1} ELSE {}
       IN /\ all' = every \cup new
          /\ perIp' = [perIp EXCEPT ![c] = hits \cup new]
          /\ log' = IF new = {} THEN log ELSE Append(log, stamped[r])
    /\ stamped' = [stamped EXCEPT ![r] = None]
    /\ UNCHANGED clock

(* reset(), and a restart of the process: the counters live in memory.      *)
Reset ==
    /\ perIp' = [c \in Clients |-> {}]
    /\ all' = {}
    /\ log' = <<>>
    /\ UNCHANGED <<clock, stamped>>

Next ==
    \/ Tick
    \/ \E r \in Requests : (\E c \in Clients : ReadClock(r, c)) \/ Check(r)
    \/ Reset

Spec == Init /\ [][Next]_vars

-----------------------------------------------------------------------------
TypeOK ==
    /\ clock \in 0 .. MaxClock
    /\ stamped \in [Requests -> Stamp \cup {None}]
    /\ perIp \in [Clients -> SUBSET DOMAIN log]
    /\ all \subseteq DOMAIN log
    /\ log \in Seq(Stamp)

(* The admissions whose time lies in a window of the given length.          *)
InWindow(from, length) == {i \in DOMAIN log : from <= log[i].at /\ log[i].at <= from + length}

OfClient(c) == {i \in DOMAIN log : log[i].client = c}

(* No address is admitted more than FLOODOPS_AGENT_PER_MINUTE times in any  *)
(* 60 seconds, in whatever order the waiting requests get the lock.         *)
MinuteLimit ==
    PerMinute > 0 =>
        \A c \in Clients, from \in 0 .. MaxClock :
            Cardinality(InWindow(from, Minute) \cap OfClient(c)) <= PerMinute

(* Nor more than FLOODOPS_AGENT_PER_DAY times in a day, up to the time a    *)
(* request may wait for the lock: its old time may fall into the day of an  *)
(* admission that a newer request has just dropped.                         *)
DayLimit ==
    PerDay > 0 =>
        \A c \in Clients, from \in 0 .. MaxClock :
            Cardinality(InWindow(from, Day - MaxLag) \cap OfClient(c)) <= PerDay

(* All addresses together spend at most FLOODOPS_AGENT_GLOBAL_PER_DAY in    *)
(* such a day.                                                              *)
GlobalDayLimit ==
    GlobalPerDay > 0 =>
        \A from \in 0 .. MaxClock :
            Cardinality(InWindow(from, Day - MaxLag)) <= GlobalPerDay

(* The three limits hold together, though each address has a deque of its   *)
(* own, pruned only when it asks, and stamps are appended out of order.     *)
Limits == MinuteLimit /\ DayLimit /\ GlobalDayLimit
=============================================================================
