------------------------------ MODULE LiveFeed ------------------------------
(***************************************************************************)
(* The live observation cache of backend/app/national_watch.py: _LIVE, the *)
(* bulk pulls that fill it under _LOCK, the lock-free read of a frame, and *)
(* the hourly rain history that survives a restart of the process.         *)
(*                                                                         *)
(* Any request thread may pull.  A call reads the wall clock before it     *)
(* asks for the lock, so the `now` it works with may be older than the     *)
(* moment it gets the lock; a pull takes time, so the clock moves while    *)
(* the lock is held.  One station and one rain gauge stand for all: no     *)
(* step of the code relates two of them.  Time is counted in ticks; the    *)
(* configurations scale the code's periods down and keep their order.      *)
(***************************************************************************)
EXTENDS Integers, Sequences, SequencesExt

CONSTANTS
    Threads,      \* request threads and the watch_log recorder
    None,         \* Python's None
    Levels,       \* water levels in units of STEP_SUSPECT_M
    Refresh,      \* REFRESH_SECONDS, also the loader's clock tolerance (5 min)
    Step,         \* the source's 10-minute slot
    Fresh,        \* FRESH_MINUTES["10M"]
    Hour,         \* the hourly throttle and the source's hourly slot
    Keep,         \* snapshots kept: deque(maxlen=13)
    KeepHist,     \* hourly rain kept: 14 h
    MaxCall,      \* longest call, its wait for the lock included
    MaxClock      \* bound on the modelled time

ASSUME ConstantsAssumption ==
    /\ None \notin Threads \cup Nat
    /\ Levels \subseteq Int
    /\ {Refresh, Step, Fresh, Hour, Keep, KeepHist, MaxCall, MaxClock}
         \subseteq Nat \ {0}
    /\ MaxCall <= Refresh
    /\ (Keep - 1) * Refresh >= Fresh + Step    \* 12 * 5 min >= 30 + 10 min

VARIABLES
    clock,
    hasKey,        \* HRFCO_API_KEY is in the environment
    lock,          \* _LOCK: its holder, or None
    pc, now, task, \* per thread: its place, the time it read, what it refreshes
    snaps,         \* _LIVE.snapshots
    hist,          \* stamps in _LIVE.rain_hourly_history[gauge]
    rainAt,        \* _LIVE.rain_fetched_at
    rainHourlyAt,  \* _LIVE.rain_hourly_fetched
    disk,          \* stamps in hrfco_live_rainfall_1h.json
    frame,         \* a reader between the two reads of _frame: what it saw
    unsaved        \* history: stamps stored in memory since the file was written

live  == <<snaps, hist, rainAt, rainHourlyAt>>
calls == <<lock, pc, now, task>>
vars  == <<clock, hasKey, calls, live, disk, frame, unsaved>>

Tasks  == {"all", "rain"}     \* refresh_live, refresh_live_rain
Locked == {"water", "hourlyAndDams", "rain", "rainHourly", "persist"}
Places == {"idle", "waiting"} \cup Locked
Time   == 0 .. MaxClock
Stamp  == Time \cup {None}
Obs    == [t : Time, wl : Levels] \cup {None}

-----------------------------------------------------------------------------
(* What the source serves now: its newest slot, or the one before it while  *)
(* the newest is late.                                                      *)
Published(slot) ==
    LET newest == (clock \div slot) * slot
    IN {s \in {newest, newest - slot} : s >= 0}

(* A stored stamp may lie after `now`; the difference is then negative and  *)
(* the call returns what is cached.                                         *)
Within(at, n, span) == at # None /\ n - at < span

LastAt == IF snaps = <<>> THEN None ELSE Last(snaps).at

(* The cache check of both calls, made with the lock held.  As a bug: both  *)
(* look at the rain stamp, which a pull that fails halfway leaves behind.   *)
CachedByRainStamp(t) == Within(rainAt, now[t], Refresh)
Cached(t) ==
    IF task[t] = "all" THEN Within(LastAt, now[t], Refresh)
                       ELSE Within(rainAt, now[t], Refresh)

HourDue(at, n) == ~Within(at, n, Hour)

(* deque(maxlen=13).append.                                                 *)
Push(q, x) == LET r == Append(q, x) IN IF Len(r) > Keep THEN Tail(r) ELSE r

(* _previous_live_step: the newest reading of another slot than the latest, *)
(* when it is exactly one slot older.  As a bug: a repeat of the latest     *)
(* slot ends the search.                                                    *)
PreviousStepStopsAtRepeat(latest, history) ==
    LET seen == {i \in DOMAIN history : history[i].obs # None}
        newest == history[Max(seen)].obs
    IN IF seen # {} /\ latest.t - newest.t = Step THEN newest ELSE None
PreviousStep(latest, history) ==
    LET other == {i \in DOMAIN history :
                     history[i].obs # None /\ history[i].obs.t # latest.t}
        newest == history[Max(other)].obs
    IN IF other # {} /\ latest.t - newest.t = Step THEN newest ELSE None

PruneBefore(stamps, cutoff) == {s \in stamps : s >= cutoff}

(* _load_live_rain_hourly_history at import.                                *)
Loaded(file) == {s \in file : clock - KeepHist <= s /\ s <= clock + Refresh}

-----------------------------------------------------------------------------
Init ==
    /\ clock = 0
    /\ hasKey \in BOOLEAN
    /\ lock = None
    /\ pc = [t \in Threads |-> "idle"]
    /\ now = [t \in Threads |-> 0]
    /\ task = [t \in Threads |-> "all"]
    /\ snaps = <<>>
    /\ rainAt = None /\ rainHourlyAt = None
    /\ hist = {} /\ disk = {}
    /\ frame = None
    /\ unsaved = {}

(* Time passes, except between the two adjacent reads of a frame, and never *)
(* so far that a call in progress would outlast MaxCall.                    *)
Tick ==
    /\ clock < MaxClock
    /\ frame = None
    /\ \A t \in Threads : pc[t] # "idle" => clock + 1 - now[t] < MaxCall
    /\ clock' = clock + 1
    /\ UNCHANGED <<hasKey, calls, live, disk, frame, unsaved>>

At(t, place) == pc[t] = place
GoTo(t, place) == pc' = [pc EXCEPT ![t] = place]
Return(t) ==    \* the call's locals are gone
    /\ GoTo(t, "idle") /\ lock' = None
    /\ now' = [now EXCEPT ![t] = 0]
    /\ task' = [task EXCEPT ![t] = "all"]
Continue(t, place) == GoTo(t, place) /\ UNCHANGED <<lock, now, task>>

Call(t, k) ==
    /\ At(t, "idle")
    /\ now' = [now EXCEPT ![t] = clock]
    /\ task' = [task EXCEPT ![t] = k]
    /\ GoTo(t, "waiting")
    /\ UNCHANGED <<clock, hasKey, lock, live, disk, frame, unsaved>>

(* With the lock: the cached state is returned, or there is no key.         *)
EnterAndReturn(t) ==
    /\ At(t, "waiting") /\ lock = None
    /\ Cached(t) \/ ~hasKey
    /\ Return(t)
    /\ rainAt' = IF task[t] = "rain" /\ ~Cached(t) THEN now[t] ELSE rainAt
    /\ UNCHANGED <<clock, hasKey, snaps, hist, rainHourlyAt, disk, frame, unsaved>>

(* As a bug: the lock is not waited for.                                    *)
EnterUnlocked(t) ==
    /\ At(t, "waiting")
    /\ hasKey /\ ~Cached(t)
    /\ lock' = t
    /\ GoTo(t, IF task[t] = "all" THEN "water" ELSE "rain")
    /\ UNCHANGED <<clock, hasKey, now, task, live, disk, frame, unsaved>>
EnterAndPull(t) ==
    /\ At(t, "waiting") /\ lock = None
    /\ hasKey /\ ~Cached(t)
    /\ lock' = t
    /\ GoTo(t, IF task[t] = "all" THEN "water" ELSE "rain")
    /\ UNCHANGED <<clock, hasKey, now, task, live, disk, frame, unsaved>>

(* Each pull may raise.  The except clause ends the call and keeps what the *)
(* call stored before; only refresh_live_rain counts the failure as a pull. *)
PullWater(t) ==
    /\ At(t, "water")
    /\ \/ Return(t) /\ UNCHANGED snaps
       \/ \* an answer with rows, this station's reading among them or not
          /\ \E o \in {None} \cup [t : Published(Step), wl : Levels] :
                snaps' = Push(snaps, [at |-> now[t], obs |-> o])
          /\ Continue(t, "hourlyAndDams")
       \/ \* an answer without rows
          Continue(t, "hourlyAndDams") /\ UNCHANGED snaps
    /\ UNCHANGED <<clock, hasKey, hist, rainAt, rainHourlyAt, disk, frame, unsaved>>

PullHourlyAndDams(t) ==
    /\ At(t, "hourlyAndDams")
    /\ Return(t) \/ Continue(t, "rain")
    /\ UNCHANGED <<clock, hasKey, live, disk, frame, unsaved>>

PullRain(t) ==
    /\ At(t, "rain")
    /\ \/ rainAt' = now[t] /\ Continue(t, "rainHourly")
       \/ /\ rainAt' = IF task[t] = "rain" THEN now[t] ELSE rainAt
          /\ Return(t)
    /\ UNCHANGED <<clock, hasKey, snaps, hist, rainHourlyAt, disk, frame, unsaved>>

(* _store_live_rain_hourly, when the hour is due.                           *)
PullRainHourly(t) ==
    /\ At(t, "rainHourly")
    /\ \/ \* not due yet, or the pull raised
          Return(t) /\ UNCHANGED <<hist, rainHourlyAt, unsaved>>
       \/ \* nothing new: a blank value, or the value already held
          /\ HourDue(rainHourlyAt, now[t])
          /\ \/ UNCHANGED hist
             \/ \E s \in Published(Hour) \cap hist : hist' = PruneBefore(hist, s - KeepHist)
          /\ rainHourlyAt' = now[t]
          /\ Return(t) /\ UNCHANGED unsaved
       \/ \* a new hour, or a revised value of one already held
          /\ HourDue(rainHourlyAt, now[t])
          /\ \E s \in Published(Hour) :
                /\ hist' = PruneBefore(hist \cup {s}, s - KeepHist)
                /\ unsaved' = unsaved \cup {s}
          /\ Continue(t, "persist")
          /\ UNCHANGED rainHourlyAt
    /\ UNCHANGED <<clock, hasKey, snaps, rainAt, disk, frame>>

(* _persist_live_rain_hourly_history: the temporary file replaces the old   *)
(* one in one step; an OSError is swallowed.  As a bug: the file itself is  *)
(* opened for writing, which empties it first.                              *)
PersistInPlace(t) ==
    /\ At(t, "persist")
    /\ \/ /\ disk # {} /\ disk' = {} /\ Continue(t, "persist")
          /\ UNCHANGED <<unsaved, rainHourlyAt>>
       \/ /\ disk' = hist /\ unsaved' = {}
          /\ rainHourlyAt' = now[t] /\ Return(t)
    /\ UNCHANGED <<clock, hasKey, snaps, hist, rainAt, frame>>
Persist(t) ==
    /\ At(t, "persist")
    /\ \/ disk' = hist /\ unsaved' = {}
       \/ UNCHANGED <<disk, unsaved>>
    /\ rainHourlyAt' = now[t]
    /\ Return(t)
    /\ UNCHANGED <<clock, hasKey, snaps, hist, rainAt, frame>>

(* The process is killed and started again.                                 *)
Restart ==
    /\ lock' = None
    /\ pc' = [t \in Threads |-> "idle"]
    /\ now' = [t \in Threads |-> 0]
    /\ task' = [t \in Threads |-> "all"]
    /\ snaps' = <<>>
    /\ rainAt' = None /\ rainHourlyAt' = None
    /\ hist' = Loaded(disk)
    /\ frame' = None /\ unsaved' = {}
    /\ UNCHANGED <<clock, hasKey, disk>>

(* _frame reads snapshots[-1], and then list(snapshots)[:-1], without the   *)
(* lock.                                                                    *)
ReadLatest ==
    /\ hasKey /\ frame = None /\ snaps # <<>>
    /\ Last(snaps).obs # None
    /\ frame' = [latest |-> Last(snaps).obs, history |-> Front(snaps)]
    /\ UNCHANGED <<clock, hasKey, calls, live, disk, unsaved>>

ReadHistory ==
    /\ frame # None
    /\ frame' = None
    /\ UNCHANGED <<clock, hasKey, calls, live, disk, unsaved>>

ThreadStep(t) ==
    \/ EnterAndReturn(t) \/ EnterAndPull(t) \/ PullWater(t)
    \/ PullHourlyAndDams(t) \/ PullRain(t) \/ PullRainHourly(t) \/ Persist(t)

Next ==
    \/ Tick
    \/ \E t \in Threads : (\E k \in Tasks : Call(t, k)) \/ ThreadStep(t)
    \/ ReadLatest \/ ReadHistory
    \/ Restart

Spec == Init /\ [][Next]_vars

-----------------------------------------------------------------------------
TypeOK ==
    /\ clock \in Time /\ hasKey \in BOOLEAN
    /\ lock \in Threads \cup {None}
    /\ pc \in [Threads -> Places]
    /\ \A t \in Threads : pc[t] \in Locked <=> lock = t
    /\ now \in [Threads -> Time] /\ task \in [Threads -> Tasks]
    /\ snaps \in Seq([at : Time, obs : Obs]) /\ Len(snaps) <= Keep
    /\ {rainAt, rainHourlyAt} \subseteq Stamp
    /\ {hist, disk, unsaved} \subseteq SUBSET Time
    /\ \/ frame = None
       \/ /\ DOMAIN frame = {"latest", "history"}
          /\ frame.latest \in [t : Time, wl : Levels]
          /\ frame.history \in Seq([at : Time, obs : Obs])

(* Whatever the interleaving of the callers and however stale the time each *)
(* one read before it waited for the lock, the stored snapshots are in time *)
(* order and no two of them are less than REFRESH_SECONDS apart: the 13     *)
(* snapshots of the deque cover an hour, which changes(since_min=60) needs. *)
SnapshotsSpaced ==
    \A i \in 1 .. Len(snaps) - 1 : snaps[i + 1].at - snaps[i].at >= Refresh

(* A snapshot stored between the two unlocked reads of _frame puts the      *)
(* latest snapshot into its own history and may push the oldest one out;    *)
(* as long as the reading is fresh, the reference that decides "suspect" is *)
(* the one an atomic read gives.                                            *)
FrameIntact ==
    frame # None /\ clock - frame.latest.t <= Fresh =>
        PreviousStep(frame.latest, Front(snaps)) = PreviousStep(frame.latest, frame.history)

(* A restart at any moment, the middle of a save included, loses no hourly  *)
(* rain of the last 14 hours that an earlier save wrote: "a process restart *)
(* does not erase the 12-hour window".                                      *)
RestartKeepsWindow ==
    [][Restart => \A s \in hist \ unsaved : s >= clock - KeepHist => s \in hist']_vars

=============================================================================
