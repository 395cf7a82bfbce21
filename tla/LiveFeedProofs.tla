--------------------------- MODULE LiveFeedProofs ---------------------------
(***************************************************************************)
(* For every number of threads, every length of the periods and every      *)
(* bound on the time: the cache of LiveFeed keeps its types, its snapshots *)
(* stay at least REFRESH_SECONDS apart, a restart keeps the saved hours,   *)
(* and a reader that takes no lock decides what one with the lock would.   *)
(***************************************************************************)
EXTENDS StationBoard, SieveProofs

(* Strengthening for the spacing: a thread that is about to store a         *)
(* snapshot read a time that is Refresh past the newest one.  It was        *)
(* compared with the lock held, and nobody stores while the lock is held.   *)
WaterDue ==
    \A t \in Threads :
        pc[t] = "water" /\ snaps # <<>> => now[t] - snaps[Len(snaps)].at >= Refresh

(* Strengthening for the restart: an hour in memory is in the file too, or  *)
(* was stored since; none of them lies in the future.                       *)
Saved ==
    /\ hist \ unsaved \subseteq disk
    /\ hist \cup disk \subseteq 0 .. clock

-----------------------------------------------------------------------------
LEMMA Periods ==
    /\ Refresh \in Nat \ {0} /\ Step \in Nat \ {0} /\ Fresh \in Nat \ {0}
    /\ Hour \in Nat \ {0} /\ Keep \in Nat \ {0} /\ KeepHist \in Nat \ {0}
    /\ MaxCall \in Nat \ {0} /\ MaxClock \in Nat \ {0}
    /\ MaxCall <= Refresh /\ None \notin Threads /\ None \notin Nat
  BY ConstantsAssumption

(* What the source serves is not from the future.                           *)
LEMMA PublishedIsPast ==
    ASSUME clock \in Time, NEW slot \in Nat \ {0}, NEW s \in Published(slot)
    PROVE  s \in Time /\ s <= clock
<1>1. clock \in Nat /\ clock <= MaxClock
  BY Periods DEF Time
<1>2. (clock \div slot) \in Nat /\ (clock \div slot) * slot <= clock
  BY <1>1
<1>. QED
  BY <1>1, <1>2, Periods DEF Published, Time

Snapshot == [at : Time, obs : Obs]

(* The bounded deque after one more snapshot.                               *)
LEMMA PushKeeps ==
    ASSUME NEW q \in Seq(Snapshot), NEW x \in Snapshot, Len(q) <= Keep
    PROVE  /\ Push(q, x) \in Seq(Snapshot)
           /\ Len(Push(q, x)) \in 1 .. Keep
           /\ Push(q, x)[Len(Push(q, x))] = x
           /\ \/ /\ Len(Push(q, x)) = Len(q) + 1
                 /\ \A i \in 1 .. Len(q) : Push(q, x)[i] = q[i]
              \/ /\ Len(Push(q, x)) = Len(q) /\ Len(q) = Keep
                 /\ \A i \in 1 .. Len(q) - 1 : Push(q, x)[i] = q[i + 1]
<1>. DEFINE r == Append(q, x)
<1>1. /\ r \in Seq(Snapshot) /\ Len(r) = Len(q) + 1 /\ Len(q) \in Nat /\ Keep \in Nat \ {0}
      /\ \A i \in 1 .. Len(q) : r[i] = q[i]
      /\ r[Len(q) + 1] = x
  BY Periods
<1>. HIDE DEF r
<1>2. CASE Len(r) > Keep
  <2>1. Push(q, x) = Tail(r)
    BY <1>2 DEF Push, r
  <2>2. /\ Tail(r) \in Seq(Snapshot) /\ Len(Tail(r)) = Len(r) - 1
        /\ \A i \in 1 .. Len(r) - 1 : Tail(r)[i] = r[i + 1]
    BY <1>1
  <2>. QED
    BY <1>1, <1>2, <2>1, <2>2
<1>3. CASE ~(Len(r) > Keep)
  <2>1. Push(q, x) = r
    BY <1>3 DEF Push, r
  <2>. QED
    BY <1>1, <1>3, <2>1
<1>. QED
  BY <1>2, <1>3

-----------------------------------------------------------------------------
(* TypeOK in three parts, and the inductive invariant.                      *)
Control ==
    /\ lock \in Threads \cup {None}
    /\ pc \in [Threads -> Places]
    /\ \A t \in Threads : pc[t] \in Locked <=> lock = t
    /\ now \in [Threads -> Time] /\ task \in [Threads -> Tasks]

Data ==
    /\ clock \in Time /\ hasKey \in BOOLEAN
    /\ snaps \in Seq(Snapshot) /\ Len(snaps) <= Keep
    /\ rainAt \in Stamp /\ rainHourlyAt \in Stamp
    /\ hist \subseteq Time /\ disk \subseteq Time /\ unsaved \subseteq Time

FrameTyped ==
    \/ frame = None
    \/ /\ DOMAIN frame = {"latest", "history"}
       /\ frame.latest \in [t : Time, wl : Levels]
       /\ frame.history \in Seq(Snapshot)

IInv == Control /\ Data /\ FrameTyped /\ SnapshotsSpaced /\ WaterDue /\ Saved

LEMMA TypeParts == TypeOK <=> Control /\ Data /\ FrameTyped
  BY DEF TypeOK, Control, Data, FrameTyped, Snapshot

(* A call that ends leaves the lock free, and no thread holds it.           *)
LEMMA ReturnControl ==
    ASSUME Control, NEW t \in Threads, Return(t), lock \in {None, t}
    PROVE  Control' /\ \A u \in Threads : pc'[u] \notin Locked
<1>1. /\ pc' = [pc EXCEPT ![t] = "idle"] /\ lock' = None
      /\ now' = [now EXCEPT ![t] = 0] /\ task' = [task EXCEPT ![t] = "all"]
  BY DEF Return, GoTo
<1>2. \A u \in Threads : u # t => pc[u] \notin Locked
  BY Periods DEF Control
<1>3. "idle" \in Places /\ "idle" \notin Locked /\ 0 \in Time /\ "all" \in Tasks
  BY Periods DEF Places, Locked, Time, Tasks
<1>4. \A u \in Threads : pc'[u] \notin Locked
  BY <1>1, <1>2, <1>3 DEF Control
<1>5. \A u \in Threads : lock' # u
  BY <1>1, Periods
<1>6. /\ lock' \in Threads \cup {None} /\ pc' \in [Threads -> Places]
      /\ now' \in [Threads -> Time] /\ task' \in [Threads -> Tasks]
  BY <1>1, <1>3 DEF Control
<1>. QED
  BY <1>4, <1>5, <1>6 DEF Control

(* A call that goes on keeps the lock, and is the only one that has it.     *)
LEMMA ContinueControl ==
    ASSUME Control, NEW t \in Threads, NEW place \in Locked,
           pc[t] \in Locked, Continue(t, place)
    PROVE  /\ Control'
           /\ \A u \in Threads : pc'[u] \in Locked => u = t
           /\ pc'[t] = place
<1>1. pc' = [pc EXCEPT ![t] = place] /\ lock' = lock /\ now' = now /\ task' = task
  BY DEF Continue, GoTo
<1>2. lock = t /\ \A u \in Threads : u # t => pc[u] \notin Locked
  BY DEF Control
<1>3. place \in Places
  BY DEF Places
<1>4. pc' \in [Threads -> Places] /\ pc'[t] = place
      /\ \A u \in Threads : u # t => pc'[u] = pc[u]
  BY <1>1, <1>3 DEF Control
<1>5. \A u \in Threads : pc'[u] \in Locked <=> lock' = u
  BY <1>1, <1>2, <1>4
<1>. QED
  BY <1>1, <1>2, <1>4, <1>5 DEF Control

(* A step that stores no snapshot and sends nobody to store one.            *)
LEMMA SnapshotsLeft ==
    ASSUME IInv, snaps' = snaps,
           \A u \in Threads : pc'[u] = "water" => pc[u] = "water" /\ now'[u] = now[u]
    PROVE  SnapshotsSpaced' /\ WaterDue'
<1>1. SnapshotsSpaced'
  BY DEF IInv, SnapshotsSpaced
<1>2. WaterDue'
  BY DEF IInv, WaterDue
<1>. QED
  BY <1>1, <1>2

(* The same for the steps of a call at a place it holds the lock.           *)
LEMMA NobodyAtWater ==
    ASSUME IInv, snaps' = snaps, \A u \in Threads : pc'[u] # "water"
    PROVE  SnapshotsSpaced' /\ WaterDue'
  BY SnapshotsLeft

LEMMA FrameLeft == ASSUME FrameTyped, frame' = frame PROVE FrameTyped'
  BY DEF FrameTyped

LEMMA SavedLeft ==
    ASSUME Saved, UNCHANGED <<clock, hist, disk, unsaved>> PROVE Saved'
  BY DEF Saved

LEMMA LockedPlaces ==
    Locked = {"water", "hourlyAndDams", "rain", "rainHourly", "persist"}
  BY DEF Locked

-----------------------------------------------------------------------------
LEMMA InitInv == Init => IInv
<1>. SUFFICES ASSUME Init PROVE IInv
  OBVIOUS
<1>1. Control
  BY Periods DEF Init, Control, Places, Locked, Time, Tasks
<1>2. Data
  BY Periods DEF Init, Data, Stamp, Time, Snapshot
<1>3. FrameTyped /\ Saved
  BY Periods DEF Init, FrameTyped, Saved
<1>4. SnapshotsSpaced /\ WaterDue
  BY DEF Init, SnapshotsSpaced, WaterDue
<1>. QED
  BY <1>1, <1>2, <1>3, <1>4 DEF IInv

LEMMA TickInv == ASSUME IInv, Tick PROVE IInv'
<1>1. /\ UNCHANGED <<hasKey, lock, pc, now, task, snaps, hist, rainAt,
                     rainHourlyAt, disk, frame, unsaved>>
      /\ clock < MaxClock /\ clock' = clock + 1
  BY DEF Tick, calls, live
<1>2. Control'
  BY <1>1 DEF IInv, Control
<1>3. Data'
  BY <1>1, Periods DEF IInv, Data, Time
<1>4. FrameTyped'
  BY <1>1, FrameLeft DEF IInv
<1>5. SnapshotsSpaced' /\ WaterDue'
  BY <1>1, SnapshotsLeft
<1>6. Saved'
  <2>1. clock \in Nat /\ 0 .. clock \subseteq 0 .. clock + 1
    BY Periods DEF IInv, Data, Time
  <2>. QED
    BY <1>1, <2>1 DEF IInv, Saved
<1>. QED
  BY <1>2, <1>3, <1>4, <1>5, <1>6 DEF IInv

LEMMA CallInv == ASSUME IInv, NEW t \in Threads, NEW k \in Tasks, Call(t, k) PROVE IInv'
<1>1. /\ UNCHANGED <<clock, hasKey, lock, snaps, hist, rainAt,
                     rainHourlyAt, disk, frame, unsaved>>
      /\ pc[t] = "idle" /\ pc' = [pc EXCEPT ![t] = "waiting"]
      /\ now' = [now EXCEPT ![t] = clock] /\ task' = [task EXCEPT ![t] = k]
  BY DEF Call, At, GoTo, live
<1>2. /\ pc' \in [Threads -> Places] /\ pc'[t] = "waiting"
      /\ \A u \in Threads : u # t => pc'[u] = pc[u] /\ now'[u] = now[u]
  BY <1>1 DEF IInv, Control, Places
<1>3. now' \in [Threads -> Time] /\ task' \in [Threads -> Tasks]
  BY <1>1 DEF IInv, Control, Data
<1>4. \A u \in Threads : pc'[u] \in Locked <=> lock' = u
  BY <1>1, <1>2 DEF IInv, Control, Locked
<1>5. Control'
  BY <1>1, <1>2, <1>3, <1>4 DEF IInv, Control
<1>6. Data'
  BY <1>1 DEF IInv, Data
<1>7. FrameTyped' /\ Saved'
  BY <1>1, FrameLeft, SavedLeft DEF IInv
<1>8. SnapshotsSpaced' /\ WaterDue'
  BY <1>1, <1>2, SnapshotsLeft
<1>. QED
  BY <1>5, <1>6, <1>7, <1>8 DEF IInv

LEMMA EnterAndReturnInv ==
    ASSUME IInv, NEW t \in Threads, EnterAndReturn(t) PROVE IInv'
<1>1. /\ UNCHANGED <<clock, hasKey, snaps, hist, rainHourlyAt, disk, frame, unsaved>>
      /\ lock = None /\ Return(t) /\ rainAt' \in {rainAt, now[t]}
  BY DEF EnterAndReturn
<1>2. Control' /\ \A u \in Threads : pc'[u] \notin Locked
  BY <1>1, ReturnControl DEF IInv
<1>3. Data'
  BY <1>1 DEF IInv, Data, Control, Stamp
<1>4. FrameTyped' /\ Saved'
  BY <1>1, FrameLeft, SavedLeft DEF IInv
<1>5. SnapshotsSpaced' /\ WaterDue'
  BY <1>1, <1>2, LockedPlaces, NobodyAtWater
<1>. QED
  BY <1>2, <1>3, <1>4, <1>5 DEF IInv

(* The cache check with the lock held: who goes to pull the water levels    *)
(* read a time that is Refresh past the newest snapshot.                    *)
LEMMA EnterAndPullInv ==
    ASSUME IInv, NEW t \in Threads, EnterAndPull(t) PROVE IInv'
<1>1. /\ UNCHANGED <<clock, hasKey, now, task, snaps, hist, rainAt,
                     rainHourlyAt, disk, frame, unsaved>>
      /\ lock = None /\ ~Cached(t) /\ lock' = t
      /\ pc' = [pc EXCEPT ![t] = IF task[t] = "all" THEN "water" ELSE "rain"]
  BY DEF EnterAndPull, GoTo, live
<1>2. \A u \in Threads : pc[u] \notin Locked
  BY <1>1, Periods DEF IInv, Control
<1>3. /\ pc' \in [Threads -> Places]
      /\ pc'[t] = IF task[t] = "all" THEN "water" ELSE "rain"
      /\ \A u \in Threads : u # t => pc'[u] = pc[u]
  BY <1>1 DEF IInv, Control, Places, Locked
<1>4. Control'
  <2>1. pc'[t] \in Locked
    BY <1>3, LockedPlaces
  <2>2. \A u \in Threads : pc'[u] \in Locked <=> lock' = u
    BY <1>1, <1>2, <1>3, <2>1
  <2>. QED
    BY <1>1, <1>3, <2>2 DEF IInv, Control
<1>5. Data'
  BY <1>1 DEF IInv, Data
<1>6. FrameTyped' /\ Saved'
  BY <1>1, FrameLeft, SavedLeft DEF IInv
<1>7. SnapshotsSpaced'
  BY <1>1 DEF IInv, SnapshotsSpaced
<1>8. ASSUME NEW u \in Threads, pc'[u] = "water", snaps # <<>>
      PROVE  now[u] - snaps[Len(snaps)].at >= Refresh
  <2>1. u = t
    BY <1>2, <1>3, <1>8, LockedPlaces
  <2>2. task[t] = "all"
    BY <1>3, <1>8, <2>1
  <2>3. LastAt = snaps[Len(snaps)].at
    BY <1>8 DEF LastAt, Last
  <2>4. snaps[Len(snaps)] \in Snapshot
    BY <1>8 DEF IInv, Data
  <2>5. LastAt \in Nat /\ LastAt # None
    BY <2>3, <2>4, Periods DEF Snapshot, Time
  <2>6. now[t] \in Nat
    BY Periods DEF IInv, Control, Time
  <2>7. ~Within(LastAt, now[t], Refresh)
    BY <1>1, <2>2 DEF Cached
  <2>. QED
    BY <2>1, <2>3, <2>5, <2>6, <2>7, Periods DEF Within
<1>9. WaterDue'
  BY <1>1, <1>8 DEF WaterDue
<1>. QED
  BY <1>4, <1>5, <1>6, <1>7, <1>9 DEF IInv

(* The pull that stores: the thread's time is Refresh past the newest       *)
(* snapshot, and every snapshot but the new one keeps its neighbour.        *)
LEMMA PullWaterInv ==
    ASSUME IInv, NEW t \in Threads, PullWater(t) PROVE IInv'
<1>1. /\ UNCHANGED <<clock, hasKey, hist, rainAt, rainHourlyAt, disk, frame, unsaved>>
      /\ pc[t] = "water"
  BY DEF PullWater, At
<1>2. lock = t /\ pc[t] \in Locked /\ now[t] \in Time
  BY <1>1, LockedPlaces DEF IInv, Control
<1>3. FrameTyped' /\ Saved'
  BY <1>1, FrameLeft, SavedLeft DEF IInv
<1>4. CASE Return(t) /\ UNCHANGED snaps
  <2>1. Control' /\ \A u \in Threads : pc'[u] \notin Locked
    BY <1>2, <1>4, ReturnControl DEF IInv
  <2>2. Data'
    BY <1>1, <1>4 DEF IInv, Data
  <2>3. SnapshotsSpaced' /\ WaterDue'
    BY <1>4, <2>1, LockedPlaces, NobodyAtWater
  <2>. QED
    BY <1>3, <2>1, <2>2, <2>3 DEF IInv
<1>5. ASSUME Continue(t, "hourlyAndDams")
      PROVE  Control' /\ \A u \in Threads : pc'[u] # "water"
  <2>1. "hourlyAndDams" \in Locked /\ "water" \in Locked
    BY LockedPlaces
  <2>2. /\ Control' /\ pc'[t] = "hourlyAndDams"
        /\ \A u \in Threads : pc'[u] \in Locked => u = t
    BY <1>2, <1>5, <2>1, ContinueControl DEF IInv
  <2>. QED
    BY <2>1, <2>2
<1>6. CASE Continue(t, "hourlyAndDams") /\ UNCHANGED snaps
  <2>1. Control' /\ \A u \in Threads : pc'[u] # "water"
    BY <1>5, <1>6
  <2>2. Data'
    BY <1>1, <1>6 DEF IInv, Data
  <2>3. SnapshotsSpaced' /\ WaterDue'
    BY <1>6, <2>1, NobodyAtWater
  <2>. QED
    BY <1>3, <2>1, <2>2, <2>3 DEF IInv
<1>7. CASE /\ \E o \in {None} \cup [t : Published(Step), wl : Levels] :
                 snaps' = Push(snaps, [at |-> now[t], obs |-> o])
           /\ Continue(t, "hourlyAndDams")
  <2>1. Control' /\ \A u \in Threads : pc'[u] # "water"
    BY <1>5, <1>7
  <2>2. PICK o \in {None} \cup [t : Published(Step), wl : Levels] :
            snaps' = Push(snaps, [at |-> now[t], obs |-> o])
    BY <1>7
  <2>3. o \in Obs
    <3>1. Published(Step) \subseteq Time
      BY PublishedIsPast, Periods DEF IInv, Data
    <3>. QED
      BY <2>2, <3>1 DEF Obs
  <2>. DEFINE x == [at |-> now[t], obs |-> o]
  <2>4. x \in Snapshot /\ x.at = now[t]
    BY <1>2, <2>3 DEF Snapshot
  <2>. HIDE DEF x
  <2>5. snaps' = Push(snaps, x)
    BY <2>2 DEF x
  <2>6. snaps \in Seq(Snapshot) /\ Len(snaps) <= Keep /\ Len(snaps) \in Nat
    BY DEF IInv, Data
  <2>7. /\ snaps' \in Seq(Snapshot)
        /\ Len(snaps') \in 1 .. Keep
        /\ snaps'[Len(snaps')] = x
        /\ \/ /\ Len(snaps') = Len(snaps) + 1
              /\ \A i \in 1 .. Len(snaps) : snaps'[i] = snaps[i]
           \/ /\ Len(snaps') = Len(snaps)
              /\ \A i \in 1 .. Len(snaps) - 1 : snaps'[i] = snaps[i + 1]
    BY <2>4, <2>5, <2>6, PushKeeps
  <2>8. Data'
    BY <1>1, <2>7, Periods DEF IInv, Data
  <2>9. snaps # <<>> => x.at - snaps[Len(snaps)].at >= Refresh
    BY <1>1, <2>4 DEF IInv, WaterDue
  <2>10. \A i \in 1 .. Len(snaps) - 1 : snaps[i + 1].at - snaps[i].at >= Refresh
    BY DEF IInv, SnapshotsSpaced
  <2>11. ASSUME NEW i \in 1 .. Len(snaps') - 1
         PROVE  snaps'[i + 1].at - snaps'[i].at >= Refresh
    <3>1. CASE /\ Len(snaps') = Len(snaps) + 1
               /\ \A j \in 1 .. Len(snaps) : snaps'[j] = snaps[j]
      <4>1. CASE i = Len(snaps)
        BY <2>6, <2>7, <2>9, <3>1, <4>1
      <4>2. CASE i # Len(snaps)
        <5>1. i \in 1 .. Len(snaps) - 1 /\ i \in 1 .. Len(snaps) /\ i + 1 \in 1 .. Len(snaps)
          BY <2>6, <3>1, <4>2
        <5>. QED
          BY <2>10, <3>1, <5>1
      <4>. QED
        BY <4>1, <4>2
    <3>2. CASE /\ Len(snaps') = Len(snaps)
               /\ \A j \in 1 .. Len(snaps) - 1 : snaps'[j] = snaps[j + 1]
      <4>1. CASE i = Len(snaps) - 1
        BY <2>6, <2>7, <2>9, <3>2, <4>1
      <4>2. CASE i # Len(snaps) - 1
        <5>1. i \in 1 .. Len(snaps) - 1 /\ i + 1 \in 1 .. Len(snaps) - 1
          BY <2>6, <3>2, <4>2
        <5>. QED
          BY <2>10, <3>2, <5>1
      <4>. QED
        BY <4>1, <4>2
    <3>. QED
      BY <2>7, <3>1, <3>2
  <2>12. SnapshotsSpaced'
    BY <2>11 DEF SnapshotsSpaced
  <2>13. WaterDue'
    BY <2>1 DEF WaterDue
  <2>. QED
    BY <1>3, <2>1, <2>8, <2>12, <2>13 DEF IInv
<1>. QED
  BY <1>4, <1>6, <1>7 DEF PullWater

(* A step at a place with the lock that ends the call or goes on elsewhere  *)
(* than to the water pull, and stores no snapshot.                          *)
LEMMA LockedStep ==
    ASSUME IInv, NEW t \in Threads, pc[t] \in Locked, NEW place \in Locked \ {"water"},
           Return(t) \/ Continue(t, place), snaps' = snaps, frame' = frame
    PROVE  Control' /\ SnapshotsSpaced' /\ WaterDue' /\ FrameTyped'
<1>1. lock = t
  BY DEF IInv, Control
<1>2. Control' /\ \A u \in Threads : pc'[u] # "water"
  <2>1. CASE Return(t)
    BY <1>1, <2>1, LockedPlaces, ReturnControl DEF IInv
  <2>2. CASE Continue(t, place)
    <3>1. /\ Control' /\ pc'[t] = place
          /\ \A u \in Threads : pc'[u] \in Locked => u = t
      BY <2>2, ContinueControl DEF IInv
    <3>. QED
      BY <3>1, LockedPlaces
  <2>. QED
    BY <2>1, <2>2
<1>3. FrameTyped'
  BY FrameLeft DEF IInv
<1>. QED
  BY <1>2, <1>3, NobodyAtWater

LEMMA PullHourlyAndDamsInv ==
    ASSUME IInv, NEW t \in Threads, PullHourlyAndDams(t) PROVE IInv'
<1>1. /\ UNCHANGED <<clock, hasKey, snaps, hist, rainAt, rainHourlyAt, disk, frame, unsaved>>
      /\ pc[t] \in Locked /\ (Return(t) \/ Continue(t, "rain"))
  BY LockedPlaces DEF PullHourlyAndDams, At, live
<1>2. Control' /\ SnapshotsSpaced' /\ WaterDue' /\ FrameTyped'
  BY <1>1, LockedPlaces, LockedStep
<1>3. Data' /\ Saved'
  BY <1>1, SavedLeft DEF IInv, Data
<1>. QED
  BY <1>2, <1>3 DEF IInv

LEMMA PullRainInv ==
    ASSUME IInv, NEW t \in Threads, PullRain(t) PROVE IInv'
<1>1. /\ UNCHANGED <<clock, hasKey, snaps, hist, rainHourlyAt, disk, frame, unsaved>>
      /\ pc[t] \in Locked /\ (Return(t) \/ Continue(t, "rainHourly"))
      /\ rainAt' \in {rainAt, now[t]}
  BY LockedPlaces DEF PullRain, At
<1>2. Control' /\ SnapshotsSpaced' /\ WaterDue' /\ FrameTyped'
  BY <1>1, LockedPlaces, LockedStep
<1>3. Data' /\ Saved'
  BY <1>1, SavedLeft DEF IInv, Data, Control, Stamp
<1>. QED
  BY <1>2, <1>3 DEF IInv

(* A new hour is in memory and marked unsaved; a dropped one is in neither. *)
LEMMA PullRainHourlyInv ==
    ASSUME IInv, NEW t \in Threads, PullRainHourly(t) PROVE IInv'
<1>1. /\ UNCHANGED <<clock, hasKey, snaps, rainAt, disk, frame>>
      /\ pc[t] \in Locked /\ (Return(t) \/ Continue(t, "persist"))
      /\ rainHourlyAt' \in {rainHourlyAt, now[t]}
  BY LockedPlaces DEF PullRainHourly, At
<1>2. Control' /\ SnapshotsSpaced' /\ WaterDue' /\ FrameTyped'
  BY <1>1, LockedPlaces, LockedStep
<1>3. \/ hist' \subseteq hist /\ unsaved' = unsaved
      \/ \E s \in Published(Hour) :
            hist' \subseteq hist \cup {s} /\ unsaved' = unsaved \cup {s}
  BY DEF PullRainHourly, PruneBefore
<1>4. \A s \in Published(Hour) : s \in Time /\ s \in 0 .. clock
  <2>1. clock \in Time /\ Hour \in Nat \ {0}
    BY Periods DEF IInv, Data
  <2>2. ASSUME NEW s \in Published(Hour) PROVE s \in Time /\ s <= clock
    BY <2>1, PublishedIsPast
  <2>. QED
    BY <2>1, <2>2, Periods DEF Time
<1>5. hist' \subseteq Time /\ unsaved' \subseteq Time
  BY <1>3, <1>4 DEF IInv, Data
<1>6. Data'
  BY <1>1, <1>5 DEF IInv, Data, Control, Stamp
<1>7. Saved'
  BY <1>1, <1>3, <1>4 DEF IInv, Saved
<1>. QED
  BY <1>2, <1>6, <1>7 DEF IInv

LEMMA PersistInv ==
    ASSUME IInv, NEW t \in Threads, Persist(t) PROVE IInv'
<1>1. /\ UNCHANGED <<clock, hasKey, snaps, hist, rainAt, frame>>
      /\ pc[t] \in Locked /\ Return(t) /\ rainHourlyAt' = now[t]
      /\ \/ disk' = hist /\ unsaved' = {}
         \/ disk' = disk /\ unsaved' = unsaved
  BY LockedPlaces DEF Persist, At
<1>2. Control' /\ SnapshotsSpaced' /\ WaterDue' /\ FrameTyped'
  BY <1>1, LockedPlaces, LockedStep
<1>3. Data'
  BY <1>1 DEF IInv, Data, Control, Stamp
<1>4. Saved'
  BY <1>1 DEF IInv, Saved
<1>. QED
  BY <1>2, <1>3, <1>4 DEF IInv

LEMMA RestartInv == ASSUME IInv, Restart PROVE IInv'
<1>1. /\ UNCHANGED <<clock, hasKey, disk>>
      /\ lock' = None /\ snaps' = <<>> /\ rainAt' = None /\ rainHourlyAt' = None
      /\ frame' = None /\ unsaved' = {} /\ hist' = Loaded(disk)
      /\ pc' = [t \in Threads |-> "idle"] /\ now' = [t \in Threads |-> 0]
      /\ task' = [t \in Threads |-> "all"]
  BY DEF Restart
<1>2. Control'
  BY <1>1, Periods DEF Control, Places, Locked, Time, Tasks
<1>3. hist' \subseteq disk
  BY <1>1 DEF Loaded
<1>4. Data'
  <2>1. snaps' \in Seq(Snapshot) /\ Len(snaps') <= Keep
    BY <1>1, Periods
  <2>. QED
    BY <1>1, <1>3, <2>1 DEF IInv, Data, Stamp
<1>5. FrameTyped' /\ Saved'
  BY <1>1, <1>3 DEF FrameTyped, IInv, Saved
<1>6. SnapshotsSpaced' /\ WaterDue'
  BY <1>1 DEF SnapshotsSpaced, WaterDue
<1>. QED
  BY <1>2, <1>4, <1>5, <1>6 DEF IInv

LEMMA ReadLatestInv == ASSUME IInv, ReadLatest PROVE IInv'
<1>1. /\ UNCHANGED <<clock, hasKey, lock, pc, now, task, snaps, hist, rainAt,
                     rainHourlyAt, disk, unsaved>>
      /\ snaps # <<>> /\ Last(snaps).obs # None
      /\ frame' = [latest |-> Last(snaps).obs, history |-> Front(snaps)]
  BY DEF ReadLatest, calls, live
<1>2. /\ snaps \in Seq(Snapshot) /\ Len(snaps) \in Nat \ {0}
      /\ snaps[Len(snaps)] \in Snapshot
  BY <1>1 DEF IInv, Data
<1>3. Last(snaps).obs \in [t : Time, wl : Levels]
  BY <1>1, <1>2 DEF Last, Snapshot, Obs
<1>4. Front(snaps) \in Seq(Snapshot)
  BY <1>2 DEF Front
<1>5. FrameTyped'
  BY <1>1, <1>3, <1>4 DEF FrameTyped
<1>6. Control' /\ Data' /\ Saved'
  BY <1>1, SavedLeft DEF IInv, Control, Data
<1>7. SnapshotsSpaced' /\ WaterDue'
  BY <1>1, SnapshotsLeft
<1>. QED
  BY <1>5, <1>6, <1>7 DEF IInv

LEMMA StutterInv ==
    ASSUME IInv, frame' = frame \/ frame' = None,
           UNCHANGED <<clock, hasKey, lock, pc, now, task, snaps, hist, rainAt,
                       rainHourlyAt, disk, unsaved>>
    PROVE  IInv'
<1>1. Control' /\ Data' /\ Saved'
  BY SavedLeft DEF IInv, Control, Data
<1>2. FrameTyped'
  BY DEF IInv, FrameTyped
<1>3. SnapshotsSpaced' /\ WaterDue'
  BY SnapshotsLeft
<1>. QED
  BY <1>1, <1>2, <1>3 DEF IInv

LEMMA NextInv == IInv /\ [Next]_vars => IInv'
<1>. SUFFICES ASSUME IInv, [Next]_vars PROVE IInv'
  OBVIOUS
<1>1. CASE Tick
  BY <1>1, TickInv
<1>2. ASSUME NEW t \in Threads, NEW k \in Tasks, Call(t, k) PROVE IInv'
  BY <1>2, CallInv
<1>3. ASSUME NEW t \in Threads, ThreadStep(t) PROVE IInv'
  BY <1>3, EnterAndReturnInv, EnterAndPullInv, PullWaterInv, PullHourlyAndDamsInv,
     PullRainInv, PullRainHourlyInv, PersistInv DEF ThreadStep
<1>4. CASE ReadLatest
  BY <1>4, ReadLatestInv
<1>5. CASE ReadHistory
  BY <1>5, StutterInv DEF ReadHistory, calls, live
<1>6. CASE Restart
  BY <1>6, RestartInv
<1>7. CASE UNCHANGED vars
  BY <1>7, StutterInv DEF vars, calls, live
<1>. QED
  BY <1>1, <1>2, <1>3, <1>4, <1>5, <1>6, <1>7 DEF Next

THEOREM Invariant == Spec => []IInv
  BY InitInv, NextInv, PTL DEF Spec

-----------------------------------------------------------------------------
(* The cache of national_watch.py keeps its types and _LOCK excludes: a     *)
(* thread is inside a pull exactly when it is the holder.                   *)
THEOREM TypeCorrect == Spec => []TypeOK
<1>1. IInv => TypeOK
  BY TypeParts DEF IInv
<1>. QED
  BY <1>1, Invariant, PTL

(* The snapshots of _LIVE are REFRESH_SECONDS apart, for every number of    *)
(* calling threads and every clock.                                         *)
THEOREM SnapshotsSpacedHolds == Spec => []SnapshotsSpaced
<1>1. IInv => SnapshotsSpaced
  BY DEF IInv
<1>. QED
  BY <1>1, Invariant, PTL

(* The hours that a save of the rain history wrote are loaded again by the  *)
(* next process, whenever the first one ends.                               *)
THEOREM RestartKeepsWindowHolds == Spec => RestartKeepsWindow
<1>1. ASSUME IInv, Restart, NEW s \in hist \ unsaved, s >= clock - KeepHist
      PROVE  s \in hist'
  <2>1. s \in disk /\ s \in 0 .. clock /\ clock \in Nat
    BY <1>1, Periods DEF IInv, Saved, Data, Time
  <2>2. s <= clock + Refresh
    BY <2>1, Periods
  <2>3. hist' = Loaded(disk)
    BY <1>1 DEF Restart
  <2>. QED
    BY <1>1, <2>1, <2>2, <2>3, Periods DEF Loaded
<1>2. IInv => [Restart => \A s \in hist \ unsaved : s >= clock - KeepHist => s \in hist']_vars
  BY <1>1
<1>. QED
  BY <1>2, Invariant, PTL DEF RestartKeepsWindow

-----------------------------------------------------------------------------
(* The torn read of a frame.  A reader's clock stands between its two       *)
(* reads, and every call is younger than a refresh, so at most one snapshot *)
(* can come between them.                                                   *)
CallsYoung ==
    \A t \in Threads : pc[t] # "idle" => now[t] <= clock /\ clock - now[t] < MaxCall

(* A reading is of a slot that began before the pull that brought it ended; *)
(* snapshots that lie apart in the deque lie as many refreshes apart.       *)
SlotsPast ==
    \A i \in 1 .. Len(snaps) : snaps[i].obs # None => snaps[i].obs.t < snaps[i].at + Refresh
FarApart ==
    \A j \in 1 .. Len(snaps) : \A i \in 1 .. j : snaps[j].at - snaps[i].at >= (j - i) * Refresh

(* What the deque is to a reader: what it was at the first read, or one     *)
(* snapshot later.  The snapshot that was dropped then is so old that the   *)
(* slot after its own is no longer fresh.                                   *)
Unmoved == snaps # <<>> /\ frame.history = Front(snaps) /\ frame.latest = Last(snaps).obs
Moved ==
    LET h == frame.history
    IN /\ Len(snaps) >= 2
       /\ snaps[Len(snaps) - 1].obs = frame.latest
       /\ clock - snaps[Len(snaps)].at < Refresh
       /\ \/ Len(snaps) = Len(h) + 2 /\ \A i \in 1 .. Len(h) : snaps[i] = h[i]
          \/ /\ Len(h) >= 1 /\ Len(snaps) = Len(h) + 1
             /\ \A i \in 1 .. Len(h) - 1 : snaps[i] = h[i + 1]
             /\ h[1].obs # None => clock - h[1].obs.t > (Keep - 1) * Refresh
Torn == frame # None => Unmoved \/ Moved

ReadInv == CallsYoung /\ SlotsPast /\ FarApart /\ Torn

(* The search for the previous step in a history, and in that history with  *)
(* the latest reading put behind it.                                        *)
Others(latest, h) == {i \in DOMAIN h : h[i].obs # None /\ h[i].obs.t # latest.t}

LEMMA SameWithLatestBehind ==
    ASSUME NEW h \in Seq(Snapshot), NEW g \in Seq(Snapshot), NEW latest,
           Len(g) = Len(h) + 1, \A i \in 1 .. Len(h) : g[i] = h[i],
           g[Len(g)].obs = latest
    PROVE  PreviousStep(latest, g) = PreviousStep(latest, h)
<1>1. DOMAIN h = 1 .. Len(h) /\ DOMAIN g = 1 .. (Len(h) + 1) /\ Len(h) \in Nat
  OBVIOUS
<1>2. Others(latest, g) = Others(latest, h)
  BY <1>1 DEF Others
<1>3. Others(latest, h) # {} => Max(Others(latest, h)) \in 1 .. Len(h)
  <2>1. Others(latest, h) \subseteq 1 .. Len(h)
    BY <1>1 DEF Others
  <2>. QED
    BY <1>1, <2>1, GreatestBelow
<1>4. PreviousStep(latest, h) =
        LET newest == h[Max(Others(latest, h))].obs
        IN IF Others(latest, h) # {} /\ latest.t - newest.t = Step THEN newest ELSE None
  BY DEF PreviousStep, Others
<1>5. PreviousStep(latest, g) =
        LET newest == g[Max(Others(latest, g))].obs
        IN IF Others(latest, g) # {} /\ latest.t - newest.t = Step THEN newest ELSE None
  BY DEF PreviousStep, Others
<1>. QED
  BY <1>2, <1>3, <1>4, <1>5

LEMMA SameWithoutOldest ==
    ASSUME NEW h \in Seq(Snapshot), NEW g \in Seq(Snapshot), NEW latest,
           Len(h) >= 1, Len(g) = Len(h), \A i \in 1 .. Len(h) - 1 : g[i] = h[i + 1],
           g[Len(g)].obs = latest,
           h[1].obs # None => latest.t - h[1].obs.t # Step
    PROVE  PreviousStep(latest, g) = PreviousStep(latest, h)
<1>. DEFINE H == Others(latest, h)
            G == Others(latest, g)
<1>1. DOMAIN h = 1 .. Len(h) /\ DOMAIN g = 1 .. Len(h) /\ Len(h) \in Nat
  OBVIOUS
<1>2. /\ H \subseteq 1 .. Len(h) /\ G \subseteq 1 .. Len(h) - 1
      /\ \A i \in 1 .. Len(h) - 1 : i \in G <=> i + 1 \in H
  <2>1. H \subseteq 1 .. Len(h) /\ G \subseteq 1 .. Len(h) /\ Len(h) \notin G
    BY <1>1 DEF Others
  <2>2. ASSUME NEW i \in 1 .. Len(h) - 1
        PROVE  i \in G <=> i + 1 \in H
    <3>1. i \in DOMAIN g /\ i + 1 \in DOMAIN h /\ g[i] = h[i + 1]
      BY <1>1
    <3>. QED
      BY <3>1 DEF Others
  <2>. QED
    BY <1>1, <2>1, <2>2
<1>3. PreviousStep(latest, h) = IF H # {} /\ latest.t - h[Max(H)].obs.t = Step THEN h[Max(H)].obs ELSE None
  BY DEF PreviousStep, Others
<1>4. PreviousStep(latest, g) = IF G # {} /\ latest.t - g[Max(G)].obs.t = Step THEN g[Max(G)].obs ELSE None
  BY DEF PreviousStep, Others
<1>5. H # {} => Max(H) \in H /\ \A y \in H : y <= Max(H)
  BY <1>1, <1>2, GreatestBelow
<1>6. G # {} => Max(G) \in G /\ \A y \in G : y <= Max(G)
  <2>1. G \subseteq 1 .. Len(h)
    BY <1>1, <1>2
  <2>. QED
    BY <1>1, <2>1, GreatestBelow
<1>7. 1 \in H => h[1].obs # None
  BY DEF Others
<1>. HIDE DEF H, G
<1>8. CASE H \subseteq {1}
  <2>1. G = {}
    BY <1>1, <1>2, <1>8
  <2>2. H # {} => Max(H) = 1 /\ latest.t - h[1].obs.t # Step
    BY <1>5, <1>7, <1>8
  <2>. QED
    BY <1>3, <1>4, <2>1, <2>2
<1>9. CASE ~(H \subseteq {1})
  <2>1. PICK k \in H : k # 1
    BY <1>9
  <2>2. k \in 1 .. Len(h) /\ k - 1 \in 1 .. Len(h) - 1 /\ (k - 1) + 1 = k
    BY <1>1, <1>2, <2>1
  <2>3. k - 1 \in G
    BY <1>2, <2>1, <2>2
  <2>4. H # {} /\ G # {}
    BY <2>1, <2>3
  <2>5. Max(G) \in 1 .. Len(h) - 1 /\ Max(H) \in 1 .. Len(h)
    BY <1>2, <1>5, <1>6, <2>4
  <2>6. Max(G) + 1 \in H
    BY <1>2, <1>6, <2>4, <2>5
  <2>7. Max(G) + 1 <= Max(H)
    BY <1>5, <2>4, <2>6
  <2>8. Max(H) - 1 \in 1 .. Len(h) - 1 /\ (Max(H) - 1) + 1 = Max(H)
    BY <1>1, <2>5, <2>7
  <2>9. Max(H) - 1 \in G
    BY <1>2, <1>5, <2>4, <2>8
  <2>10. Max(H) - 1 <= Max(G)
    BY <1>6, <2>4, <2>9
  <2>11. Max(H) = Max(G) + 1
    BY <1>1, <2>5, <2>7, <2>10
  <2>12. g[Max(G)] = h[Max(H)]
    BY <2>5, <2>11
  <2>. QED
    BY <1>3, <1>4, <2>4, <2>12
<1>. QED
  BY <1>8, <1>9

(* With the invariant, the two searches agree while the reading is fresh.   *)
LEMMA TornReadIsWhole == ASSUME IInv, ReadInv PROVE FrameIntact
<1>1. SUFFICES ASSUME frame # None, clock - frame.latest.t <= Fresh
               PROVE  PreviousStep(frame.latest, Front(snaps)) = PreviousStep(frame.latest, frame.history)
  BY DEF FrameIntact
<1>2. CASE Unmoved
  BY <1>2 DEF Unmoved
<1>3. CASE Moved
  <2>. DEFINE h == frame.history
              g == Front(snaps)
              latest == frame.latest
  <2>1. /\ snaps \in Seq(Snapshot) /\ h \in Seq(Snapshot) /\ Len(snaps) \in Nat /\ Len(snaps) >= 2
        /\ latest.t \in Nat /\ clock \in Nat
    BY <1>1, <1>3, Periods DEF IInv, Data, FrameTyped, Moved, Time
  <2>2. /\ g \in Seq(Snapshot) /\ Len(g) = Len(snaps) - 1
        /\ \A i \in 1 .. Len(snaps) - 1 : g[i] = snaps[i]
    BY <2>1 DEF Front
  <2>3. g[Len(g)].obs = latest
    BY <2>1, <2>2, <1>3 DEF Moved
  <2>4. CASE Len(snaps) = Len(h) + 2 /\ \A i \in 1 .. Len(h) : snaps[i] = h[i]
    <3>1. Len(g) = Len(h) + 1 /\ \A i \in 1 .. Len(h) : g[i] = h[i]
      BY <2>1, <2>2, <2>4
    <3>. HIDE DEF h, g, latest
    <3>. QED
      BY <2>1, <2>2, <2>3, <3>1, SameWithLatestBehind DEF h, g, latest
  <2>5. CASE /\ Len(h) >= 1 /\ Len(snaps) = Len(h) + 1
             /\ \A i \in 1 .. Len(h) - 1 : snaps[i] = h[i + 1]
             /\ h[1].obs # None => clock - h[1].obs.t > (Keep - 1) * Refresh
    <3>1. Len(g) = Len(h) /\ \A i \in 1 .. Len(h) - 1 : g[i] = h[i + 1]
      BY <2>1, <2>2, <2>5
    <3>2. ASSUME h[1].obs # None
          PROVE  latest.t - h[1].obs.t # Step
      <4>1. h[1] \in Snapshot
        BY <2>1, <2>5
      <4>2. h[1].obs.t \in Nat
        BY <3>2, <4>1, Periods DEF Snapshot, Obs, Time
      <4>3. clock - h[1].obs.t > Fresh + Step
        <5>1. (Keep - 1) * Refresh >= Fresh + Step /\ (Keep - 1) * Refresh \in Int
          BY ConstantsAssumption
        <5>. QED
          BY <2>1, <2>5, <3>2, <4>2, <5>1, Periods
      <4>4. clock - latest.t <= Fresh /\ Step \in Nat /\ Fresh \in Nat
        BY <1>1, Periods
      <4>. HIDE DEF h, g, latest
      <4>. QED
        BY <2>1, <4>2, <4>3, <4>4
    <3>. HIDE DEF h, g, latest
    <3>. QED
      BY <2>1, <2>2, <2>3, <2>5, <3>1, <3>2, SameWithoutOldest DEF h, g, latest
  <2>. QED
    BY <1>3, <2>4, <2>5 DEF Moved
<1>. QED
  BY <1>1, <1>2, <1>3 DEF ReadInv, Torn

LEMMA FrontIs ==
    ASSUME NEW q \in Seq(Snapshot), Len(q) >= 1
    PROVE  /\ Front(q) \in Seq(Snapshot) /\ Len(Front(q)) = Len(q) - 1
           /\ \A i \in 1 .. Len(q) - 1 : Front(q)[i] = q[i]
<1>. DEFINE n == Len(q)
<1>1. n \in Nat /\ n >= 1 /\ \A i \in 1 .. n - 1 : q[i] \in Snapshot
  OBVIOUS
<1>2. Front(q) = SubSeq(q, 1, n - 1)
  BY DEF Front
<1>. HIDE DEF n
<1>3. SubSeq(q, 1, n - 1) \in Seq(Snapshot) /\ Len(SubSeq(q, 1, n - 1)) = n - 1
  BY <1>1
<1>4. \A i \in 1 .. n - 1 : SubSeq(q, 1, n - 1)[i] = q[i]
  BY <1>1
<1>. QED
  BY <1>2, <1>3, <1>4 DEF n

(* One more snapshot, a refresh after the last, keeps the distances.        *)
LEMMA PushFarApart ==
    ASSUME snaps \in Seq(Snapshot), Len(snaps) <= Keep, FarApart, NEW x \in Snapshot,
           snaps' = Push(snaps, x),
           Len(snaps) > 0 => x.at - snaps[Len(snaps)].at >= Refresh
    PROVE  FarApart'
<1>. DEFINE n == Len(snaps)
<1>1. n \in Nat /\ x.at \in Nat
  BY Periods DEF Snapshot, Time
<1>2. /\ snaps' \in Seq(Snapshot)
      /\ Len(snaps') \in 1 .. Keep
      /\ snaps'[Len(snaps')] = x
      /\ \/ /\ Len(snaps') = n + 1
            /\ \A i \in 1 .. n : snaps'[i] = snaps[i]
         \/ /\ Len(snaps') = n /\ n = Keep
            /\ \A i \in 1 .. n - 1 : snaps'[i] = snaps[i + 1]
  BY PushKeeps
<1>3. \A i \in 1 .. n : snaps[i] \in Snapshot /\ snaps[i].at \in Nat
  <2>1. \A i \in 1 .. n : snaps[i] \in Snapshot
    BY <1>1
  <2>2. \A y \in Snapshot : y.at \in Nat
    BY Periods DEF Snapshot, Time
  <2>. QED
    BY <2>1, <2>2
<1>4. \A j \in 1 .. n : \A i \in 1 .. j : snaps[j].at - snaps[i].at >= (j - i) * Refresh
  BY DEF FarApart
<1>5. \A i \in 1 .. n : x.at - snaps[i].at >= (n - i + 1) * Refresh
  <2>1. SUFFICES ASSUME NEW i \in 1 .. n PROVE x.at - snaps[i].at >= (n - i + 1) * Refresh
    OBVIOUS
  <2>2. n \in 1 .. n /\ n > 0
    BY <1>1
  <2>3. snaps[n].at - snaps[i].at >= (n - i) * Refresh /\ x.at - snaps[n].at >= Refresh
    BY <1>4, <2>2
  <2>4. (n - i + 1) * Refresh = (n - i) * Refresh + Refresh /\ (n - i) * Refresh \in Int
    BY <1>1, Periods
  <2>. QED
    BY <1>1, <1>3, <2>2, <2>3, <2>4, Periods
<1>6. ASSUME NEW j \in 1 .. Len(snaps'), NEW i \in 1 .. j
      PROVE  snaps'[j].at - snaps'[i].at >= (j - i) * Refresh
  <2>1. CASE i = j
    <3>1. snaps'[i] \in Snapshot
      BY <1>2
    <3>2. snaps'[i].at \in Nat /\ (j - i) * Refresh = 0
      BY <3>1, <2>1, Periods DEF Snapshot, Time
    <3>. QED
      BY <2>1, <3>2
  <2>2. CASE i # j /\ Len(snaps') = n + 1 /\ \A k \in 1 .. n : snaps'[k] = snaps[k]
    <3>1. i \in 1 .. n /\ snaps'[i] = snaps[i]
      BY <1>1, <2>2
    <3>2. CASE j = n + 1
      <4>1. snaps'[j] = x /\ j - i = n - i + 1
        BY <1>1, <1>2, <2>2, <3>1, <3>2
      <4>. QED
        BY <1>5, <3>1, <4>1
    <3>3. CASE j # n + 1
      <4>1. j \in 1 .. n /\ snaps'[j] = snaps[j]
        BY <1>1, <2>2, <3>3
      <4>. QED
        BY <1>4, <3>1, <4>1
    <3>. QED
      BY <3>2, <3>3
  <2>3. CASE i # j /\ Len(snaps') = n /\ \A k \in 1 .. n - 1 : snaps'[k] = snaps[k + 1]
    <3>1. i \in 1 .. n - 1 /\ snaps'[i] = snaps[i + 1] /\ i + 1 \in 1 .. n
      BY <1>1, <2>3
    <3>2. CASE j = n
      <4>1. snaps'[j] = x /\ j - i = n - (i + 1) + 1
        BY <1>1, <1>2, <2>3, <3>1, <3>2
      <4>. QED
        BY <1>5, <3>1, <4>1
    <3>3. CASE j # n
      <4>1. j \in 1 .. n - 1 /\ snaps'[j] = snaps[j + 1] /\ j + 1 \in 1 .. n /\ i + 1 \in 1 .. j + 1
            /\ j - i = (j + 1) - (i + 1)
        BY <1>1, <2>3, <3>1, <3>3
      <4>. QED
        BY <1>4, <3>1, <4>1
    <3>. QED
      BY <3>2, <3>3
  <2>. QED
    BY <1>2, <2>1, <2>2, <2>3
<1>. QED
  BY <1>6 DEF FarApart

(* A step that stores no snapshot, and gives no running call another time.  *)
LEMMA ReadLeft ==
    ASSUME ReadInv, UNCHANGED <<clock, snaps>>, frame' = frame \/ frame' = None,
           \A u \in Threads : pc'[u] # "idle" => pc[u] # "idle" /\ now'[u] = now[u]
    PROVE  ReadInv'
<1>1. CallsYoung' /\ SlotsPast' /\ FarApart'
  BY DEF ReadInv, CallsYoung, SlotsPast, FarApart
<1>2. Torn'
  BY DEF ReadInv, Torn, Unmoved, Moved
<1>. QED
  BY <1>1, <1>2 DEF ReadInv

LEMMA ReturnLeavesCalls ==
    ASSUME Control, NEW t \in Threads, Return(t)
    PROVE  \A u \in Threads : pc'[u] # "idle" => pc[u] # "idle" /\ now'[u] = now[u]
  BY DEF Control, Return, GoTo

LEMMA ContinueLeavesCalls ==
    ASSUME Control, NEW t \in Threads, NEW place, pc[t] # "idle", Continue(t, place)
    PROVE  \A u \in Threads : pc'[u] # "idle" => pc[u] # "idle" /\ now'[u] = now[u]
  BY DEF Control, Continue, GoTo

(* The pull that stores a snapshot beside a reader.                         *)
LEMMA StoreRead ==
    ASSUME IInv, ReadInv, NEW t \in Threads, pc[t] = "water",
           NEW o \in {None} \cup [t : Published(Step), wl : Levels],
           snaps' = Push(snaps, [at |-> now[t], obs |-> o]),
           Continue(t, "hourlyAndDams"), UNCHANGED <<clock, frame>>
    PROVE  ReadInv'
<1>. DEFINE x == [at |-> now[t], obs |-> o]
            n == Len(snaps)
<1>1. now[t] \in Nat /\ clock \in Nat /\ now[t] \in Time /\ clock \in Time
  BY Periods DEF IInv, Control, Data, Time
<1>2. now[t] <= clock /\ clock - now[t] < Refresh
  BY <1>1, Periods DEF ReadInv, CallsYoung
<1>3. o # None => o.t \in Nat /\ o.t <= clock
  BY <1>1, PublishedIsPast, Periods DEF IInv, Data, Time
<1>4. o \in Obs
  <2>1. Published(Step) \subseteq Time
    BY <1>1, PublishedIsPast, Periods
  <2>. QED
    BY <2>1 DEF Obs
<1>5. x \in Snapshot /\ x.at = now[t] /\ x.obs = o
  BY <1>1, <1>4 DEF Snapshot
<1>6. snaps \in Seq(Snapshot) /\ n <= Keep /\ n \in Nat
  BY DEF IInv, Data
<1>7. /\ snaps' \in Seq(Snapshot)
      /\ Len(snaps') \in 1 .. Keep
      /\ snaps'[Len(snaps')] = x
      /\ \/ /\ Len(snaps') = n + 1
            /\ \A i \in 1 .. n : snaps'[i] = snaps[i]
         \/ /\ Len(snaps') = n /\ n = Keep
            /\ \A i \in 1 .. n - 1 : snaps'[i] = snaps[i + 1]
  <2>. HIDE DEF x
  <2>. QED
    BY <1>5, <1>6, PushKeeps, ZenonT(30) DEF x
<1>8. n > 0 => x.at - snaps[n].at >= Refresh
  BY <1>5, <1>6 DEF IInv, WaterDue
<1>. HIDE DEF x
<1>9. \A i \in 1 .. n : snaps[i] \in Snapshot /\ snaps[i].at \in Nat
  <2>1. \A i \in 1 .. n : snaps[i] \in Snapshot
    BY <1>6
  <2>2. \A y \in Snapshot : y.at \in Nat
    BY Periods DEF Snapshot, Time
  <2>. QED
    BY <2>1, <2>2
<1>10. CallsYoung'
  <2>1. \A u \in Threads : pc'[u] # "idle" => pc[u] # "idle" /\ now'[u] = now[u]
    BY ContinueLeavesCalls DEF IInv
  <2>. QED
    BY <2>1 DEF ReadInv, CallsYoung
<1>11. SlotsPast'
  <2>1. x.obs # None => x.obs.t < x.at + Refresh
    BY <1>1, <1>2, <1>3, <1>5, Periods
  <2>2. ASSUME NEW i \in 1 .. Len(snaps'), snaps'[i].obs # None
        PROVE  snaps'[i].obs.t < snaps'[i].at + Refresh
    <3>1. snaps'[i] = x \/ \E k \in 1 .. n : snaps'[i] = snaps[k]
      <4>1. CASE i = Len(snaps')
        BY <1>7, <4>1
      <4>2. CASE i # Len(snaps') /\ Len(snaps') = n + 1 /\ \A k \in 1 .. n : snaps'[k] = snaps[k]
        <5>1. i \in 1 .. n
          BY <1>6, <4>2
        <5>. QED
          BY <4>2, <5>1
      <4>3. CASE i # Len(snaps') /\ Len(snaps') = n /\ \A k \in 1 .. n - 1 : snaps'[k] = snaps[k + 1]
        <5>1. i \in 1 .. n - 1 /\ i + 1 \in 1 .. n
          BY <1>6, <4>3
        <5>. QED
          BY <4>3, <5>1
      <4>. QED
        BY <1>7, <4>1, <4>2, <4>3
    <3>. QED
      BY <2>1, <2>2, <3>1 DEF ReadInv, SlotsPast
  <2>. QED
    BY <2>2 DEF SlotsPast

<1>12. FarApart'
  <2>1. snaps' = Push(snaps, x)
    BY DEF x
  <2>. QED
    BY <1>5, <1>6, <1>8, <2>1, PushFarApart DEF ReadInv
<1>13. Torn'
  <2>1. SUFFICES ASSUME frame # None PROVE Moved'
    BY DEF Torn
  <2>2. ~Moved
    <3>1. ASSUME Moved PROVE n > 0 /\ clock - snaps[n].at < Refresh
      BY <3>1, <1>6 DEF Moved
    <3>2. n > 0 => n \in 1 .. n
      BY <1>6
    <3>. QED
      BY <1>1, <1>2, <1>5, <1>8, <1>9, <3>1, <3>2, Periods
  <2>3. Unmoved
    BY <2>1, <2>2 DEF ReadInv, Torn
  <2>. DEFINE h == frame.history
  <2>4. n >= 1 /\ h = Front(snaps) /\ frame.latest = snaps[n].obs
    BY <1>6, <2>3 DEF Unmoved, Last
  <2>. HIDE DEF h
  <2>5. h \in Seq(Snapshot) /\ Len(h) = n - 1 /\ \A i \in 1 .. n - 1 : h[i] = snaps[i]
    BY <1>6, <2>4, FrontIs
  <2>6. clock - snaps'[Len(snaps')].at < Refresh
    BY <1>2, <1>5, <1>7
  <2>7. CASE Len(snaps') = n + 1 /\ \A i \in 1 .. n : snaps'[i] = snaps[i]
    <3>1. Len(snaps') >= 2 /\ snaps'[Len(snaps') - 1] = snaps[n] /\ Len(snaps') = Len(h) + 2
      BY <1>6, <2>4, <2>5, <2>7
    <3>2. \A i \in 1 .. Len(h) : snaps'[i] = h[i]
      BY <1>6, <2>5, <2>7
    <3>. QED
      BY <2>4, <2>6, <3>1, <3>2 DEF Moved, h
  <2>8. CASE /\ Len(snaps') = n /\ n = Keep
             /\ \A i \in 1 .. n - 1 : snaps'[i] = snaps[i + 1]
    <3>1. Keep >= 2
      <4>1. Keep # 1
        BY ConstantsAssumption
      <4>. QED
        BY <4>1, Periods
    <3>2. /\ Len(snaps') >= 2 /\ snaps'[Len(snaps') - 1] = snaps[n]
          /\ Len(h) >= 1 /\ Len(snaps') = Len(h) + 1
      BY <1>6, <2>5, <2>8, <3>1
    <3>3. \A i \in 1 .. Len(h) - 1 : snaps'[i] = h[i + 1]
      BY <1>6, <2>5, <2>8
    <3>4. ASSUME h[1].obs # None PROVE clock - h[1].obs.t > (Keep - 1) * Refresh
      <4>1. h[1] = snaps[1] /\ 1 \in 1 .. n /\ n \in 1 .. n
        BY <1>6, <2>5, <2>8, <3>1
      <4>2. snaps[n].at - snaps[1].at >= (n - 1) * Refresh
        BY <4>1 DEF ReadInv, FarApart
      <4>3. snaps[1].obs.t < snaps[1].at + Refresh
        BY <3>4, <4>1 DEF ReadInv, SlotsPast
      <4>4. snaps[1].obs.t \in Nat /\ snaps[1].at \in Nat /\ snaps[n].at \in Nat /\ (n - 1) * Refresh \in Int
        BY <1>6, <1>9, <3>4, <4>1, Periods DEF Snapshot, Obs, Time
      <4>5. clock - snaps[n].at >= Refresh
        BY <1>1, <1>2, <1>5, <1>8, <2>4, <4>4, Periods, SMTT(30)
      <4>. QED
        BY <1>1, <2>8, <4>1, <4>2, <4>3, <4>4, <4>5, Periods
    <3>. QED
      BY <2>4, <2>6, <3>2, <3>3, <3>4 DEF Moved, h
  <2>. QED
    BY <1>7, <2>7, <2>8
<1>. QED
  BY <1>10, <1>11, <1>12, <1>13 DEF ReadInv

-----------------------------------------------------------------------------
LEMMA ReadInit == Init => ReadInv
<1>. SUFFICES ASSUME Init PROVE ReadInv
  OBVIOUS
<1>1. snaps = <<>> /\ Len(snaps) = 0 /\ frame = None /\ \A t \in Threads : pc[t] = "idle"
  BY DEF Init
<1>. QED
  BY <1>1 DEF ReadInv, CallsYoung, SlotsPast, FarApart, Torn

LEMMA ReadThreadStep ==
    ASSUME IInv, ReadInv, NEW t \in Threads, ThreadStep(t) PROVE ReadInv'
<1>. USE DEF IInv
<1>1. CASE EnterAndReturn(t)
  BY <1>1, ReturnLeavesCalls, ReadLeft DEF EnterAndReturn
<1>2. CASE EnterAndPull(t)
  <2>1. /\ UNCHANGED <<clock, snaps, frame, now>> /\ pc[t] = "waiting"
        /\ \A u \in Threads : u # t => pc'[u] = pc[u]
    BY <1>2 DEF EnterAndPull, At, GoTo, Control, live
  <2>. QED
    BY <2>1, ReadLeft
<1>3. CASE PullWater(t)
  <2>1. pc[t] = "water" /\ UNCHANGED <<clock, frame>>
    BY <1>3 DEF PullWater, At
  <2>2. CASE Return(t) /\ UNCHANGED snaps
    BY <2>1, <2>2, ReturnLeavesCalls, ReadLeft
  <2>3. CASE Continue(t, "hourlyAndDams") /\ UNCHANGED snaps
    BY <2>1, <2>3, ContinueLeavesCalls, ReadLeft
  <2>4. CASE /\ \E o \in {None} \cup [t : Published(Step), wl : Levels] :
                   snaps' = Push(snaps, [at |-> now[t], obs |-> o])
             /\ Continue(t, "hourlyAndDams")
    BY <2>1, <2>4, StoreRead
  <2>. QED
    BY <1>3, <2>2, <2>3, <2>4 DEF PullWater
<1>4. CASE PullHourlyAndDams(t)
  <2>1. pc[t] # "idle" /\ UNCHANGED <<clock, snaps, frame>> /\ (Return(t) \/ Continue(t, "rain"))
    BY <1>4 DEF PullHourlyAndDams, At, live
  <2>. QED
    BY <2>1, ReturnLeavesCalls, ContinueLeavesCalls, ReadLeft
<1>5. CASE PullRain(t)
  <2>1. pc[t] # "idle" /\ UNCHANGED <<clock, snaps, frame>> /\ (Return(t) \/ Continue(t, "rainHourly"))
    BY <1>5 DEF PullRain, At
  <2>. QED
    BY <2>1, ReturnLeavesCalls, ContinueLeavesCalls, ReadLeft
<1>6. CASE PullRainHourly(t)
  <2>1. pc[t] # "idle" /\ UNCHANGED <<clock, snaps, frame>> /\ (Return(t) \/ Continue(t, "persist"))
    BY <1>6 DEF PullRainHourly, At
  <2>. QED
    BY <2>1, ReturnLeavesCalls, ContinueLeavesCalls, ReadLeft
<1>7. CASE Persist(t)
  BY <1>7, ReturnLeavesCalls, ReadLeft DEF Persist
<1>. QED
  BY <1>1, <1>2, <1>3, <1>4, <1>5, <1>6, <1>7 DEF ThreadStep

LEMMA ReadNext == IInv /\ ReadInv /\ [Next]_vars => ReadInv'
<1>. SUFFICES ASSUME IInv, ReadInv, [Next]_vars PROVE ReadInv'
  OBVIOUS
<1>1. CASE Tick
  <2>1. /\ frame = None /\ UNCHANGED <<frame, snaps, pc, now>> /\ clock' = clock + 1
        /\ \A t \in Threads : pc[t] # "idle" => clock + 1 - now[t] < MaxCall
    BY <1>1 DEF Tick, live, calls
  <2>2. CallsYoung'
    <3>1. clock \in Nat /\ \A t \in Threads : now[t] \in Nat
      BY Periods DEF IInv, Control, Data, Time
    <3>. QED
      BY <2>1, <3>1 DEF ReadInv, CallsYoung
  <2>3. SlotsPast' /\ FarApart' /\ Torn'
    BY <2>1 DEF ReadInv, SlotsPast, FarApart, Torn
  <2>. QED
    BY <2>2, <2>3 DEF ReadInv
<1>2. ASSUME NEW t \in Threads, NEW k \in Tasks, Call(t, k) PROVE ReadInv'
  <2>1. /\ UNCHANGED <<clock, snaps, frame>>
        /\ \A u \in Threads : u # t => pc'[u] = pc[u] /\ now'[u] = now[u]
        /\ now'[t] = clock
    BY <1>2 DEF Call, At, GoTo, live, IInv, Control
  <2>2. CallsYoung'
    <3>1. clock \in Nat /\ clock - clock = 0 /\ 0 < MaxCall
      BY Periods DEF IInv, Data, Time
    <3>. QED
      BY <2>1, <3>1 DEF ReadInv, CallsYoung
  <2>3. SlotsPast' /\ FarApart' /\ Torn'
    BY <2>1 DEF ReadInv, SlotsPast, FarApart, Torn, Unmoved, Moved
  <2>. QED
    BY <2>2, <2>3 DEF ReadInv
<1>3. ASSUME NEW t \in Threads, ThreadStep(t) PROVE ReadInv'
  BY <1>3, ReadThreadStep
<1>4. CASE ReadLatest
  <2>1. /\ UNCHANGED <<clock, snaps, pc, now>> /\ snaps # <<>>
        /\ frame' = [latest |-> Last(snaps).obs, history |-> Front(snaps)]
    BY <1>4 DEF ReadLatest, calls, live
  <2>2. Unmoved'
    BY <2>1 DEF Unmoved
  <2>3. CallsYoung' /\ SlotsPast' /\ FarApart'
    BY <2>1 DEF ReadInv, CallsYoung, SlotsPast, FarApart
  <2>. QED
    BY <2>2, <2>3 DEF ReadInv, Torn
<1>5. CASE ReadHistory
  BY <1>5, ReadLeft DEF ReadHistory, calls, live
<1>6. CASE Restart
  <2>1. snaps' = <<>> /\ Len(snaps') = 0 /\ frame' = None /\ \A t \in Threads : pc'[t] = "idle"
    BY <1>6 DEF Restart
  <2>. QED
    BY <2>1 DEF ReadInv, CallsYoung, SlotsPast, FarApart, Torn
<1>7. CASE UNCHANGED vars
  BY <1>7, ReadLeft DEF vars, calls, live
<1>. QED
  BY <1>1, <1>2, <1>3, <1>4, <1>5, <1>6, <1>7 DEF Next

(* The two reads of _frame take no lock, and a snapshot may be stored and   *)
(* the oldest dropped between them: for every number of threads and every   *)
(* clock, the reference of a fresh reading is that of an atomic read.       *)
THEOREM FrameIntactHolds == Spec => []FrameIntact
<1>1. IInv /\ ReadInv => FrameIntact
  BY TornReadIsWhole
<1>. QED
  BY <1>1, ReadInit, ReadNext, Invariant, PTL DEF Spec

-----------------------------------------------------------------------------
(* The rows of a gauge (StationBoard).                                      *)
RowsInv ==
    /\ clock \in Time /\ snaps \in Seq(Snapshot) /\ Len(snaps) <= Keep
    /\ hourly \in Obs
    /\ FarApart

LEMMA Ratios ==
    /\ Window \in Nat \ {0} /\ Since \in Nat \ {0} /\ Jump \in Nat \ {0}
    /\ FreshHour \in Nat \ {0} /\ MinutesPerTick \in Nat \ {0}
    /\ Step * MinutesPerTick = 10 /\ Hour <= FreshHour /\ Since <= (Keep - 1) * Refresh
    /\ Keep >= 2
<1>1. Keep # 1
  BY ConstantsAssumption
<1>2. Keep >= 2
  BY <1>1, Periods
<1>. QED
  BY <1>2, StationAssumption

LEMMA RowsInvInit == StationInit => RowsInv
<1>. SUFFICES ASSUME StationInit PROVE RowsInv
  OBVIOUS
<1>1. snaps = <<>> /\ Len(snaps) = 0 /\ clock = 0 /\ hourly = None
  BY DEF StationInit, Init
<1>. QED
  BY <1>1, Periods DEF RowsInv, FarApart, Obs, Time

LEMMA RowsInvSnapped ==
    ASSUME RowsInv, PullDue, NEW obs \in Readings, Snapped(obs)
    PROVE  snaps' \in Seq(Snapshot) /\ Len(snaps') <= Keep /\ FarApart'
<1>. DEFINE x == [at |-> clock, obs |-> obs]
            n == Len(snaps)
<1>1. obs \in Obs
  BY DEF Readings, Obs
<1>2. x \in Snapshot /\ x.at = clock
  BY <1>1 DEF RowsInv, Snapshot
<1>3. snaps' = Push(snaps, x)
  BY DEF Snapped
<1>. HIDE DEF x
<1>4. snaps \in Seq(Snapshot) /\ n <= Keep /\ n \in Nat
  BY DEF RowsInv
<1>5. n > 0 => x.at - snaps[n].at >= Refresh
  <2>1. SUFFICES ASSUME n > 0 PROVE clock - snaps[n].at >= Refresh
    BY <1>2
  <2>2. snaps[n] \in Snapshot /\ snaps # <<>>
    BY <1>4, <2>1
  <2>3. LastAt = snaps[n].at /\ LastAt \in Nat /\ LastAt # None
    BY <2>2, Periods DEF LastAt, Last, Snapshot, Time
  <2>4. ~Within(LastAt, clock, Refresh)
    BY DEF PullDue
  <2>. QED
    BY <2>3, <2>4, Periods DEF Within, RowsInv, Time
<1>6. FarApart'
  BY <1>2, <1>3, <1>4, <1>5, PushFarApart DEF RowsInv
<1>7. snaps' \in Seq(Snapshot) /\ Len(snaps') \in 1 .. Keep
  BY <1>2, <1>3, <1>4, PushKeeps
<1>. QED
  BY <1>6, <1>7, Periods

LEMMA RowsInvNext == RowsInv /\ [StationNext]_<<vars, stationVars>> => RowsInv'
<1>. SUFFICES ASSUME RowsInv, [StationNext]_<<vars, stationVars>> PROVE RowsInv'
  OBVIOUS
<1>1. CASE UNCHANGED <<clock, snaps, hourly>>
  BY <1>1 DEF RowsInv, FarApart
<1>2. CASE Tick /\ UNCHANGED stationVars
  <2>1. clock' \in Time
    BY <1>2, Periods DEF Tick, RowsInv, Time
  <2>. QED
    BY <1>2, <2>1 DEF Tick, live, stationVars, RowsInv, FarApart
<1>3. CASE PullSnapshot /\ UNCHANGED <<clock, hasKey, calls, hist, rainAt, rainHourlyAt, disk, frame, unsaved>>
  <2>1. PICK obs \in Readings : PullDue /\ Snapped(obs)
    BY <1>3 DEF PullSnapshot
  <2>2. snaps' \in Seq(Snapshot) /\ Len(snaps') <= Keep /\ FarApart'
    BY <2>1, RowsInvSnapped
  <2>. QED
    BY <1>3, <2>2 DEF PullSnapshot, stationVars, RowsInv
<1>4. CASE PullWithHour /\ UNCHANGED <<clock, hasKey, calls, hist, rainAt, rainHourlyAt, disk, frame, unsaved>>
  <2>1. snaps' \in Seq(Snapshot) /\ Len(snaps') <= Keep /\ FarApart'
    <3>1. ASSUME NEW obs \in Readings, Snapped(obs)
          PROVE  snaps' \in Seq(Snapshot) /\ Len(snaps') <= Keep /\ FarApart'
      BY <1>4, <3>1, RowsInvSnapped DEF PullWithHour
    <3>2. ASSUME UNCHANGED snaps
          PROVE  snaps' \in Seq(Snapshot) /\ Len(snaps') <= Keep /\ FarApart'
      BY <3>2 DEF RowsInv, FarApart
    <3>. QED
      BY <1>4, <3>1, <3>2 DEF PullWithHour
  <2>2. hourly' \in Obs
    <3>1. Published(Hour) \subseteq Time
      BY PublishedIsPast, Periods DEF RowsInv
    <3>. QED
      BY <1>4, <3>1 DEF PullWithHour, Values, Obs
  <2>. QED
    BY <1>4, <2>1, <2>2 DEF RowsInv
<1>5. CASE Restart /\ hourly' = None
  <2>1. snaps' = <<>> /\ Len(snaps') = 0 /\ clock' = clock
    BY <1>5 DEF Restart
  <2>. QED
    BY <1>5, <2>1, Periods DEF RowsInv, FarApart, Obs
<1>. QED
  BY <1>1, <1>2, <1>3, <1>4, <1>5 DEF StationNext, Serve, vars, live, stationVars

LEMMA MaxOfTwo ==
    ASSUME NEW a \in Int, NEW b \in Int
    PROVE  Max({a, b}) \in {a, b} /\ Max({a, b}) >= a /\ Max({a, b}) >= b
<1>1. \E x \in {a, b} : \A y \in {a, b} : x >= y
  <2>1. CASE a >= b
    BY <2>1
  <2>2. CASE b >= a
    BY <2>2
  <2>. QED
    BY <2>1, <2>2
<1>. QED
  BY <1>1 DEF Max

(* The stages a level meets, and the rank of the one it is in.              *)
Met(level, levels) ==
    {i \in 1 .. 4 : StageOrder[i] \in DOMAIN levels /\ level >= levels[StageOrder[i]]}

LEMMA StageOfMet ==
    ASSUME NEW levels \in Stations, NEW level \in Int
    PROVE  ClassifyStage(level, levels) =
               IF Unrated(levels) THEN "unrated"
               ELSE IF Met(level, levels) = {} THEN "normal" ELSE StageOrder[Max(Met(level, levels))]
<1>1. DOMAIN StageOrder = 1 .. 4
  BY DEF StageOrder
<1>. QED
  BY <1>1 DEF ClassifyStage, Met

LEMMA RankOfStage ==
    /\ \A i \in 1 .. 4 : StageRank(StageOrder[i]) = 1 + i
    /\ StageRank("unrated") = 0 /\ StageRank("normal") = 1
<1>1. DOMAIN StageOrder = 1 .. 4
  BY DEF StageOrder
<1>2. ASSUME NEW i \in 1 .. 4 PROVE StageRank(StageOrder[i]) = 1 + i
  <2>1. \A j \in 1 .. 4 : StageOrder[j] = StageOrder[i] => j = i
    BY DEF StageOrder
  <2>2. StageOrder[i] # "unrated" /\ StageOrder[i] # "normal"
    BY DEF StageOrder
  <2>3. (CHOOSE j \in DOMAIN StageOrder : StageOrder[j] = StageOrder[i]) = i
    BY <1>1, <2>1
  <2>. QED
    BY <2>2, <2>3 DEF StageRank
<1>3. StageRank("unrated") = 0 /\ StageRank("normal") = 1
  BY DEF StageRank
<1>. QED
  BY <1>2, <1>3

(* A lower level is in no higher stage.                                     *)
LEMMA StageFollowsLevel ==
    ASSUME NEW levels \in Stations, NEW a \in Int, NEW b \in Int, a <= b
    PROVE  StageRank(ClassifyStage(a, levels)) <= StageRank(ClassifyStage(b, levels))
<1>1. \A s \in DOMAIN levels : levels[s] \in Int
  BY StationAssumption
<1>2. Met(a, levels) \subseteq Met(b, levels) /\ Met(a, levels) \subseteq 1 .. 4 /\ Met(b, levels) \subseteq 1 .. 4
  BY <1>1 DEF Met
<1>3. CASE Unrated(levels)
  BY <1>3, StageOfMet, RankOfStage
<1>4. CASE ~Unrated(levels) /\ Met(a, levels) = {}
  <2>1. StageRank(ClassifyStage(a, levels)) = 1
    BY <1>4, StageOfMet, RankOfStage
  <2>2. CASE Met(b, levels) = {}
    BY <1>4, <2>1, <2>2, StageOfMet, RankOfStage
  <2>3. CASE Met(b, levels) # {}
    <3>1. Max(Met(b, levels)) \in 1 .. 4
      BY <1>2, <2>3, GreatestBelow
    <3>. QED
      BY <1>4, <2>1, <2>3, <3>1, StageOfMet, RankOfStage
  <2>. QED
    BY <2>2, <2>3
<1>5. CASE ~Unrated(levels) /\ Met(a, levels) # {}
  <2>1. Met(b, levels) # {}
    BY <1>2, <1>5
  <2>2. Max(Met(a, levels)) \in Met(a, levels)
    BY <1>2, <1>5, GreatestBelow
  <2>3. Max(Met(b, levels)) \in 1 .. 4 /\ Max(Met(a, levels)) <= Max(Met(b, levels))
    BY <1>2, <2>1, <2>2, GreatestBelow
  <2>4. StageRank(ClassifyStage(a, levels)) = 1 + Max(Met(a, levels))
    BY <1>2, <1>5, <2>2, StageOfMet, RankOfStage
  <2>5. StageRank(ClassifyStage(b, levels)) = 1 + Max(Met(b, levels))
    BY <1>5, <2>1, <2>3, StageOfMet, RankOfStage
  <2>. QED
    BY <1>2, <2>2, <2>3, <2>4, <2>5
<1>. QED
  BY <1>3, <1>4, <1>5

LEMMA FloodedAtItsLevel ==
    ASSUME NEW levels \in Stations, "planned_flood" \in DOMAIN levels,
           NEW level \in Int, level >= levels["planned_flood"]
    PROVE  ClassifyStage(level, levels) = "planned_flood"
<1>1. StageOrder[4] = "planned_flood"
  BY DEF StageOrder
<1>2. 4 \in Met(level, levels) /\ Met(level, levels) \subseteq 1 .. 4
  BY <1>1 DEF Met
<1>3. Max(Met(level, levels)) \in 1 .. 4 /\ 4 <= Max(Met(level, levels))
  BY <1>2, GreatestBelow
<1>4. Max(Met(level, levels)) = 4
  BY <1>3
<1>5. ~Unrated(levels)
  BY DEF Unrated
<1>. QED
  BY <1>1, <1>2, <1>4, <1>5, StageOfMet

Reading == [t : Time, wl : Levels]

LEMMA ReadingIsNumbers == \A k \in Reading : k.t \in Int /\ k.wl \in Int
<1>1. Time \subseteq Int /\ Levels \subseteq Int
  BY ConstantsAssumption DEF Time
<1>. QED
  BY <1>1 DEF Reading

LEMMA LatestIsLast ==
    ASSUME RowsInv, Latest # None
    PROVE  /\ Len(snaps) >= 1 /\ Len(snaps) \in Nat
           /\ Latest = snaps[Len(snaps)].obs /\ Latest \in Reading
           /\ Front(snaps) \in Seq(Snapshot) /\ Len(Front(snaps)) = Len(snaps) - 1
           /\ \A i \in 1 .. Len(snaps) - 1 : Front(snaps)[i] = snaps[i]
<1>. DEFINE n == Len(snaps)
<1>1. snaps # <<>> /\ snaps \in Seq(Snapshot)
  BY DEF Latest, RowsInv
<1>2. n \in Nat /\ n >= 1 /\ Last(snaps) = snaps[n]
  BY <1>1 DEF Last
<1>3. snaps[n] \in Snapshot /\ Latest = snaps[n].obs
  BY <1>1, <1>2 DEF Latest
<1>4. Latest \in Reading
  BY <1>3 DEF Snapshot, Obs, Reading
<1>. QED
  BY <1>1, <1>2, <1>3, <1>4, FrontIs

(* (a) A full deque reaches back far enough for changes().                  *)
LEMMA FullDequeReachesBack ==
    ASSUME RowsInv, Len(snaps) = Keep PROVE Earlier # {}
<1>. DEFINE n == Len(snaps)
<1>1. n \in Nat /\ n >= 2 /\ snaps \in Seq(Snapshot) /\ n = Keep
  BY Ratios, Periods DEF RowsInv
<1>2. Last(snaps) = snaps[n]
  BY DEF Last
<1>3. 1 \in 1 .. n /\ n \in 1 .. n /\ 1 \in 1 .. n - 1
  BY <1>1
<1>4. snaps[n].at - snaps[1].at >= (n - 1) * Refresh
  BY <1>1, <1>3 DEF RowsInv, FarApart
<1>5. snaps[n].at \in Int /\ snaps[1].at \in Int
  <2>1. snaps[n] \in Snapshot /\ snaps[1] \in Snapshot
    BY <1>1, <1>3
  <2>2. Time \subseteq Int
    BY Periods DEF Time
  <2>. QED
    BY <2>1, <2>2 DEF Snapshot
<1>6. (n - 1) * Refresh \in Int /\ Since <= (n - 1) * Refresh
  BY <1>1, Ratios, Periods
<1>7. snaps[n].at - snaps[1].at >= Since
  BY <1>4, <1>5, <1>6, Ratios
<1>. QED
  BY <1>2, <1>3, <1>7 DEF Earlier

(* (b) What a row's rate starts from: a reading the cache holds, and no     *)
(* snapshot a window old is newer.                                          *)
LEMMA BaselineIsHeld ==
    ASSUME RowsInv, Latest # None, Baseline # None
    PROVE  Baseline \in Held /\ Baseline \in Reading
<1>. DEFINE n == Len(snaps)
            older == Older(Latest, Front(snaps))
<1>1. n \in Nat /\ n >= 1 /\ DOMAIN Front(snaps) = 1 .. n - 1 /\ DOMAIN snaps = 1 .. n
  BY LatestIsLast DEF RowsInv
<1>2. CASE older # {}
  <2>1. older \subseteq 1 .. n - 1 /\ n - 1 \in Nat
    BY <1>1 DEF Older
  <2>2. Max(older) \in older
    BY <1>2, <2>1, GreatestBelow
  <2>3. Max(older) \in 1 .. n - 1 /\ Max(older) \in 1 .. n
    BY <1>1, <2>1, <2>2
  <2>4. Baseline = snaps[Max(older)].obs
    BY <1>2, <2>3, LatestIsLast DEF Baseline, BaselineFor
  <2>5. snaps[Max(older)] \in Snapshot
    BY <2>3 DEF RowsInv
  <2>. QED
    BY <1>1, <2>3, <2>4, <2>5 DEF Held, Snapshot, Obs, Reading
<1>3. CASE older = {}
  <2>1. Baseline = HourlyBefore(Latest, hourly)
    BY <1>3 DEF Baseline, BaselineFor
  <2>2. Baseline = hourly /\ hourly # None
    BY <2>1 DEF HourlyBefore
  <2>. QED
    BY <2>2 DEF Held, RowsInv, Obs, Reading
<1>. QED
  BY <1>2, <1>3

LEMMA BaselineIsNearest ==
    ASSUME RowsInv, Latest # None, InOrder,
           NEW i \in DOMAIN snaps, snaps[i].obs # None, snaps[i].obs.t <= Latest.t - Window
    PROVE  Baseline # None /\ snaps[i].obs.t <= Baseline.t
<1>. DEFINE n == Len(snaps)
            older == Older(Latest, Front(snaps))
<1>1. n \in Nat /\ n >= 1 /\ DOMAIN Front(snaps) = 1 .. n - 1 /\ DOMAIN snaps = 1 .. n
  BY LatestIsLast DEF RowsInv
<1>2. \A j \in 1 .. n : snaps[j] \in Snapshot
  BY <1>1 DEF RowsInv
<1>3. \A j \in 1 .. n : snaps[j].obs # None => snaps[j].obs.t \in Int
  BY <1>2, ReadingIsNumbers DEF Snapshot, Obs, Reading
<1>4. i # n
  BY <1>1, <1>3, LatestIsLast, Ratios
<1>5. i \in 1 .. n - 1
  BY <1>1, <1>4
<1>6. i \in older
  <2>1. Front(snaps)[i] = snaps[i] /\ i \in DOMAIN Front(snaps)
    BY <1>1, <1>5, LatestIsLast
  <2>2. snaps[i].obs.t \in Int /\ Latest.t \in Int
    BY <1>1, <1>3, LatestIsLast, ReadingIsNumbers
  <2>3. Latest.t - snaps[i].obs.t >= Window
    BY <2>2, Ratios
  <2>. QED
    BY <2>1, <2>3 DEF Older
<1>7. older \subseteq 1 .. n - 1 /\ n - 1 \in Nat
  BY <1>1 DEF Older
<1>8. Max(older) \in older /\ i <= Max(older)
  BY <1>6, <1>7, GreatestBelow
<1>. DEFINE m == Max(older)
<1>9. m \in 1 .. n - 1 /\ m \in 1 .. n /\ Front(snaps)[m].obs # None
  BY <1>1, <1>7, <1>8 DEF Older
<1>10. Baseline = snaps[m].obs /\ snaps[m].obs # None
  BY <1>6, <1>9, LatestIsLast DEF Baseline, BaselineFor
<1>11. snaps[i].obs.t <= snaps[m].obs.t
  <2>1. CASE i = m
    BY <2>1, <1>1, <1>3
  <2>2. CASE i < m
    BY <2>2, <1>1, <1>9, <1>10 DEF InOrder
  <2>. QED
    BY <1>5, <1>8, <1>9, <2>1, <2>2
<1>. QED
  BY <1>10, <1>11

(* (c) Minutes are foretold of a gauge that rose.                           *)
LEMMA ForetoldOnlyOfARise ==
    ASSUME RowsInv, Latest # None, NEW levels \in Stations,
           LiveRow(levels).minutes # None, LiveRow(levels).stage # "planned_flood"
    PROVE  \E k \in Held : k.t < Latest.t /\ k.wl < Latest.wl
<1>. DEFINE gap  == levels["planned_flood"] - Latest.wl
            rise == IF Baseline = None \/ Latest.t <= Baseline.t THEN None
                    ELSE [by |-> Latest.wl - Baseline.wl, span |-> Latest.t - Baseline.t]
<1>1. LiveRow(levels).stage = ClassifyStage(Latest.wl, levels)
  BY DEF LiveRow, AssessStation
<1>2. LiveRow(levels).minutes =
        IF "planned_flood" \notin DOMAIN levels THEN None
        ELSE IF gap <= 0 THEN 0
        ELSE IF rise = None \/ rise.by <= 0 THEN None
        ELSE Rounded(gap * rise.span * MinutesPerTick, rise.by)
  BY DEF LiveRow, AssessStation
<1>3. "planned_flood" \in DOMAIN levels /\ levels["planned_flood"] \in Int /\ Latest.wl \in Int /\ Latest.t \in Int
  BY <1>2, LatestIsLast, ReadingIsNumbers, StationAssumption
<1>4. ~(gap <= 0)
  BY <1>1, <1>3, FloodedAtItsLevel
<1>5. rise # None /\ ~(rise.by <= 0)
  BY <1>2, <1>3, <1>4
<1>6. Baseline # None /\ ~(Latest.t <= Baseline.t) /\ rise.by = Latest.wl - Baseline.wl
  BY <1>5
<1>7. Baseline \in Held /\ Baseline.t \in Int /\ Baseline.wl \in Int
  BY <1>6, BaselineIsHeld, ReadingIsNumbers
<1>. QED
  BY <1>3, <1>5, <1>6, <1>7

(* (d) A gauge that changes() names as risen did rise.                      *)
LEMMA StageRanked ==
    ASSUME NEW levels \in Stations, NEW level \in Int
    PROVE  StageRank(ClassifyStage(level, levels)) \in Int
<1>1. CASE Unrated(levels) \/ Met(level, levels) = {}
  BY <1>1, StageOfMet, RankOfStage
<1>2. CASE ~Unrated(levels) /\ Met(level, levels) # {}
  <2>1. Max(Met(level, levels)) \in 1 .. 4
    BY <1>2, GreatestBelow DEF Met
  <2>. QED
    BY <1>2, <2>1, StageOfMet, RankOfStage
<1>. QED
  BY <1>1, <1>2

LEMMA ListedAsRisen ==
    ASSUME NEW levels \in Stations, NEW then \in Reading, NEW new \in Reading
    PROVE  /\ Changed(levels, then, new) = "new_rising" =>
                  new.wl - then.wl >= (new.t - then.t) * MinutesPerTick
           /\ Changed(levels, then, new) \in {"stage_up", "new_rising"} => then.wl < new.wl
<1>. DEFINE from == StageRank(ClassifyStage(then.wl, levels))
            to   == StageRank(ClassifyStage(new.wl, levels))
            span == (new.t - then.t) * MinutesPerTick
            minutes == Max({1, span})
<1>1. then.wl \in Int /\ new.wl \in Int /\ then.t \in Int /\ new.t \in Int
  BY ReadingIsNumbers
<1>2. from \in Int /\ to \in Int /\ (new.wl <= then.wl => to <= from)
  BY <1>1, StageRanked, StageFollowsLevel
<1>3. span \in Int
  BY <1>1, Ratios
<1>4. minutes \in Int /\ minutes >= 1 /\ minutes >= span
  <2>. HIDE DEF span
  <2>1. minutes \in {1, span} /\ minutes >= 1 /\ minutes >= span
    BY <1>3, MaxOfTwo, 1 \in Int
  <2>. QED
    BY <1>3, <2>1
<1>5. Changed(levels, then, new) = "stage_up" => to > from
  BY DEF Changed
<1>6. Changed(levels, then, new) = "new_rising" => (new.wl - then.wl) * 10 >= 10 * minutes
  BY DEF Changed
<1>. HIDE DEF from, to, span, minutes
<1>7. Changed(levels, then, new) = "new_rising" => new.wl - then.wl >= minutes
  BY <1>1, <1>4, <1>6
<1>8. Changed(levels, then, new) \in {"stage_up", "new_rising"} => then.wl < new.wl
  BY <1>1, <1>2, <1>4, <1>5, <1>7
<1>9. Changed(levels, then, new) = "new_rising" => new.wl - then.wl >= span
  BY <1>1, <1>3, <1>4, <1>7
<1>. QED
  BY <1>8, <1>9 DEF span

LEMMA ComparedIsEarlier ==
    ASSUME RowsInv, Latest # None, Compared # None, InOrder
    PROVE  /\ Compared \in Reading /\ Compared.t <= Latest.t
           /\ Compared.t = Latest.t => Compared.wl = Latest.wl
<1>. DEFINE n == Len(snaps)
            m == Max(Earlier)
<1>1. n \in Nat /\ n >= 1 /\ n - 1 \in Nat /\ Latest = snaps[n].obs
  BY LatestIsLast
<1>2. Earlier \subseteq 1 .. n - 1 /\ Earlier # {} /\ Compared = snaps[m].obs
  BY DEF Earlier, Compared
<1>3. m \in 1 .. n - 1
  BY <1>1, <1>2, GreatestBelow
<1>4. m \in DOMAIN snaps /\ n \in DOMAIN snaps /\ m < n
  BY <1>1, <1>3 DEF RowsInv
<1>5. snaps[m] \in Snapshot
  BY <1>4 DEF RowsInv
<1>6. Compared \in Reading
  BY <1>2, <1>5 DEF Snapshot, Obs, Reading
<1>7. Compared.t <= Latest.t
  BY <1>1, <1>2, <1>4 DEF InOrder
<1>8. Compared \in Held /\ Latest \in Held
  BY <1>1, <1>2, <1>4 DEF Held
<1>. QED
  BY <1>6, <1>7, <1>8 DEF InOrder

LEMMA RisenOnlyIfItRose ==
    ASSUME RowsInv, Latest # None, Compared # None, InOrder, NEW levels \in Stations,
           Changed(levels, Compared, Latest) \in {"stage_up", "new_rising"}
    PROVE  Compared.t < Latest.t /\ Compared.wl < Latest.wl
<1>1. Compared \in Reading /\ Latest \in Reading /\ Compared.t <= Latest.t
      /\ (Compared.t = Latest.t => Compared.wl = Latest.wl)
  BY ComparedIsEarlier, LatestIsLast
<1>2. Compared.wl < Latest.wl
  BY <1>1, ListedAsRisen
<1>3. Compared.wl \in Int /\ Latest.wl \in Int /\ Compared.t \in Int /\ Latest.t \in Int
  BY <1>1, ReadingIsNumbers
<1>. QED
  BY <1>1, <1>2, <1>3

(* (e) changes() and the row agree on a gauge that is rising.               *)
LEMMA PerSlot ==
    ASSUME NEW by \in Int, NEW span \in Int, by >= span * MinutesPerTick
    PROVE  by * Step >= 10 * span
<1>1. Step \in Nat /\ MinutesPerTick \in Nat /\ Step * MinutesPerTick = 10
  BY Ratios, Periods
<1>2. by * Step >= (span * MinutesPerTick) * Step
  <2>. DEFINE x == span * MinutesPerTick
  <2>1. x \in Int /\ by >= x
    BY <1>1
  <2>. HIDE DEF x
  <2>2. (by - x) * Step >= 0
    BY <1>1, <2>1
  <2>3. by * Step >= x * Step
    BY <1>1, <2>1, <2>2
  <2>. QED
    BY <2>3 DEF x
<1>3. (span * MinutesPerTick) * Step = span * (Step * MinutesPerTick)
  BY <1>1
<1>4. span * (Step * MinutesPerTick) = 10 * span
  BY <1>1
<1>. QED
  BY <1>2, <1>3, <1>4

LEMMA ListAgreesWithRow ==
    ASSUME RowsInv, Latest # None, Compared # None, Compared = Baseline, InOrder, NEW levels \in Stations,
           Changed(levels, Compared, Latest) = "new_rising"
    PROVE  RiseClass(LiveRow(levels).rise) \in {"fast", "rapid"}
<1>. DEFINE by == Latest.wl - Baseline.wl
            span == Latest.t - Baseline.t
            rise == [by |-> by, span |-> span]
<1>1. Baseline \in Reading /\ Latest \in Reading /\ Baseline.t < Latest.t
  BY RisenOnlyIfItRose, ComparedIsEarlier, LatestIsLast
<1>2. Baseline.t \in Int /\ Latest.t \in Int /\ Baseline.wl \in Int /\ Latest.wl \in Int
  BY <1>1, ReadingIsNumbers
<1>3. by \in Int /\ span \in Int /\ by >= span * MinutesPerTick
  BY <1>1, <1>2, ListedAsRisen
<1>4. Baseline # None /\ ~(Latest.t <= Baseline.t)
  BY <1>1, <1>2
<1>5. LiveRow(levels).rise = rise
  BY <1>4 DEF LiveRow, AssessStation
<1>6. rise # None
  BY <1>3, StationAssumption
<1>7. rise.by = by /\ rise.span = span
  OBVIOUS
<1>8. Steeper(rise, 10)
  BY <1>3, <1>7, PerSlot DEF Steeper
<1>9. ~(rise.by * Step <= -2 * rise.span)
  <2>. HIDE DEF by, span
  <2>1. by * Step >= 10 * span
    BY <1>3, PerSlot
  <2>2. by * Step \in Int /\ span > 0
    BY <1>1, <1>2, <1>3, Periods DEF span
  <2>. QED
    BY <1>3, <1>7, <2>1, <2>2
<1>. HIDE DEF rise
<1>10. CASE Steeper(rise, 30)
  <2>1. RiseClass(rise) = "rapid"
    BY <1>6, <1>8, <1>9, <1>10 DEF RiseClass
  <2>. QED
    BY <1>5, <2>1
<1>11. CASE ~Steeper(rise, 30)
  <2>1. RiseClass(rise) = "fast"
    BY <1>6, <1>8, <1>9, <1>11 DEF RiseClass
  <2>. QED
    BY <1>5, <2>1
<1>. QED
  BY <1>10, <1>11

(* (f) A replay never finds the hour it shows too old.                      *)
LEMMA AHourIsNotStale ==
    ASSUME NEW levels \in Stations, NEW at \in Time
    PROVE  ReplayRow(levels, at).quality # "stale"
<1>1. at \in Int /\ Hour \in Nat \ {0}
  BY Periods DEF Time
<1>2. HourOf(at) \in Int /\ at - HourOf(at) <= Hour - 1
  <2>1. at - (at \div Hour) * Hour = at % Hour /\ at % Hour \in 0 .. Hour - 1 /\ (at \div Hour) \in Int
    BY <1>1
  <2>. QED
    BY <1>1, <2>1 DEF HourOf
<1>3. at - HourOf(at) <= FreshHour
  BY <1>1, <1>2, Ratios
<1>4. CASE StoredAt(HourOf(at)) = None
  BY <1>4 DEF ReplayRow, AssessStation
<1>5. CASE StoredAt(HourOf(at)) # None
  <2>1. StoredAt(HourOf(at)).t = HourOf(at)
    BY <1>5 DEF StoredAt
  <2>. QED
    BY <1>3, <1>5, <2>1 DEF ReplayRow, AssessStation
<1>. QED
  BY <1>4, <1>5

LEMMA RowsFromInv == RowsInv => RowsLookAtTheNearestPast
<1>. SUFFICES ASSUME RowsInv, NEW levels \in Stations
              PROVE  LET row  == LiveRow(levels)
                         list == Changed(levels, Compared, Latest)
                     IN /\ Len(snaps) = Keep => Earlier # {}
                        /\ Latest # None /\ InOrder =>
                              /\ \A k \in {snaps[i].obs : i \in DOMAIN snaps} \ {None} :
                                    k.t <= Latest.t - Window => Baseline # None /\ k.t <= Baseline.t
                              /\ row.minutes # None /\ row.stage # "planned_flood" =>
                                    \E k \in Held : k.t < Latest.t /\ k.wl < Latest.wl
                              /\ Compared # None /\ list \in {"stage_up", "new_rising"} =>
                                    Compared.t < Latest.t /\ Compared.wl < Latest.wl
                              /\ Compared # None /\ Compared = Baseline /\ list = "new_rising" =>
                                    RiseClass(row.rise) \in {"fast", "rapid"}
                        /\ ReplaysAreFresh
  BY DEF RowsLookAtTheNearestPast
<1>1. Len(snaps) = Keep => Earlier # {}
  BY FullDequeReachesBack
<1>2. ReplaysAreFresh
  BY AHourIsNotStale DEF ReplaysAreFresh
<1>3. ASSUME Latest # None, InOrder, NEW k \in {snaps[i].obs : i \in DOMAIN snaps} \ {None},
             k.t <= Latest.t - Window
      PROVE  Baseline # None /\ k.t <= Baseline.t
  <2>1. PICK i \in DOMAIN snaps : k = snaps[i].obs
    BY <1>3
  <2>. QED
    BY <1>3, <2>1, BaselineIsNearest
<1>4. ASSUME Latest # None, LiveRow(levels).minutes # None, LiveRow(levels).stage # "planned_flood"
      PROVE  \E k \in Held : k.t < Latest.t /\ k.wl < Latest.wl
  BY <1>4, ForetoldOnlyOfARise
<1>5. ASSUME Latest # None, InOrder, Compared # None,
             Changed(levels, Compared, Latest) \in {"stage_up", "new_rising"}
      PROVE  Compared.t < Latest.t /\ Compared.wl < Latest.wl
  BY <1>5, RisenOnlyIfItRose
<1>6. ASSUME Latest # None, InOrder, Compared # None, Compared = Baseline,
             Changed(levels, Compared, Latest) = "new_rising"
      PROVE  RiseClass(LiveRow(levels).rise) \in {"fast", "rapid"}
  BY <1>6, ListAgreesWithRow
<1>. QED
  BY <1>1, <1>2, <1>3, <1>4, <1>5, <1>6

(* What a row says of a gauge is about the nearest past of that gauge, and  *)
(* changes() agrees with it: for every window, age and set of gauges.       *)
THEOREM RowsLookAtTheNearestPastHolds == StationSpec => []RowsLookAtTheNearestPast
<1>1. StationSpec => []RowsInv
  BY RowsInvInit, RowsInvNext, PTL DEF StationSpec
<1>. QED
  BY <1>1, RowsFromInv, PTL
=============================================================================
