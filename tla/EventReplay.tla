---------------------------- MODULE EventReplay ----------------------------
(***************************************************************************)
(* The what-if analyses of a reconstructed event, arithmetic on the times  *)
(* of its record: backend/app/services.py for Osong and                    *)
(* backend/app/timeline_cases.py for the two cases known from the press.   *)
(* Times are minutes after midnight of the day of the event (of its first  *)
(* day).                                                                   *)
(***************************************************************************)
EXTENDS Integers, FiniteSets, FiniteSetsExt

CONSTANTS Rejected,  \* the reply to a request that raises ValueError
          Before     \* state_at_closure ahead of the first entry of the record

At(h, m) == 60 * h + m

(* OSONG_RECONSTRUCTION_EVENTS.                                             *)
Replay ==
    [warning |-> At(4, 10), hydraulic_warning |-> At(6, 40), overtopping |-> At(7, 50),
     levee_failure |-> At(8, 9), underpass_inflow |-> At(8, 27),
     unsafe_driving |-> At(8, 35), full_inundation |-> At(8, 40)]
Milestones == {"levee_failure", "underpass_inflow", "unsafe_driving", "full_inundation"}
Shifted    == Milestones \ {"levee_failure"}
Trigger    == Replay.underpass_inflow

ASSUME BeforeAssumption == Before \notin DOMAIN Replay

-----------------------------------------------------------------------------
(* What-if A: the underpass is closed at another time.                      *)
StateAt(t) ==
    LET past == {s \in DOMAIN Replay : Replay[s] <= t}
    IN IF past = {} THEN Before
       ELSE CHOOSE s \in past : \A q \in past : Replay[q] <= Replay[s]

Class(t) ==
    IF t <= Replay.levee_failure THEN "PREEMPTIVE_BEFORE_LEVEE_FAILURE"
    ELSE IF t <= Replay.underpass_inflow THEN "BEFORE_UNDERPASS_INFLOW"
    ELSE IF t < Replay.unsafe_driving THEN "AFTER_INFLOW_BEFORE_UNSAFE_DRIVING"
    ELSE IF t < Replay.full_inundation THEN "AFTER_UNSAFE_DRIVING"
    ELSE "AFTER_FULL_INUNDATION"

ClosureTiming(times) ==
    {[at |-> t, state |-> StateAt(t), class |-> Class(t),
      blocked |-> t <= Replay.underpass_inflow,
      before |-> [s \in Shifted |-> Replay[s] - t],
      lead |-> Trigger - t] : t \in times}

(* What-if B: the inflow and what follows it come later.                    *)
DelayRows(delays) ==
    {[delay |-> d, times |-> [s \in Shifted |-> Replay[s] + d]] : d \in delays}
InflowDelay(delays) ==
    IF \E d \in delays : d \notin 0 .. 180 THEN Rejected ELSE DelayRows(delays)

(* What-if C: the levee fails earlier, but after what the record has before *)
(* it.                                                                      *)
Preceding == {s \in DOMAIN Replay : Replay[s] < Replay.levee_failure}
MaxAdvance ==
    IF Preceding = {} THEN 180
    ELSE LET gap == Replay.levee_failure - Max({Replay[s] : s \in Preceding})
         IN Max({0, Min({180, gap - 1})})
AdvanceRows(advances) ==
    {[advance |-> v, times |-> [s \in Milestones |-> Replay[s] - v]] : v \in advances}
BreachAdvance(advances) ==
    IF \E v \in advances : v \notin 0 .. MaxAdvance THEN Rejected ELSE AdvanceRows(advances)

(* A request without values takes the defaults of its schema.               *)
OrDefault(values, default) == IF values = {} THEN default ELSE values
DefaultClosures == {At(8, 25), At(8, 30), At(8, 35)}
DefaultMinutes  == {5, 10, 15}
DefaultRadii    == {300, 500, 1000, 2000}

(* compare_scenarios: the same rows next to the registered baseline.        *)
CompareClosures(times) ==
    [baseline |-> Trigger, rows |-> ClosureTiming(OrDefault(times, DefaultClosures))]
CompareDelays(delays) ==
    LET rows == InflowDelay({0} \cup OrDefault(delays, DefaultMinutes))
    IN IF rows = Rejected THEN Rejected
       ELSE [baseline |-> CHOOSE r \in rows : r.delay = 0, rows |-> {r \in rows : r.delay # 0}]

-----------------------------------------------------------------------------
(* The press cases: POHANG within a day, ANDONG from an evening to the next *)
(* noon.                                                                    *)
Pohang ==
    [overnight |-> FALSE, first |-> At(4, 50), last |-> At(7, 40),
     interventions |->
        {[actual |-> At(6, 30),
          milestones |-> [parking_inflow |-> At(6, 37), parking_full |-> At(6, 45)]]}]
Andong ==
    [overnight |-> TRUE, first |-> At(22, 59), last |-> At(32, 0),
     interventions |->
        {[actual |-> At(24, 0), milestones |-> [predicted_warning_level |-> At(24, 30)]],
         [actual |-> At(32, 0), milestones |-> [s \in {} |-> 0]]}]
TimelineCases == {Pohang, Andong}

(* A clock of a request: the evening or the next morning.                   *)
Clock(case, c) == IF case.overnight /\ c < At(12, 0) THEN c + At(24, 0) ELSE c

(* analyze_response_timing: the times asked for and the one that happened,  *)
(* which is read back from its clock.                                       *)
Moments(case, intervention, clocks) ==
    {Clock(case, c) : c \in clocks \cup {intervention.actual % At(24, 0)}}
MomentRows(intervention, moments) ==
    {[at |-> t, actual |-> t = intervention.actual, earlier |-> intervention.actual - t,
      before |-> [s \in DOMAIN intervention.milestones |-> intervention.milestones[s] - t]] :
         t \in moments}
ResponseTiming(case, intervention, clocks) ==
    LET moments == Moments(case, intervention, clocks)
    IN IF \E t \in moments : t \notin case.first - At(12, 0) .. case.last + At(12, 0) THEN Rejected
       ELSE MomentRows(intervention, moments)
=============================================================================
