----------------------------- MODULE WatchBoard -----------------------------
(***************************************************************************)
(* The live facility board: callers of facility_risk (requests and the     *)
(* watch_log recorder) read the official feeds and judge every facility;   *)
(* the recorder appends what it saw and sleeps.  The process may end at    *)
(* any moment and start again with empty caches.                           *)
(***************************************************************************)
EXTENDS OfficialFeeds, FacilityRisk, WatchLog

CONSTANTS
    Recorder,     \* the caller that is the recorder thread
    FirstSleep,   \* the sleep before the first snapshot (1 min)
    Readings,     \* what the gauges show: [stage, quality, rain]
    MaxWork,      \* longest assessment
    MaxRestarts,  \* bound on restarts
    MaxRequests   \* bound on the assessments of the other callers

ASSUME BoardAssumption ==
    /\ Recorder \in Callers
    /\ Recorded \subseteq Facilities
    /\ {FirstSleep, MaxWork, MaxRestarts, MaxRequests} \subseteq Nat /\ MaxCall <= MaxWork
    /\ 2 * (Interval + MaxWork) <= Gap
    /\ FirstSleep <= Interval          \* 1 and 10 minutes
    /\ NoData \notin Levels

VARIABLES
    at,           \* per caller: the time its assessment carries
    snap,         \* the line the recorder is about to write, or None
    wakeAt,       \* when the recorder's sleep ends, or None
    restarts, requests,
    skipped,      \* history: snapshots that failed or were cut off since the last line
    missed        \* history: per line, what was skipped before it

recorder == <<snap, wakeAt, restarts, requests, skipped, missed>>
boardVars == <<feedVars, logVars, at, recorder>>

(* What was skipped is counted up to two.                                   *)
More == IF skipped < 2 THEN skipped + 1 ELSE 2

BoardInit ==
    /\ FeedsInit /\ LogInit
    /\ at = [c \in Callers |-> 0] /\ snap = None
    /\ wakeAt \in {FirstSleep, None}
    /\ restarts = 0 /\ requests = 0 /\ skipped = 0 /\ missed = <<>>

(* FLOODOPS_WATCH_LOG may turn the recorder off.                            *)
On == wakeAt # None \/ pc[Recorder] # "idle" \/ snap # None

(* facility_risk: facility_status takes the time of the assessment, then    *)
(* the feeds are read.  The recorder calls it when it wakes.                *)
Due == wakeAt # None /\ wakeAt <= clock
Assess(c) ==
    /\ c = Recorder => Due /\ "HRFCO" \in keys
    /\ AskForecast(c)
    /\ at' = [at EXCEPT ![c] = IF "HRFCO" \in keys THEN clock ELSE 0]
    /\ wakeAt' = IF c = Recorder THEN None ELSE wakeAt
    /\ requests' = IF c = Recorder THEN requests ELSE requests + 1
    /\ c # Recorder => requests < MaxRequests
    /\ UNCHANGED <<logVars, snap, restarts, skipped, missed>>

(* Without the HRFCO key the assessment is a replay, which is not recorded. *)
RecordNothing ==
    /\ Due /\ "HRFCO" \notin keys
    /\ wakeAt' = clock + Interval
    /\ UNCHANGED <<feedVars, logVars, at, snap, restarts, requests, skipped, missed>>

AskFeeds(c) ==
    /\ pc[c] # "idle" /\ CallStep(c)
    /\ UNCHANGED <<logVars, at, recorder>>

(* The rows, of every facility under the same gauge, rain and warnings.     *)
InputsOf(c, r) ==
    [stage |-> r.stage, quality |-> r.quality, rain |-> r.rain,
     issued |-> IF official[c] = None THEN NoData ELSE official[c],
     weather |-> IF weather[c] = None THEN NoData ELSE weather[c].level]
LineOf(c, r) ==
    LET row == [f \in Recorded |-> FacilityRow(f, InputsOf(c, r))]
    IN [at |-> at[c], level |-> [f \in Recorded |-> row[f].level],
        official |-> [f \in Recorded |-> row[f].issued # NoData /\ row[f].level >= 1]]

Judge(c) ==
    /\ Judged(c)
    /\ at' = [at EXCEPT ![c] = 0]
    /\ IF c = Recorder THEN \E r \in Readings : snap' = LineOf(c, r) ELSE snap' = snap
    /\ UNCHANGED <<logVars, wakeAt, restarts, requests, skipped, missed>>

(* The line is written and the recorder sleeps.                             *)
Write ==
    /\ snap # None
    /\ AppendLine(snap)
    /\ missed' = IF lines' = lines THEN missed ELSE Append(missed, skipped)
    /\ snap' = None /\ skipped' = 0
    /\ UNCHANGED <<feedVars, at, restarts, requests>>
Record == Write /\ wakeAt' = clock + Interval

(* An exception of the assessment or of the write: no line.  As a bug: it   *)
(* ends the loop.                                                           *)
Fail ==
    /\ \/ Judged(Recorder) /\ at' = [at EXCEPT ![Recorder] = 0]
       \/ snap # None /\ UNCHANGED <<feedVars, at>>
    /\ snap' = None /\ skipped' = More
    /\ UNCHANGED <<logVars, restarts, requests, missed>>
FailForGood == Fail /\ UNCHANGED wakeAt
SnapshotFails == Fail /\ wakeAt' = clock + Interval

(* The process ends and starts again; a line that was being written may be  *)
(* there, in part, or not at all.                                           *)
Restart ==
    /\ restarts < MaxRestarts
    /\ restarts' = restarts + 1
    /\ \/ UNCHANGED <<logVars, missed>>
       \/ snap # None /\ AppendLine(snap) /\ missed' = Append(missed, skipped)
       \/ snap # None /\ TearLine /\ missed' = Append(missed, skipped)
    /\ ff' = [at |-> None, rows |-> <<>>]
    /\ kw' = [at |-> None, ok |-> FALSE, active |-> None]
    /\ since' = [forecast |-> [since.forecast EXCEPT !.listed = None, !.wiped = FALSE],
                 alertRead |-> FALSE]
    /\ lock' = [f \in Feeds |-> None]
    /\ pc' = [c \in Callers |-> "idle"]
    /\ now' = [c \in Callers |-> 0] /\ at' = [c \in Callers |-> 0]
    /\ official' = [c \in Callers |-> None] /\ weather' = [c \in Callers |-> None]
    /\ snap' = None /\ skipped' = More
    /\ wakeAt' = IF On THEN clock + FirstSleep ELSE None
    /\ UNCHANGED <<clock, sources, requests>>

(* Time passes.  An assessment is over within MaxWork, and the recorder     *)
(* wakes when its sleep is over.                                            *)
BoardTick ==
    /\ ~Due
    /\ \A c \in Callers : pc[c] # "idle" /\ "HRFCO" \in keys => clock < at[c] + MaxWork
    /\ snap = None
    /\ Tick
    /\ UNCHANGED <<logVars, at, recorder>>

BoardNext ==
    \/ \E c \in Callers : Assess(c) \/ AskFeeds(c) \/ Judge(c)
    \/ RecordNothing \/ Record \/ SnapshotFails \/ Restart \/ BoardTick
    \/ SourceStep /\ UNCHANGED <<logVars, at, recorder>>

(* A pull ends by an answer, an error or its timeout, and a lock is passed  *)
(* on.                                                                      *)
BoardFairness ==
    /\ \A c \in Callers : WF_boardVars(AskFeeds(c)) /\ WF_boardVars(Judge(c))
    /\ WF_boardVars(Record)

BoardSpec == BoardInit /\ [][BoardNext]_boardVars /\ BoardFairness

-----------------------------------------------------------------------------
(* Types; the holder of a feed's lock is the caller that pulls it.          *)
BoardTypeOK ==
    /\ clock \in Time /\ keys \subseteq {"HRFCO", "KMA"}
    /\ commands \in Seq([at : Time, level : Levels \cup {None}])
    /\ alerts \in Seq([at : Time, from : Nat, level : Levels \cup {None}])
    /\ ff.at \in Time \cup {None} /\ ff.rows \in Seq([at : Time, level : Levels \cup {None}])
    /\ kw.at \in Time \cup {None} /\ kw.ok \in BOOLEAN
    /\ lock \in [Feeds -> Callers \cup {None}]
    /\ pc \in [Callers -> Places] /\ now \in [Callers -> Time] /\ at \in [Callers -> Time]
    /\ official \in [Callers -> Levels \cup {None}]
    /\ \A f \in Feeds : lock[f] = None \/ pc[lock[f]] = PullOf[f]
    /\ lines \in Seq(Snapshot \cup {Torn}) /\ openEnd \in BOOLEAN
    /\ snap \in Snapshot \cup {None} /\ wakeAt \in Nat \cup {None}
    /\ restarts \in 0 .. MaxRestarts /\ requests \in 0 .. MaxRequests
    /\ skipped \in 0 .. 2 /\ missed \in Seq(0 .. 2)

(* The recorder always comes back to its sleep.                             *)
RecorderComesBack == pc[Recorder] # "idle" ~> wakeAt # None

Alerted(i, f) == i \in DOMAIN lines /\ lines[i].level[f] >= 2

(* "A missing snapshot or two does not split an episode" (watch_log.py).    *)
(* One does not, a restart of the server included.  Two do: the sleep       *)
(* starts when the snapshot is done, and three of them exceed Gap.          *)
OneMissedDoesNotSplit ==
    Readable =>
        \A f \in Recorded : \A i \in DOMAIN lines :
            Alerted(i, f) /\ Alerted(i + 1, f) /\ missed[i + 1] <= 1 =>
                \E e \in ToSet(SeasonRow(f).episodes) :
                    e.start <= lines[i].at /\ lines[i + 1].at <= e.end

(* minutes_by_level is time that has passed: a snapshot counts Interval,    *)
(* and no two are closer, except over a restart.                            *)
MinutesAreTime ==
    Readable /\ lines # <<>> =>
        \A f \in Recorded :
            SeasonRow(f).minutes <= Last(lines).at - lines[1].at + Interval * (1 + restarts)

(* The forecast a facility stands under for as long as an assessment can    *)
(* take, or None if it changes.                                             *)
HeldThrough(from, to) ==
    IF \A t \in from .. to : Active(commands, t) = Active(commands, from)
    THEN Active(commands, from) ELSE None

(* An episode "alone" is taken for a candidate false alarm.  It is one      *)
(* without any forecast the source had issued in time: a forecast older     *)
(* than one refresh that held through a snapshot of the episode was missed  *)
(* only because a pull failed or answered with an error body, or because it *)
(* had left the 24-hour list.                                               *)
AloneMeansUnannounced ==
    Readable =>
        \A f \in {x \in Recorded : Route(x) = "river"} :
            \A e \in ToSet(SeasonRow(f).episodes) : ~e.official =>
                \A i \in DOMAIN lines :
                    LET t == lines[i].at
                        issued == Last(Until(commands, t)).at
                    IN /\ e.start <= t /\ t <= e.end /\ lines[i].level[f] >= 2
                       /\ HeldThrough(t, t + MaxWork) # None
                       /\ commands # <<>> /\ issued = Last(commands).at
                       /\ issued + Refresh <= t /\ t + MaxWork < issued + Listed
                       => since.forecast.failed

(* What the season board says of a facility is what the recorder saw: its   *)
(* episodes, its minutes, and which of its alarms nobody had announced.     *)
SeasonTellsTheWatch == OneMissedDoesNotSplit /\ MinutesAreTime /\ AloneMeansUnannounced
=============================================================================
