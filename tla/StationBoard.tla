---------------------------- MODULE StationBoard ----------------------------
(***************************************************************************)
(* What the watch board says of a gauge: assess_station, its baseline and  *)
(* its reference, and changes() of backend/app/national_watch.py, over the *)
(* snapshots of LiveFeed and the hourly values of the same pulls.          *)
(*                                                                         *)
(* A pull is one step here: LiveFeed has its interleavings, and shows that *)
(* a row made of a torn frame has the reference of a whole one.  The       *)
(* source may be late, repeat a reading, serve an older one again or       *)
(* revise it.  A level is in centimetres.                                  *)
(***************************************************************************)
EXTENDS LiveFeed

CONSTANTS
    Window,         \* window_min of _baseline_for
    Since,          \* since_min of changes
    Jump,           \* STEP_SUSPECT_M
    FreshHour,      \* FRESH_MINUTES["1H"]
    MinutesPerTick,
    Stations,       \* levels_m of the gauges: [subset of LEVEL_KEYS -> level]
    Stored          \* hourly series of a replay: [hours -> level]

ASSUME StationAssumption ==
    /\ {Window, Since, Jump, FreshHour, MinutesPerTick} \subseteq Nat \ {0}
    /\ None \notin [by : Int, span : Int]
    /\ DOMAIN Stored \subseteq {h \in Time : h % Hour = 0}
    /\ \A levels \in Stations : DOMAIN levels \subseteq {"attention", "advisory", "warning", "severe", "planned_flood"}
                                  /\ \A s \in DOMAIN levels : levels[s] \in Int
    /\ Step * MinutesPerTick = 10 /\ Hour <= FreshHour     \* 60 min, 90 min
    /\ Since <= (Keep - 1) * Refresh    \* 60 min, 12 * 5 min

VARIABLES
    hourly,        \* _LIVE.hourly of the gauge, or None
    hourlyFetched, \* _LIVE.hourly_fetched, or None
    serving        \* a request looks at the rows

stationVars == <<hourly, hourlyFetched, serving>>

StageOrder == <<"attention", "advisory", "warning", "planned_flood">>

-----------------------------------------------------------------------------
Unrated(levels) == DOMAIN levels \subseteq {"severe"}     \* severe is no stage
ClassifyStage(level, levels) ==
    LET met == {i \in DOMAIN StageOrder : StageOrder[i] \in DOMAIN levels /\ level >= levels[StageOrder[i]]}
    IN IF Unrated(levels) THEN "unrated" ELSE IF met = {} THEN "normal" ELSE StageOrder[Max(met)]
StageRank(s) == IF s = "unrated" THEN 0 ELSE IF s = "normal" THEN 1 ELSE 1 + CHOOSE i \in DOMAIN StageOrder : StageOrder[i] = s

(* A rate is a difference over a span; it is compared per slot.             *)
Steeper(rise, cm) == rise.by * Step >= cm * rise.span
RiseClass(rise) ==
    CASE rise = None -> "unknown"
      [] rise # None /\ Steeper(rise, 30) -> "rapid"
      [] rise # None /\ ~Steeper(rise, 30) /\ Steeper(rise, 10) -> "fast"
      [] rise # None /\ ~Steeper(rise, 10) /\ Steeper(rise, 2) -> "slow"
      [] rise # None /\ rise.by * Step <= -2 * rise.span -> "falling"
      [] OTHER -> "steady"

(* The newest snapshot whose reading is a window older, or the hourly value *)
(* of any earlier time.  As a bug: the oldest such snapshot.                *)
Older(latest, history) == {i \in DOMAIN history : history[i].obs # None /\ latest.t - history[i].obs.t >= Window}
HourlyBefore(latest, hour) == IF hour # None /\ hour.t < latest.t THEN hour ELSE None
OldestFor(latest, history, hour) ==
    LET older == Older(latest, history)
    IN IF older # {} THEN history[Min(older)].obs ELSE HourlyBefore(latest, hour)
BaselineFor(latest, history, hour) ==
    LET older == Older(latest, history)
    IN IF older # {} THEN history[Max(older)].obs ELSE HourlyBefore(latest, hour)

Rounded(n, d) ==     \* int(round(n / d))
    LET q == n \div d
        r == 2 * (n % d)
    IN IF r > d \/ (r = d /\ q % 2 = 1) THEN q + 1 ELSE q

AssessStation(levels, latest, baseline, at, slot, fresh, reference) ==
    IF latest = None THEN [quality |-> "missing", stage |-> IF DOMAIN levels = {} THEN "unrated" ELSE None,
                           rise |-> None, minutes |-> None]
    ELSE LET rise == IF baseline = None \/ latest.t <= baseline.t THEN None
                     ELSE [by |-> latest.wl - baseline.wl, span |-> latest.t - baseline.t]
             suspect == /\ reference # None /\ latest.t - reference.t = slot
                        /\ latest.wl - reference.wl >= Jump \/ reference.wl - latest.wl >= Jump
             gap == levels["planned_flood"] - latest.wl
         IN [quality |-> IF suspect THEN "suspect" ELSE IF at - latest.t <= fresh THEN "fresh" ELSE "stale",
             stage |-> ClassifyStage(latest.wl, levels),
             rise |-> rise,
             minutes |-> IF "planned_flood" \notin DOMAIN levels THEN None
                         ELSE IF gap <= 0 THEN 0
                         ELSE IF rise = None \/ rise.by <= 0 THEN None
                         ELSE Rounded(gap * rise.span * MinutesPerTick, rise.by)]

Latest  == IF snaps = <<>> THEN None ELSE Last(snaps).obs
Baseline == IF Latest = None THEN None ELSE BaselineFor(Latest, Front(snaps), hourly)
LiveRow(levels) ==
    AssessStation(levels, Latest, Baseline, clock, Step, Fresh,
                  IF Latest = None THEN None ELSE PreviousStep(Latest, Front(snaps)))   \* LiveFeed

(* replay_snapshot: the stored value of the hour, and of the hour before.   *)
StoredAt(h)   == IF h \in DOMAIN Stored THEN [t |-> h, wl |-> Stored[h]] ELSE None
HourOf(at)    == (at \div Hour) * Hour
ReplayRow(levels, at) ==
    LET before == StoredAt(HourOf(at) - Hour)
    IN AssessStation(levels, StoredAt(HourOf(at)), before, at, Hour, FreshHour, before)

(* changes: in which list a gauge is, against a snapshot pulled long enough *)
(* ago; a span of no time counts as a minute.                               *)
Changed(levels, then, new) ==
    LET from == ClassifyStage(then.wl, levels)
        to   == ClassifyStage(new.wl, levels)
        minutes == Max({1, (new.t - then.t) * MinutesPerTick})   \* 10 cm in 10 minutes
    IN CASE StageRank(to) > StageRank(from) -> "stage_up"
         [] StageRank(to) < StageRank(from) -> "stage_down"
         [] to = from /\ (new.wl - then.wl) * 10 >= 10 * minutes -> "new_rising"
         [] OTHER -> "none"
Earlier == {i \in 1 .. Len(snaps) - 1 : Last(snaps).at - snaps[i].at >= Since}
Compared == IF Earlier = {} THEN None ELSE snaps[Max(Earlier)].obs

-----------------------------------------------------------------------------
(* refresh_live as far as it goes for one gauge: the snapshot, unless the   *)
(* call raised or came without rows, and then the hourly values when they   *)
(* are due; a call that raises leaves what there was.                       *)
Readings == [t : (Published(Step) \cup {clock - 2 * Step}) \cap Time, wl : Levels] \cup {None}
Values   == [t : Published(Hour), wl : Levels] \cup {None}

PullDue == hasKey /\ ~serving /\ ~Within(LastAt, clock, Refresh)
Snapped(obs) == snaps' = Push(snaps, [at |-> clock, obs |-> obs])

PullSnapshot ==
    /\ PullDue
    /\ \E obs \in Readings : Snapped(obs)
    /\ UNCHANGED stationVars
PullWithHour ==
    /\ PullDue /\ HourDue(hourlyFetched, clock)
    /\ (\E obs \in Readings : Snapped(obs)) \/ UNCHANGED snaps
    /\ hourly' \in Values /\ hourlyFetched' = clock
    /\ UNCHANGED serving

(* overview, station_detail, changes.                                       *)
Serve == serving' = ~serving /\ UNCHANGED <<vars, hourly, hourlyFetched>>

StationInit == Init /\ hasKey /\ hourly = None /\ hourlyFetched = None /\ serving = FALSE
StationNext ==
    \/ Serve
    \/ ~serving /\ Tick /\ UNCHANGED stationVars
    \/ /\ PullSnapshot \/ PullWithHour
       /\ UNCHANGED <<clock, hasKey, calls, hist, rainAt, rainHourlyAt, disk, frame, unsaved>>
    \/ Restart /\ hourly' = None /\ hourlyFetched' = None /\ serving' = FALSE
StationSpec == StationInit /\ [][StationNext]_<<vars, stationVars>>

-----------------------------------------------------------------------------
(* What the cache holds of the gauge, and whether it is in order: no older  *)
(* reading after a newer one, and one level at a time.                      *)
Held == ({snaps[i].obs : i \in DOMAIN snaps} \cup {hourly}) \ {None}
InOrder ==
    /\ \A i, j \in DOMAIN snaps : i < j /\ None \notin {snaps[i].obs, snaps[j].obs} => snaps[i].obs.t <= snaps[j].obs.t
    /\ \A a, b \in Held : a.t = b.t => a.wl = b.wl

ReplaysAreFresh == \A levels \in Stations, at \in Time : ReplayRow(levels, at).quality # "stale"

(* A row looks at the past of its own gauge, and at the nearest of it.  Its *)
(* rate is over the shortest span of a window or more that the cache holds; *)
(* minutes to the planned flood are foretold only of a gauge that rose; and *)
(* changes() has an hour to compare with once the deque is full, names a    *)
(* gauge as risen only if it rose, and agrees with the rate of the row when *)
(* both compare with the same reading.  A source that serves an older       *)
(* reading again, or another level for the same time, takes all but the     *)
(* deque's hour away: positions in it are then no order of time.  A replay  *)
(* never finds the hour it shows too old.                                   *)
RowsLookAtTheNearestPast ==
    serving => \A levels \in Stations :
        LET row  == LiveRow(levels)
            list == Changed(levels, Compared, Latest)
        IN /\ Len(snaps) = Keep => Earlier # {}
           /\ Latest # None /\ InOrder =>
                 /\ \A k \in {snaps[i].obs : i \in DOMAIN snaps} \ {None} :
                       k.t <= Latest.t - Window => Baseline # None /\ k.t <= Baseline.t
                 /\ row.minutes # None /\ row.stage # "planned_flood" =>
                       \E k \in Held : k.t < Latest.t /\ k.wl < Latest.wl
                 /\ Compared # None /\ list \in {"stage_up", "new_rising"} =>
                       Compared.t < Latest.t /\ Compared.wl < Latest.wl
                 /\ Compared # None /\ Compared = Baseline /\ list = "new_rising" =>
                       RiseClass(row.rise) \in {"fast", "rapid"}
           /\ ReplaysAreFresh
=============================================================================
