---------------------------- MODULE FacilityRisk ----------------------------
(***************************************************************************)
(* The judgement of one facility by backend/app/facility_risk.py: the      *)
(* driver that floods it, the level that driver's observation gives, the   *)
(* official warnings that put a floor under the level, and what the row    *)
(* says of its own inputs: assessment_status and factor_evidence, which    *)
(* the code derives twice.  Rainfall is in millimetres.                    *)
(***************************************************************************)
EXTENDS Integers, FiniteSets, FiniteSetsExt

CONSTANT NoData

StageNames  == <<"unrated", "normal", "attention", "advisory", "warning", "planned_flood">>
Warnings    == {"advisory", "warning"}
RainWindows == {"10m", "15m", "1h", "3h", "12h"}
LongWindows == {"1h", "3h", "12h"}

Facilities ==
    [tier : {"operational", "watch", "rain_only"}, group : {"underpass", "riverside"},
     evidence : BOOLEAN,     \* river_type_underpasses has a row for it
     duplicate : BOOLEAN,    \* its research row repeats an operational facility
     gauge : BOOLEAN]        \* station_code is set

(* What one judgement takes in: the stage and quality of the facility's     *)
(* gauge, the rain at the nearest rain gauge that reports, the forecast     *)
(* issued for the gauge, the weather warning that matches the municipality. *)
RainReadings == [RainWindows -> Nat \cup {NoData}] \cup {NoData}
RiskInputs ==
    [stage : {StageNames[k] : k \in 1 .. 6} \cup {NoData},
     quality : {"fresh", "stale", "suspect", "missing", NoData},
     rain : RainReadings,
     issued : Warnings \cup {NoData}, weather : Warnings \cup {NoData}]

(* RIVER_LEVEL and OFFICIAL_LEVEL.                                          *)
StageLevel(s) == CASE s = "attention" -> 1 [] s = "advisory" -> 2 [] s = "warning" -> 3
                   [] s = "planned_flood" -> 4 [] OTHER -> 0
Floor(w) == CASE w = "warning" -> 3 [] w = "advisory" -> 2 [] OTHER -> 0

(* driver_of, and active_route: without a gauge the rain judges it.         *)
Driver(f) ==
    IF f.tier = "operational" \/ f.group = "riverside" \/ f.evidence \/ f.duplicate
    THEN "river" ELSE "pluvial"
Route(f) == IF Driver(f) = "pluvial" THEN "pluvial"
            ELSE IF f.gauge THEN "river" ELSE "pluvial_fallback"
ByRain(f) == Route(f) # "river"

(* _pluvial_level.  As a bug: the hour is read first.                       *)
Known(rain) == IF rain = NoData THEN {} ELSE {w \in RainWindows : rain[w] # NoData}
Fell(rain, w, mm) == w \in Known(rain) /\ rain[w] >= mm
Strong(rain) == Fell(rain, "1h", 15) \/ Fell(rain, "10m", 5) \/ Fell(rain, "15m", 4)
PluvialLevelHourFirst(rain) ==
    CASE Strong(rain) -> 1
      [] ~Strong(rain) /\ (Fell(rain, "12h", 180) \/ Fell(rain, "3h", 90)) -> 3
      [] OTHER -> 0
PluvialLevel(rain) ==
    IF Fell(rain, "12h", 180) \/ Fell(rain, "3h", 90) THEN 3
    ELSE IF Fell(rain, "12h", 110) \/ Fell(rain, "3h", 60) THEN 2
    ELSE IF Strong(rain) THEN 1 ELSE 0

-----------------------------------------------------------------------------
(* The official inputs that reach the row.                                  *)
Issued(f, in)  == IF Driver(f) = "river" /\ f.gauge THEN in.issued ELSE NoData
Weather(f, in) == IF ByRain(f) \/ f.group = "riverside" THEN in.weather ELSE NoData

(* The level.  As a bug: the weather warning sets it.                       *)
ObservedLevel(f, in) == IF ByRain(f) THEN PluvialLevel(in.rain) ELSE StageLevel(in.stage)
LevelSetByWarning(f, in) ==
    IF Weather(f, in) # NoData THEN Floor(Weather(f, in))
    ELSE Max({ObservedLevel(f, in), Floor(Issued(f, in))})
RiskLevel(f, in) == Max({ObservedLevel(f, in), Floor(Issued(f, in)), Floor(Weather(f, in))})

(* assessment_status.  As a bug: a suspect reading needs no review.         *)
StatusByRain(f, in) ==
    IF Known(in.rain) = {}
    THEN IF Weather(f, in) # NoData THEN "WARNING_ACTIVE_RAIN_DATA_MISSING" ELSE "INSUFFICIENT_DATA"
    ELSE IF LongWindows \subseteq Known(in.rain) THEN "ASSESSED_REFERENCE_ONLY" ELSE "PARTIAL_INPUTS"
StatusTrustingSuspects(f, in) ==
    IF in.stage = NoData /\ Issued(f, in) = NoData THEN "INSUFFICIENT_DATA"
    ELSE IF in.quality \in {"stale", "missing"} THEN "INPUT_QUALITY_REVIEW"
    ELSE "ASSESSED_SCREENING_ONLY"
StatusByStage(f, in) ==
    IF in.stage = NoData /\ Issued(f, in) = NoData THEN "INSUFFICIENT_DATA"
    ELSE IF in.quality \in {"stale", "suspect", "missing"} THEN "INPUT_QUALITY_REVIEW"
    ELSE "ASSESSED_SCREENING_ONLY"
Status(f, in) == IF ByRain(f) THEN StatusByRain(f, in) ELSE StatusByStage(f, in)

(* _factor_evidence, called with active_route as the driver.                *)
Evidence(f, in) ==
    [river |->
        [status |-> IF ~f.gauge THEN "NOT_LINKED" ELSE IF in.stage = NoData THEN "UNAVAILABLE" ELSE in.quality,
         used |-> Route(f) = "river"],
     rain |->
        [status |-> IF Known(in.rain) = {} THEN "UNAVAILABLE"
                    ELSE IF LongWindows \subseteq Known(in.rain) THEN "AVAILABLE" ELSE "PARTIAL",
         candidate |-> PluvialLevel(in.rain),
         used |-> Route(f) = "pluvial"],
     issued |->
        [status |-> IF Issued(f, in) # NoData THEN "ACTIVE"
                    ELSE IF f.gauge THEN "NOT_ACTIVE_OR_HISTORY_UNAVAILABLE" ELSE "NOT_APPLICABLE",
         used |-> Issued(f, in) # NoData /\ Route(f) = "river"],
     weather |->
        [status |-> IF Weather(f, in) # NoData THEN "ACTIVE" ELSE "NONE_OR_NOT_MATCHED"]]

(* facility_risk, one row.                                                  *)
FacilityRow(f, in) ==
    [route |-> Route(f), level |-> RiskLevel(f, in), status |-> Status(f, in),
     evidence |-> Evidence(f, in), issued |-> Issued(f, in), weather |-> Weather(f, in)]

-----------------------------------------------------------------------------
(* sim: a synthetic storm, [station, rain]: its three-hour rain at the river *)
(* gauge, which lifts the stage (rain_simulation.lifted_stage), and the     *)
(* rain at the facility's rain gauge.  No official input is used.           *)
Rank(s) == IF s = NoData THEN 0 ELSE CHOOSE k \in DOMAIN StageNames : StageNames[k] = s
StormStage(mm) == IF mm >= 150 THEN "planned_flood" ELSE IF mm >= 110 THEN "warning"
                  ELSE IF mm >= 70 THEN "advisory" ELSE IF mm >= 35 THEN "attention" ELSE NoData
LiftedStage(s, mm) == IF Rank(s) >= Rank(StormStage(mm)) THEN s ELSE StormStage(mm)

Simulated(f, in, storm) ==
    [stage |-> IF f.gauge THEN LiftedStage(in.stage, storm.station) ELSE in.stage,
     quality |-> in.quality, rain |-> storm.rain, issued |-> NoData, weather |-> NoData]
=============================================================================
