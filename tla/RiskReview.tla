----------------------------- MODULE RiskReview -----------------------------
(***************************************************************************)
(* What a row of the facility board promises about itself.  A facility and *)
(* its inputs are chosen; facility_risk judges them, as they are or under  *)
(* a synthetic storm.                                                      *)
(***************************************************************************)
EXTENDS FacilityRisk

CONSTANTS Cases,    \* the facilities and inputs that are judged
          Storms,   \* synthetic storms: [station, rain]
          Amounts   \* rain amounts

ASSUME RiskAssumption ==
    /\ NoData \notin Nat /\ NoData \notin Storms
    /\ NoData \notin [RainWindows -> Nat \cup {NoData}]
    /\ NoData \notin {StageNames[k] : k \in 1 .. 6} \cup Warnings \cup {"UNAVAILABLE"}
    /\ NoData \notin {"stale", "suspect", "missing", "fresh"}
    /\ Amounts \subseteq Nat
    /\ Cases \subseteq Facilities \X RiskInputs
    /\ \A s \in Storms : s.station \in Nat /\ s.rain \in RainReadings
    /\ \A c \in Cases : FacilityRow(c[1], c[2]) # NoData
    /\ \A c \in Cases, s \in Storms : FacilityRow(c[1], Simulated(c[1], c[2], s)) # NoData

VARIABLES
    case,    \* the facility and its inputs
    row,     \* its row on the board, or NoData
    storm    \* the storm the row is judged under, or NoData

riskVars == <<case, row, storm>>

RiskInit == case \in Cases /\ row = NoData /\ storm = NoData

Judge ==
    /\ row = NoData
    /\ row' = FacilityRow(case[1], case[2])
    /\ UNCHANGED <<case, storm>>

JudgeInStorm(s) ==
    /\ row = NoData
    /\ storm' = s
    /\ row' = FacilityRow(case[1], Simulated(case[1], case[2], s))
    /\ UNCHANGED case

RiskNext == Judge \/ \E s \in Storms : JudgeInStorm(s)
RiskSpec == RiskInit /\ [][RiskNext]_riskVars

-----------------------------------------------------------------------------
Judged == row # NoData
Taken  == IF storm = NoData THEN case[2] ELSE Simulated(case[1], case[2], storm)

(* The evidence names what the level rests on: the level is the highest of  *)
(* the paths that _factor_evidence marks as used.  It does not hold for a   *)
(* river facility without a gauge: its level is the rain's, but             *)
(* used_for_level compares the route with "pluvial" and it is               *)
(* "pluvial_fallback".                                                      *)
EvidenceExplainsLevel ==
    Judged /\ row.route # "pluvial_fallback" =>
        LET e == row.evidence
        IN row.level = Max({IF e.river.used THEN StageLevel(Taken.stage) ELSE 0,
                            IF e.rain.used THEN e.rain.candidate ELSE 0,
                            IF e.issued.used THEN Floor(row.issued) ELSE 0,
                            IF e.weather.status = "ACTIVE" THEN Floor(row.weather) ELSE 0})

(* assessment_status and factor_evidence, derived from the same inputs in   *)
(* two places, tell the same story.                                         *)
StatusMatchesEvidence ==
    Judged =>
        LET rain == row.evidence.rain.status
            river == row.evidence.river.status
        IN IF row.route = "river"
           THEN /\ row.status = "INSUFFICIENT_DATA" <=>
                       river = "UNAVAILABLE" /\ row.evidence.issued.status # "ACTIVE"
                /\ river \in {"stale", "suspect", "missing"} => row.status = "INPUT_QUALITY_REVIEW"
           ELSE /\ rain = "AVAILABLE" <=> row.status = "ASSESSED_REFERENCE_ONLY"
                /\ rain = "PARTIAL" <=> row.status = "PARTIAL_INPUTS"
                /\ row.status = "WARNING_ACTIVE_RAIN_DATA_MISSING" =>
                       row.evidence.weather.status = "ACTIVE"

(* A row tells its reasons, in its evidence and in its status.              *)
RowTellsItsReasons == EvidenceExplainsLevel /\ StatusMatchesEvidence

(* A facility is shown calm and assessed only if its driver was looked at:  *)
(* a fresh reading below the attention level (or of a gauge with no levels, *)
(* which nothing tells apart), or all three long rain windows below their   *)
(* amounts.                                                                 *)
CalmIsSeen ==
    Judged /\ row.level = 0
           /\ row.status \in {"ASSESSED_SCREENING_ONLY", "ASSESSED_REFERENCE_ONLY"} =>
        IF row.route = "river"
        THEN Taken.stage \in {"unrated", "normal"} /\ Taken.quality \notin {"stale", "suspect", "missing"}
        ELSE LongWindows \subseteq Known(Taken.rain) /\ ~Fell(Taken.rain, "12h", 110)
             /\ ~Fell(Taken.rain, "3h", 60) /\ ~Fell(Taken.rain, "1h", 15)

(* More rain, or a window that was missing, never lowers a facility: the    *)
(* thresholds of five windows are read in an order of their own.            *)
MoreRainNeverLowers ==
    Judged =>
        LET rain == Taken.rain
        IN rain # NoData =>
            \A w \in RainWindows, mm \in Amounts :
                (rain[w] # NoData => rain[w] <= mm) =>
                    PluvialLevel(rain) <= PluvialLevel([rain EXCEPT ![w] = mm])

(* A storm is only added to a river facility ("only ever raised, never      *)
(* lowered"): under one it stands at least as high as without any official  *)
(* input, and no official input reaches the row.                            *)
StormOnlyRaises ==
    Judged /\ storm # NoData =>
        /\ row.issued = NoData /\ row.weather = NoData
        /\ row.route = "river" => row.level >= StageLevel(case[2].stage)

(* More rain and a synthetic storm only raise a facility.                   *)
InputsOnlyRaise == MoreRainNeverLowers /\ StormOnlyRaises
=============================================================================
