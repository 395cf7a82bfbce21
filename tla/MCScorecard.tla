---------------------------- MODULE MCScorecard ----------------------------
(* Four reviews that share a run and nothing else: of the control rule and  *)
(* the scorecard over every series of slots 0 .. MaxTime with three levels, *)
(* gaps included, and every quarantine of at most MaxQuarantine slots; of   *)
(* the rows of the facility board; of the rain totals they rest on; and of  *)
(* the plans and the what-ifs of a past event.                              *)
EXTENDS Scorecard, RiskReview, RainTotals, IntentPlan, SequencesExt

CONSTANTS MaxTime, MaxQuarantine, MaxRecords,
          a, b,         \* rain gauges
          SlotsUntil,   \* bound on the time of the review of two gauges
          MaxWords      \* bound on the kinds of words of a question

VARIABLE review

Times == 0 .. MaxTime
MCLevel == <<0, 1, 1, 2>>

(* The series with a reading at each time of ts.                            *)
Readings(ts) ==
    LET order == SetToSortSeq(ts, <)
    IN {[i \in DOMAIN order |-> [t |-> order[i], wl |-> wl[order[i]]]] : wl \in [ts -> 0 .. 2]}
Histories == UNION {Readings(ts) : ts \in SUBSET Times}

Kept(h, first, n) ==
    SelectSeq(h, LAMBDA r : r.t < first \/ r.t >= first + n)
MCInputs == {[stored |-> h, series |-> Kept(h, first, n)] :
                h \in Histories, first \in Times, n \in 0 .. MaxQuarantine}

(* The registered rule, a rate over no time, a rate window wider than the   *)
(* rule's window.                                                           *)
MCRules == {[floor |-> 3, lead |-> 2, rate |-> 1],
            [floor |-> 2, lead |-> 1, rate |-> 0],
            [floor |-> 3, lead |-> 3, rate |-> 4]}

MCRecordLists ==
    {l \in UNION {[1 .. n -> [kind : {"CLOSED", "NOT_CLOSED"}, at : Times]] : n \in 0 .. MaxRecords} :
        \A i, j \in DOMAIN l : i < j => l[i].at <= l[j].at}

(* "A decision not to close with no recommendation around it agrees with    *)
(* the rule" (season_scorecard.py): a record is counted as quiet only if no *)
(* episode is near it.                                                      *)
QuietIsUnseen ==
    card # None =>
        \A r \in DOMAIN card.other :
            card.other[r] = "quiet" => \A e \in DOMAIN episodes : r \notin Near(records, e)

-----------------------------------------------------------------------------
(* Every kind of facility with every gauge reading and warning and little   *)
(* rain data; one pluvial underpass with every amount next to a threshold.  *)
Reading(s, q) == [stage |-> s, quality |-> q]
GaugeReadings ==
    {Reading(NoData, NoData), Reading(NoData, "missing"), Reading("unrated", "fresh"),
     Reading("normal", "fresh"), Reading("normal", "suspect"), Reading("attention", "stale"),
     Reading("warning", "fresh"), Reading("planned_flood", "suspect")}
Rain(ten, quarter, one, three, twelve) ==
    [w \in RainWindows |-> CASE w = "10m" -> ten [] w = "15m" -> quarter [] w = "1h" -> one
                             [] w = "3h" -> three [] OTHER -> twelve]
RainNearThresholds ==
    {Rain(ten, quarter, one, three, twelve) :
        ten \in {NoData, 0, 5}, quarter \in {NoData, 3, 4}, one \in {NoData, 0, 15},
        three \in {NoData, 59, 60, 90}, twelve \in {NoData, 109, 110, 180}}
LittleRain == {NoData, Rain(NoData, NoData, NoData, NoData, NoData), Rain(0, NoData, 0, 0, NoData), Rain(0, 0, 15, 60, 0)}
Input(g, r, i, w) == [stage |-> g.stage, quality |-> g.quality, rain |-> r, issued |-> i, weather |-> w]
MCCases ==
    {<<f, Input(g, r, i, w)>> :
        f \in {x \in Facilities : x.tier # "rain_only" /\ (x.tier = "operational" => ~x.evidence)},
        g \in GaugeReadings, r \in LittleRain, i \in Warnings \cup {NoData}, w \in Warnings \cup {NoData}}
    \cup
    {<<f, Input(Reading(NoData, NoData), r, NoData, NoData)>> :
        f \in {x \in Facilities : x.tier = "rain_only" /\ Driver(x) = "pluvial"}, r \in RainNearThresholds}
MCStorms == {[station |-> mm, rain |-> r] : mm \in {0, 35, 110, 150}, r \in {NoData, Rain(2, 3, 10, 24, 45)}}
MCAmounts == {0, 3, 4, 5, 15, 59, 60, 90, 109, 110, 180}

-----------------------------------------------------------------------------
(* The totals: over the 10-minute slots of two gauges, and over the slots   *)
(* and the hours of one gauge with restarts.  Time passes and the server    *)
(* restarts between pulls and requests.                                     *)
MCGauges == {a, b}
Symmetry == Permutations(MCGauges)

Quiet == pull = Nothing /\ reader = Nothing
Calm  == tick' # tick \/ (hourlyAt # Nothing /\ hourlyAt' = Nothing) => Quiet
Pulled == IF pull = Nothing THEN {} ELSE DOMAIN pull.rows
SlotsOfTwo == tick <= SlotsUntil /\ (pull # Nothing => pull.at = "slots")
HoursOfOne ==
    /\ Cardinality(Reporting(slots) \cup Reporting(saved) \cup Pulled) <= 1
    /\ reader # Nothing => reader.at # "frame"
    /\ pull # Nothing /\ pull.at = "slots" => \A g \in Pulled : pull.rows[g] = tick

-----------------------------------------------------------------------------
(* Questions of at most MaxWords kinds of words with at most two values,    *)
(* next to the cap of the levee's advance and out of range; answers of the  *)
(* model that are in the question, beside it and out of range; closures at  *)
(* each entry of the record and a minute to either side of it.              *)
Says(as, value) == [as |-> as, value |-> value]
MCSaid == {Says("clock", At(8, 25)), Says("spoken", At(8, 20)), Says("minutes", 18),
           Says("minutes", 19), Says("mins", 90), Says("radius", 500)}
MCQuestions ==
    [words : UNION {kSubset(n, Words) : n \in 0 .. MaxWords},
     said : UNION {kSubset(n, MCSaid) : n \in 0 .. 2}]
MCAnswers ==
    [workflow : {"unsupported"}, values : {{}}] \cup
    [workflow : {"closure_timing"}, values : {{}, {At(8, 25)}, {At(8, 30)}, {At(25, 0)}}] \cup
    [workflow : {"inflow_delay"}, values : {{}, {18}, {20}, {200}}] \cup
    [workflow : {"exposure_inventory"}, values : {{}, {500}, {90}, {30}}]
MCClosures ==
    {{}} \cup {{0, t} : t \in UNION {Replay[s] - 1 .. Replay[s] + 1 : s \in DOMAIN Replay}}
MCDelays == {{}, {0}, {0, 15}, {1, 180}, {181}}
MCClocks == {{}} \cup {{At(h, m)} : h \in 0 .. 23, m \in {0, 30, 59}}

-----------------------------------------------------------------------------
NoScore ==
    /\ rule = [floor |-> 3, lead |-> 2, rate |-> 1] /\ records = <<>> /\ card = None
    /\ stored = <<>> /\ series = <<>> /\ flags = <<>> /\ episodes = <<>>
    /\ pc = "done" /\ lo = 1 /\ cand = 0 /\ taken = 0
NoRow == case = NoData /\ row = NoData /\ storm = NoData

ReviewInit ==
    /\ RainInit /\ PlanInit
    /\ \/ review = "scorecard" /\ ScoreInit /\ NoRow
       \/ review = "rows" /\ RiskInit /\ NoScore
       \/ review \in {"slots", "hours", "plans"} /\ NoScore /\ NoRow
ReviewNext ==
    /\ UNCHANGED review
    /\ \/ review = "scorecard" /\ ScoreNext /\ UNCHANGED <<riskVars, rainVars, planVars>>
       \/ review = "rows" /\ RiskNext /\ UNCHANGED <<vars, records, card, rainVars, planVars>>
       \/ /\ RainNext /\ Calm /\ UNCHANGED <<vars, records, card, riskVars, planVars>>
          /\ \/ review = "slots" /\ SlotsOfTwo'
             \/ review = "hours" /\ HoursOfOne'
       \/ review = "plans" /\ PlanNext /\ UNCHANGED <<vars, records, card, riskVars, rainVars>>
ReviewSpec == ReviewInit /\ [][ReviewNext]_<<review, vars, records, card, riskVars, rainVars, planVars>>
=============================================================================
