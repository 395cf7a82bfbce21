------------------------------ MODULE MCServer ------------------------------
(* The server's boards and records, reviewed one at a time: the closure     *)
(* records of one facility with two requests at a time, the watch board's   *)
(* lists over a few frames, and a question to the Agent on either board.    *)
(* What a review does not look at stands still.                             *)
EXTENDS MCClosureLog, BoardViews, BoardAgent

VARIABLE review

serverVars == <<boardVars, agentVars>>

(* Two gauges with stages, one without levels and one with severe alone,    *)
(* and rain gauges, one of them in a region without a gauge.  The rows of   *)
(* one file hold the second segment of a place, an id twice, an address     *)
(* nobody knows and a place beside two gauges; those of the other an id of  *)
(* the registry and one road at 1, 2 and 3 km.                              *)
MCGauge(region, km, levels) == [region |-> region, km |-> km, levels |-> levels]
MCGauges == <<MCGauge("A", 0, {"advisory"}), MCGauge("B", 8, {"advisory"}), MCGauge("C", 20, {}),
              MCGauge("B", 30, {"severe"})>>
MCRainGauges == <<[region |-> "A", km |-> 3], [region |-> "D", km |-> 12]>>
MCGroups == [AB |-> {"A", "B"}]
MCRow(id, key, km, region, group) ==
    [id |-> id, name |-> key, key |-> key, km |-> km, region |-> region, group |-> group]
MCFiles ==
    {<<MCRow("f1", "park", 3, "B", "riverside"), MCRow("f2", "park", 4, "B", "riverside"),
       MCRow("f3", "road", 40, "unknown", "underpass"), MCRow("f1", "ford", 9, "B", "riverside"),
       MCRow("f4", "ford", 9, "unknown", "riverside")>>,
     <<MCRow("op", "road", 9, "B", "underpass"), MCRow("f5", "road", 9, "A", "underpass"),
       MCRow("f6", "road", 10, "B", "underpass"), MCRow("f7", "road", 12, "B", "underpass"),
       MCRow("f8", "dock", 27, "C", "riverside")>>}
MCOperational == <<[id |-> "op", name |-> "op", km |-> 18, gauge |-> 3, group |-> "underpass"]>>
MCAssessed ==
    LET result(stage, quality, minutes, rising) ==
            [stage |-> stage, quality |-> quality, minutes |-> minutes, rising |-> rising]
    IN {result("none", "missing", 100, FALSE), result("unrated", "missing", 100, FALSE),
        result("unrated", "fresh", 100, TRUE), result("normal", "fresh", 60, TRUE),
        result("attention", "stale", 100, FALSE), result("warning", "fresh", 30, TRUE)}

(* A question for every rule of the watch board, some with a number out of  *)
(* bounds; those of a facility with a past, a reason or a comparison.       *)
MCAsk(words, wrote) == [words |-> words, wrote |-> wrote]
MCWrote(key, value) == [k \in {key} |-> value]
MCNothing == [k \in {} |-> "none"]
MCBoardAsks ==
    [watch |->
        {MCAsk({"review"}, MCWrote("case_id", "osong")), MCAsk({"score", "operational"}, MCWrote("facility", "underpass")),
         MCAsk({"season"}, MCWrote("limit", 5)), MCAsk({"validate", "rank"}, MCWrote("region", "B")),
         MCAsk({"official"}, MCWrote("region", "B")), MCAsk({"rank"}, MCWrote("driver", "pluvial")),
         MCAsk({"sites", "rank"}, [k \in {"limit", "group"} |-> IF k = "limit" THEN 25 ELSE "underpass"]),
         MCAsk({"rain"}, MCWrote("station", "bridge")), MCAsk({"rain"}, MCWrote("limit", 3)),
         MCAsk({"move"}, MCWrote("region", "B")), MCAsk({"change"}, MCWrote("since_min", 5)),
         MCAsk({"report"}, MCWrote("region", "B")), MCAsk({"rank", "gauge"}, MCWrote("limit", 2)),
         MCAsk({"status"}, MCWrote("station", "bridge")), MCAsk({"status"}, MCWrote("facility", "underpass")),
         MCAsk({"overview"}, MCWrote("min_stage", "advisory"))},
     facility |->
        {MCAsk(w, MCNothing) : w \in {{"now", "state"}, {"why"}, {"past"}, {"past", "why"}, {"rule", "compare"}, {"rise", "state"}}}]
MCWatchCalls ==
    {[tool |-> "get_watch_overview", params |-> MCNothing], [tool |-> "get_rain_status", params |-> MCWrote("region", "C")],
     [tool |-> "get_station_status", params |-> MCWrote("station", "bridge")]}

BoardRests == rows = CHOOSE f \in Files : TRUE
AgentRests ==
    /\ scope = "watch" /\ replay /\ ask = (CHOOSE q \in BoardAsks["watch"] : TRUE)
    /\ board = (CHOOSE b \in [count : Counts, quality : Qualities] : TRUE)

ServerInit ==
    /\ review \in {"closures", "lists", "agent"}
    /\ Init /\ BoardInit /\ BoardAgentInit
    /\ review # "lists" => BoardRests
    /\ review # "agent" => AgentRests
ServerNext ==
    /\ UNCHANGED review
    /\ \/ review = "closures" /\ Next /\ UNCHANGED serverVars
       \/ review = "lists" /\ BoardNext /\ UNCHANGED <<vars, agentVars>>
       \/ review = "agent" /\ BoardAgentNext /\ UNCHANGED <<vars, boardVars>>
ServerSpec == ServerInit /\ [][ServerNext]_<<review, vars, serverVars>>
=============================================================================
