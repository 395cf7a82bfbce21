----------------------------- MODULE BoardAgent -----------------------------
(***************************************************************************)
(* The Agent on the two operator's boards: which registered tools the      *)
(* words of a question call for (hints of backend/app/agent_watch.py and   *)
(* agent_facility.py), which parameters are let through (validate), what   *)
(* a tool returns of a board that goes on moving (run_tool), and what is   *)
(* made of the loop's outcome (_reply of agent_runner.py).  The loop       *)
(* itself is in AgentLoop; here it may run tools and end as it likes.      *)
(*                                                                         *)
(* A question is the kinds of words in it, and what it writes for each     *)
(* parameter.  Of a result the rules look at the stage count, the quality  *)
(* of the observation, and whether there are minutes to the planned flood  *)
(* level and linked facilities in it.                                      *)
(***************************************************************************)
EXTENDS Integers, Sequences, FiniteSets

CONSTANTS
    BoardAsks,    \* scope -> questions asked there
    WatchCalls,   \* calls the model may come up with on the watch board
    Counts,       \* gauges at one stage
    CallsAllowed  \* MAX_TOOL_CALLS

Keys == {"region", "station", "facility", "min_stage", "group", "driver", "limit", "since_min", "case_id"}
Parameters ==      \* PARAMETERS
    [get_watch_overview |-> {"region", "min_stage"}, navigate_board |-> {"region", "station", "facility", "min_stage"},
     rank_priority |-> {"region", "limit"}, summarize_changes |-> {"since_min", "region"},
     get_station_status |-> {"station"}, draft_situation_report |-> {"region"}, rule_scorecard |-> {"facility"},
     get_rain_status |-> {"region", "limit"}, rank_facilities |-> {"region", "group", "driver", "limit"},
     get_official_forecasts |-> {"region"}, validation_cases |-> {"region"},
     post_event_review |-> {"region", "case_id"}, season_record |-> {"region", "limit"}]
FacilityTools == {"get_facility_status", "get_control_rule", "get_facility_backtest", "get_criteria_review", "get_rise_forecast"}
Qualities == {"fresh", "stale"}     \* a missing reading is treated as a stale one
Scopes == {"watch", "facility"}

ASSUME BoardAgentAssumption ==
    /\ DOMAIN BoardAsks = Scopes
    /\ \A scope \in Scopes : \A q \in BoardAsks[scope] : DOMAIN q.wrote \subseteq Keys
    /\ Counts \subseteq Nat /\ CallsAllowed \in Nat \ {0}

VARIABLES
    scope,   \* the board of the request; facility: [replay]
    replay,  \* an observation time is selected
    ask,     \* the question
    board,   \* what the sources say now: [count, quality]
    was,     \* what they have said since the question
    ran,     \* the calls that gave a result, in order
    told     \* the reply, or {}

agentVars == <<scope, replay, ask, board, was, ran, told>>

-----------------------------------------------------------------------------
(* hints of the watch board: the first rule that fits.                      *)
Has(q, words) == q.words \cap words # {}
Wrote(q, key) == key \in DOMAIN q.wrote
WithWritten(tool, q, keys) == [tool |-> tool, params |-> [k \in keys \cap DOMAIN q.wrote |-> q.wrote[k]]]

WatchRules(q) ==
    LET place == Wrote(q, "station") \/ Wrote(q, "facility")
        fits(holds, tool, keys) == [holds |-> holds, hint |-> WithWritten(tool, q, keys)]
    IN << fits(Has(q, {"review"}), "post_event_review", IF Wrote(q, "case_id") THEN {"case_id"} ELSE {"region"}),
          fits(Has(q, {"score"}) /\ Wrote(q, "facility") /\ Has(q, {"operational"}), "rule_scorecard", {"facility"}),
          fits(Has(q, {"season"}), "season_record", {"region", "limit"}),
          fits(Has(q, {"validate"}), "validation_cases", {"region"}),
          fits(Has(q, {"official"}) /\ ~place, "get_official_forecasts", {"region"}),
          fits(Wrote(q, "driver") /\ ~Wrote(q, "facility") /\ Has(q, {"rank", "rain", "first"}),
               "rank_facilities", {"region", "group", "driver", "limit"}),
          fits(Has(q, {"sites"}) /\ ~Wrote(q, "facility") /\ Has(q, {"rank", "overview", "first"}),
               "rank_facilities", {"region", "group", "limit"}),
          fits(Has(q, {"rain"}) /\ Wrote(q, "station"), "get_station_status", {"station"}),
          fits(Has(q, {"rain"}) /\ ~Wrote(q, "facility"), "get_rain_status", {"region", "limit"}),
          fits(Has(q, {"move"}) /\ (place \/ Wrote(q, "region")), "navigate_board", Parameters["navigate_board"]),
          fits(Has(q, {"change"}), "summarize_changes", {"since_min", "region"}),
          fits(Has(q, {"report"}), "draft_situation_report", {"region"}),
          fits(Has(q, {"rank"}) /\ Has(q, {"gauge"}), "rank_priority", {"region", "limit"}),
          fits(Has(q, {"rank"}), "rank_facilities", {"region", "group", "limit"}),
          fits(Wrote(q, "station") /\ Has(q, {"status"}), "get_station_status", {"station"}),
          fits(Wrote(q, "facility") /\ Has(q, {"status"}), "navigate_board", {"facility"}),
          fits(Has(q, {"overview"}) \/ Wrote(q, "min_stage"), "get_watch_overview", {"region", "min_stage"}) >>
WatchHints(q) ==
    LET rules == WatchRules(q)
    IN {rules[i].hint : i \in {x \in DOMAIN rules : rules[x].holds /\ \A y \in 1 .. (x - 1) : ~rules[y].holds}}

FacilityHints(q) ==
    LET now == ~Has(q, {"past"}) \/ Has(q, {"now"})
        tools == {t \in FacilityTools :
            CASE t = "get_facility_status" -> now /\ (Has(q, {"now", "state"}) \/ Has(q, {"why"}))
              [] t = "get_control_rule" -> Has(q, {"rule", "why"})
              [] t = "get_facility_backtest" -> Has(q, {"past"})
              [] t = "get_criteria_review" -> Has(q, {"compare"})
              [] OTHER -> Has(q, {"rise"})}
    IN {[tool |-> t, params |-> [k \in {} |-> {}]] : t \in tools}
Hints == IF scope = "watch" THEN WatchHints(ask) ELSE FacilityHints(ask)

(* validate: the user's own words, within bounds, and what a tool cannot do *)
(* without.                                                                 *)
InBounds(call) ==
    /\ "limit" \in DOMAIN call.params => call.params["limit"] \in 1 .. 20
    /\ "since_min" \in DOMAIN call.params => call.params["since_min"] \in 10 .. 1440
    /\ call.tool = "navigate_board" => DOMAIN call.params # {}
    /\ call.tool = "get_station_status" => "station" \in DOMAIN call.params
    /\ call.tool = "rule_scorecard" => "facility" \in DOMAIN call.params
Valid(call) ==
    /\ call.tool \in DOMAIN Parameters
    /\ DOMAIN call.params \subseteq Parameters[call.tool]
    /\ \A k \in DOMAIN call.params : k \in DOMAIN ask.wrote /\ call.params[k] = ask.wrote[k]
    /\ InBounds(call)

-----------------------------------------------------------------------------
(* run_tool.  A station, or the gauge of a facility, is shown by a          *)
(* navigation in place of its region's counts; a facility comes before a    *)
(* station and may have no gauge.                                           *)
Tallying == {"get_watch_overview", "draft_situation_report", "navigate_board"}
Ranked == {"get_watch_overview", "draft_situation_report", "navigate_board", "rank_priority", "rank_facilities", "get_station_status",
           "get_rain_status"}
Result(call, listed, gauged) ==      \* listed: the lists of the result are not empty
    LET names(key) == key \in DOMAIN call.params
        placed == call.tool = "navigate_board" /\ IF names("facility") THEN gauged ELSE names("station")
        one == placed \/ call.tool = "get_station_status"
    IN [call |-> call,
        tally |-> IF call.tool \in Tallying /\ ~placed THEN {board.count} ELSE {},
        quality |-> IF call.tool \in {"get_station_status", "get_facility_status"} THEN board.quality ELSE "fresh",
        minutes |-> call.tool \in Ranked /\ (listed \/ one \/ call.tool = "draft_situation_report"),
        links |-> call.tool = "rank_facilities" \/ (one /\ listed)]

(* A call that is refused or fails leaves nothing; the loop goes on.        *)
Used == {ran[i].call.tool : i \in DOMAIN ran}

Runs(call) ==
    /\ told = {} /\ Len(ran) < CallsAllowed /\ call \notin {ran[i].call : i \in DOMAIN ran}
    /\ Valid(call)
    /\ \E listed, gauged \in BOOLEAN : ran' = Append(ran, Result(call, listed, gauged))
    /\ UNCHANGED <<scope, replay, ask, board, was, told>>
RunFacilityTool(tool) ==
    /\ told = {} /\ Len(ran) < CallsAllowed /\ tool \notin Used
    /\ ran' = Append(ran, Result([tool |-> tool, params |-> [k \in {} |-> {}]], FALSE, FALSE))
    /\ UNCHANGED <<scope, replay, ask, board, was, told>>

(* A pull, or a reading that grows old; a replayed time stands still.       *)
BoardMoves ==
    /\ told = {} /\ ~replay
    /\ board' \in [count : Counts, quality : Qualities] \ {board}
    /\ was' = was \cup {board'.count}
    /\ UNCHANGED <<scope, replay, ask, ran, told>>

-----------------------------------------------------------------------------
(* The two safe_model_answer.  What they find in an answer: stage counts,   *)
(* a sentence that is never allowed, and what it names: the past, research, *)
(* a forecast, the archive.                                                 *)
Answers == [counts : SUBSET Counts, unsafe : BOOLEAN, names : SUBSET {"past", "research", "forecast", "archive"}]
Plain == [counts |-> {}, unsafe |-> FALSE, names |-> {}]
Tallies == UNION {ran[i].tally : i \in DOMAIN ran}
Reading(i) == ran[i].call.tool \in {"get_station_status", "get_facility_status"}
Unfresh == \E i \in DOMAIN ran : Reading(i) /\ ran[i].quality # "fresh"

WatchSafe(answer) ==
    (Tallies # {} => answer.counts \subseteq Tallies) /\ "get_rain_status" \notin Used
FacilitySafe(answer) ==
    /\ "get_rise_forecast" \in Used => "research" \in answer.names
    /\ replay /\ "get_facility_status" \in Used => "past" \in answer.names

(* As a bug: only the wording is looked at.                                 *)
SafeText(answer) == ~answer.unsafe
SafeAnswer(answer) ==
    ~answer.unsafe /\ ~Unfresh /\ IF scope = "watch" THEN WatchSafe(answer) ELSE FacilitySafe(answer)

(* summarize: a sentence of every result, with its number.                  *)
Summarized == DOMAIN ran

(* The caveats a reply carries: _reply adds them below, the summaries have  *)
(* their own.  A model that only names a forecast or the archive is taken   *)
(* to have said so.                                                         *)
Caveats(text, answer) ==
    LET says(word) == text = "model" /\ word \in answer.names
    IN IF scope = "watch"
         THEN {c \in {"proximity", "baseline", "rain", "judgement"} :
                 CASE c = "proximity" -> \E i \in DOMAIN ran : ran[i].links
                   [] c = "baseline" -> (\E i \in DOMAIN ran : ran[i].minutes) /\ ~says("forecast")
                   [] c = "rain" -> "get_rain_status" \in Used
                   [] OTHER -> ran # <<>>}
         ELSE {c \in {"archive", "extrapolation", "research", "judgement"} :
                 CASE c = "archive" -> Used \cap {"get_facility_backtest", "get_criteria_review"} # {} /\ ~says("archive")
                   [] c = "extrapolation" -> "get_facility_status" \in Used /\ ~says("forecast")
                   [] c = "research" -> "get_rise_forecast" \in Used
                   [] OTHER -> ran # <<>>}

(* _reply, for whatever the loop ends with: an answer of the model, a fixed *)
(* one that asks back, the tools' results, or nothing.                      *)
Conclude(source, status, answer) ==
    LET summed == ran # <<>> /\ (source = "registered_tools" \/ ~SafeAnswer(answer))
        text == IF summed THEN "summary" ELSE IF ran = <<>> /\ source = "model" THEN "fixed" ELSE source
        unmet == scope = "facility" /\ ran # <<>> /\ ~({h.tool : h \in Hints} \subseteq Used)
    IN told' = {[text |-> text, answer |-> answer, caveats |-> Caveats(text, answer),
                 evidence |-> IF summed THEN Summarized ELSE {},
                 status |-> IF Unfresh \/ unmet THEN "NEEDS_DATA" ELSE status]}
Reply ==
    /\ told = {}
    /\ \/ \E answer \in Answers : \E status \in {"ANSWERED", "NEEDS_DATA"} :
             (status = "ANSWERED" => ran # <<>>) /\ Conclude("model", status, answer)
       \/ Conclude("clarification", "NEEDS_DATA", Plain)
       \/ ran = <<>> /\ Conclude("unavailable", "UNAVAILABLE", Plain)
       \/ ran # <<>> /\ \E status \in {"ANSWERED", "NEEDS_DATA"} : Conclude("registered_tools", status, Plain)
    /\ UNCHANGED <<scope, replay, ask, board, was, ran>>

BoardAgentInit ==
    /\ scope \in Scopes /\ replay \in BOOLEAN /\ ask \in BoardAsks[scope]
    /\ board \in [count : Counts, quality : Qualities] /\ was = {board.count}
    /\ ran = <<>> /\ told = {}
BoardAgentNext ==
    \/ scope = "watch" /\ \E call \in WatchCalls \cup Hints : Runs(call)
    \/ scope = "facility" /\ \E tool \in FacilityTools : RunFacilityTool(tool)
    \/ BoardMoves
    \/ Reply
BoardAgentSpec == BoardAgentInit /\ [][BoardAgentNext]_agentVars

-----------------------------------------------------------------------------
(* Whatever the loop ends with and however the sources move meanwhile, what *)
(* is told is what the tools found: every value of a call is the user's and *)
(* within bounds; a count in the model's words is one the board has had     *)
(* since the question, if any tool counted; rain and readings that are not  *)
(* fresh are never told in the model's words, nor answered; a summary is of *)
(* every result; a facility's question is answered with all it asked for;   *)
(* and minutes, rain, the archive and the research model come with their    *)
(* caveats unless the model named a forecast or the archive itself.         *)
AnswersKeepToTheTools ==
    /\ Tallies \subseteq was
    /\ scope = "watch" => \A i \in DOMAIN ran : \A k \in DOMAIN ran[i].call.params :
          /\ ran[i].call.params[k] = ask.wrote[k]
          /\ k = "limit" => ask.wrote[k] \in 1 .. 20
    /\ \A t \in told :
          /\ t.text = "model" =>
                /\ ran # <<>> /\ ~t.answer.unsafe /\ "get_rain_status" \notin Used
                /\ \A i \in DOMAIN ran : ran[i].quality = "fresh"
                /\ \A n \in t.answer.counts : n \in was \/ Tallies = {}
                /\ replay /\ "get_facility_status" \in Used => "past" \in t.answer.names
          /\ t.status = "ANSWERED" =>
                /\ ran # <<>> /\ \A i \in DOMAIN ran : ran[i].quality = "fresh"
                /\ scope = "facility" => {h.tool : h \in FacilityHints(ask)} \subseteq Used
          /\ t.text = "summary" => t.evidence = DOMAIN ran
          /\ "get_rise_forecast" \in Used => "research" \in t.caveats
          /\ "get_rain_status" \in Used => "rain" \in t.caveats
          /\ (\E i \in DOMAIN ran : ran[i].minutes) /\ "baseline" \notin t.caveats =>
                t.text = "model" /\ "forecast" \in t.answer.names
=============================================================================
