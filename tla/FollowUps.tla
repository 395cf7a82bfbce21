----------------------------- MODULE FollowUps -----------------------------
(***************************************************************************)
(* A conversation with the Agent about one past event: what a question     *)
(* takes over from the questions before it (resolve_question of            *)
(* backend/app/agent_context.py), which tools its own words name           *)
(* (_router_hints of agent_runner.py, hints of agent_cases.py), and which  *)
(* calls of the model the server lets through (_validated_tool_request,    *)
(* validate).                                                              *)
(*                                                                         *)
(* A question is the kinds of words in it and the values it states.  Texts *)
(* are joined by joining both.  The first value of a text, which some      *)
(* hints take, is any one here.  Clocks are minutes of the day, lengths    *)
(* tenths of a metre.                                                      *)
(***************************************************************************)
EXTENDS Integers, Sequences, FiniteSets

CONSTANTS
    Says,        \* event -> the questions that may be asked about it
    Calls,       \* event -> calls the model may come up with
    BaseClosure, \* the registered closure of Osong
    ActualTime,  \* the two responses of the press case -> when they happened
    Recorded,    \* clocks of the entries get_reconstruction returns
    TurnsKept    \* questions in the history of a request

Events == {"osong", "seoul", "press"}
Wording ==
    {"follow", "more", "closure", "block", "inflow", "late", "breach", "soon", "exposure", "place", "hand",
     "works", "damage", "rain", "alert", "storage", "sinwol", "landslide_alert", "evacuation_order"}
(* 08:20; 20 minutes, alone, fractional, or with one of the words that the  *)
(* refusal of relative values knows (earlier, later) or with another        *)
(* (sooner, after); metres, followed by a blank or by a particle; mm; m3.   *)
Kinds == {"clock", "minutes", "fraction", "earlier", "later", "sooner", "after", "metres", "metres_to", "mm", "volume"}

ASSUME FollowUpsAssumption ==
    /\ DOMAIN Says = Events /\ DOMAIN Calls = Events
    /\ \A e \in Events : Says[e] \subseteq [words : SUBSET Wording, said : SUBSET [as : Kinds, value : Nat]]
    /\ DOMAIN ActualTime = {"landslide_alert", "evacuation_order"}
    /\ TurnsKept \in Nat \ {0}

VARIABLES
    about,    \* the event of the conversation
    dialogue, \* the user's questions, as far as a request still carries them
    resolved, \* what resolve_question made of the last one
    readOf,   \* the entries the model has read in this request
    tried     \* the last call of the model and whether it was let through, or {}

talkVars == <<about, dialogue, resolved, readOf, tried>>

Day == 24 * 60
Whole(set, least, most) == {v \in set : v \in least .. most}
ValuesAs(q, kinds) == {s.value : s \in {x \in q.said : x.as \in kinds}}
Spans(q)   == Whole(ValuesAs(q, {"minutes", "fraction", "earlier", "later", "sooner", "after"}), 0, 180)
TimesIn(q) == ValuesAs(q, {"clock"})
RadiiIn(q) == Whole(ValuesAs(q, {"metres", "metres_to"}), 500, 200000)
RainIn(q)  == ValuesAs(q, {"mm"})

Names(q, words) == q.words \cap words # {}
Physical(q)  == Names(q, {"works"})
Other(q)     == Names(q, {"works", "damage", "breach"})       \* _OTHER_EFFECT
Relative(q)  == Names(q, {"more"}) \/ ValuesAs(q, {"earlier", "later"}) # {}
ClosureIn(q) == Names(q, {"closure", "block"})
Sooner(q)    == Names(q, {"soon"}) \/ ValuesAs(q, {"earlier", "sooner"}) # {}
Later(q)     == Names(q, {"inflow", "late"}) \/ ValuesAs(q, {"later"}) # {}
Joined(q, r) == [words |-> q.words \cup r.words, said |-> q.said \cup r.said]

-----------------------------------------------------------------------------
(* What a text names, in its own words.                                     *)
Tool(tool, params) == [tool |-> tool, params |-> params]
With1(key, values) == [k \in {key} |-> values]
None0 == [k \in {} |-> {}]
When(condition, hint) == IF condition THEN {hint} ELSE {}
One(values) == {CHOOSE v \in values : TRUE}

(* _relative_closure_clocks: against the registered closure, within a day.  *)
ShiftedClosures(q) ==
    IF ClosureIn(q)
      THEN Whole({BaseClosure - v : v \in ValuesAs(q, {"earlier", "sooner"})}
                 \cup {BaseClosure + v : v \in ValuesAs(q, {"later", "after"})}, 0, Day - 1)
      ELSE {}
OsongHints(q) ==
    LET hand == Whole(ValuesAs(q, {"metres", "metres_to"}), 0, 25)
    IN When(Spans(q) # {} /\ Names(q, {"breach"}) /\ Sooner(q),
            Tool("analyze_breach_advance", With1("advance_minutes", Spans(q))))
       \cup When(Spans(q) # {} /\ Later(q) /\ ~Physical(q) /\ (Names(q, {"inflow"}) \/ ~ClosureIn(q)),
            Tool("analyze_inflow_delay", With1("delay_minutes", Spans(q))))
       \cup When(ClosureIn(q) /\ TimesIn(q) # {},
            Tool("analyze_closure_timing", With1("closure_times", TimesIn(q))))
       \cup When(~(ClosureIn(q) /\ TimesIn(q) # {}) /\ ShiftedClosures(q) # {},
            Tool("analyze_closure_timing", With1("closure_times", ShiftedClosures(q))))
       \cup When(RadiiIn(q) # {} /\ Names(q, {"exposure", "place"}),
            Tool("get_exposure_inventory", With1("radii_m", RadiiIn(q))))
       \cup When(hand # {} /\ Names(q, {"hand"}) /\ ~Physical(q),
            Tool("analyze_hand_threshold", With1("reduction_m", One(hand))))
       \cup When(Names(q, {"rain"}), Tool("get_observation_summary", None0))

Sinwol == 320000
SeoulHints(q) ==
    LET volumes == ValuesAs(q, {"volume"})
        mm      == Whole(RainIn(q), 1, 200)
        storage == IF volumes # {} THEN With1("storage_m3", One(volumes))
                   ELSE IF Names(q, {"sinwol"}) THEN With1("storage_m3", {Sinwol}) ELSE None0
        alert   == [k \in {x \in {"thresholds_mm_per_hour", "alert_times"} :
                              (IF x = "alert_times" THEN TimesIn(q) ELSE mm) # {}} |->
                       IF k = "alert_times" THEN TimesIn(q) ELSE mm]
        wanted  == When(Names(q, {"storage"}), Tool("analyze_storage_capture", storage))
                   \cup When(~Names(q, {"storage"}) /\ Names(q, {"alert"}) /\ DOMAIN alert # {},
                             Tool("analyze_alert_timing", alert))
    IN wanted \cup When(wanted = {} /\ Names(q, {"rain", "place"}), Tool("get_observation_summary", None0))

(* intervention_for: the landslide alert is looked for first.               *)
Response(q) == IF Names(q, {"landslide_alert"}) THEN "landslide_alert"
               ELSE IF Names(q, {"evacuation_order"}) THEN "evacuation_order" ELSE "none"
ShiftedResponses(q) ==
    IF Response(q) = "none" THEN {}
    ELSE {(ActualTime[Response(q)] - v) % Day : v \in ValuesAs(q, {"earlier", "sooner"})}
PressHints(q) ==
    LET times == TimesIn(q) \cup ShiftedResponses(q)
        wanted == When(Response(q) # "none" /\ times # {},
                       Tool("analyze_response_timing",
                            [k \in {"intervention_id", "action_times"} |->
                                IF k = "action_times" THEN times ELSE {Response(q)}]))
    IN wanted \cup When(wanted = {} /\ Names(q, {"rain", "damage"}), Tool("get_observation_summary", None0))

Router(event, q) ==
    CASE event = "osong" -> OsongHints(q) [] event = "seoul" -> SeoulHints(q) [] OTHER -> PressHints(q)

-----------------------------------------------------------------------------
(* resolve_question, over the questions of a request: the last is asked,    *)
(* those before it are its history.                                         *)
Topics ==
    [t \in {"analyze_closure_timing", "analyze_inflow_delay", "analyze_hand_threshold", "get_exposure_inventory",
            "analyze_alert_timing", "analyze_storage_capture"} |->
        CASE t = "analyze_closure_timing" -> "closure" [] t = "analyze_inflow_delay" -> "inflow"
          [] t = "analyze_hand_threshold" -> "hand"    [] t = "get_exposure_inventory" -> "exposure"
          [] t = "analyze_alert_timing" -> "alert"     [] OTHER -> "storage"]
Analyses(hints) == {h \in hints : h.tool \in DOMAIN Topics \cup {"analyze_response_timing"}}
Labelled(h, q) ==     \* the label of the analysis before the question
    [q EXCEPT !.words = @ \cup IF h.tool = "analyze_response_timing" THEN h.params["intervention_id"] ELSE {Topics[h.tool]}]

Resolved(mode, hints, text) == [mode |-> mode, hints |-> hints, text |-> text]
Ambiguous(q) == Resolved("ambiguous", {}, q)

(* A question that states no value takes the whole condition over; one that *)
(* does is asked again under the label.  As a bug: a part of the condition  *)
(* may be dropped.                                                          *)
Anew(event, q, h) ==
    LET updates == Analyses(Router(event, Labelled(h, q)))
    IN {u \in updates : Cardinality(updates) = 1 /\ u.tool = h.tool /\ DOMAIN u.params # {}}
UpdatedLoosely(event, q, h) ==
    IF Anew(event, q, h) = {} THEN Ambiguous(q) ELSE Resolved("updated", Anew(event, q, h), Labelled(h, q))
Updated(event, q, h) ==
    LET kept == {u \in Anew(event, q, h) : DOMAIN h.params \subseteq DOMAIN u.params}
    IN IF kept = {} THEN Ambiguous(q) ELSE Resolved("updated", kept, Labelled(h, q))

TakesOver(event, q, prior) ==
    LET h == CHOOSE x \in Analyses(prior.hints) : TRUE
        mentioned == {t \in DOMAIN Topics : Names(q, {Topics[t]})}
        otherResponse == h.tool = "analyze_response_timing" /\ Response(q) \notin {"none"} \cup h.params["intervention_id"]
    IN IF Cardinality(Analyses(prior.hints)) # 1 THEN Ambiguous(q)
       ELSE IF (mentioned # {} /\ h.tool \notin mentioned) \/ otherResponse THEN Ambiguous(q)
       ELSE IF q.said = {} THEN Resolved("reused", {h}, Joined(prior.text, q))
       ELSE IF ValuesAs(q, {"fraction"}) # {} \/ Relative(q) THEN Ambiguous(q)
       ELSE IF h.tool = "analyze_inflow_delay" /\ TimesIn(q) # {} THEN Ambiguous(q)
       ELSE Updated(event, q, h)

Resolution(event, asked) ==
    LET r[i \in DOMAIN asked] ==
            LET q == asked[i]
                direct == Router(event, q)
            IN IF direct # {} \/ ~Names(q, {"follow"}) \/ Other(q) THEN Resolved("current", direct, q)
               ELSE IF i = 1 THEN Ambiguous(q)
               ELSE TakesOver(event, q, r[i - 1])
    IN r[Len(asked)]
Window(asked) == SubSeq(asked, IF Len(asked) > TurnsKept THEN Len(asked) - TurnsKept ELSE 1, Len(asked))

-----------------------------------------------------------------------------
(* _validated_tool_request: a tool of the event, with parameters of its own *)
(* and no others, every value of them in the text, or registered.  The      *)
(* runoff coefficient of a storage is left out.                             *)
Given(call, key) == IF key \in DOMAIN call.params THEN call.params[key] ELSE {}
OsongTools == {"analyze_closure_timing", "analyze_inflow_delay", "analyze_breach_advance",
               "analyze_hand_threshold", "get_exposure_inventory", "get_observation_summary"}
Parameters ==
    [t \in OsongTools \cup {"analyze_alert_timing", "analyze_storage_capture", "analyze_response_timing"} |->
        CASE t = "analyze_closure_timing" -> {"closure_times"}   [] t = "analyze_inflow_delay" -> {"delay_minutes"}
          [] t = "analyze_breach_advance" -> {"advance_minutes"} [] t = "analyze_hand_threshold" -> {"reduction_m"}
          [] t = "get_exposure_inventory" -> {"radii_m"}
          [] t = "analyze_alert_timing" -> {"thresholds_mm_per_hour", "alert_times"}
          [] t = "analyze_storage_capture" -> {"storage_m3", "capacity_mm_per_hour"}
          [] t = "analyze_response_timing" -> {"intervention_id", "action_times"}
          [] OTHER -> {}]
OsongAccepts(call, text, q, entries) ==
    /\ call.tool \in OsongTools /\ Parameters[call.tool] \subseteq DOMAIN call.params
    /\ \A k \in DOMAIN call.params : call.params[k] # {}
    /\ Given(call, "closure_times") \subseteq TimesIn(text) \cup entries \cup ShiftedClosures(text)
    /\ Given(call, "delay_minutes") \cup Given(call, "advance_minutes") \subseteq Spans(text)
    /\ Given(call, "radii_m") \subseteq RadiiIn(text)
    /\ Given(call, "reduction_m") # {} =>
          Given(call, "reduction_m") \subseteq Whole(ValuesAs(text, {"metres"}), 0, 25) /\ ~Physical(q)
SeoulAccepts(call, text, entries) ==
    CASE call.tool = "analyze_alert_timing" ->
            /\ Given(call, "thresholds_mm_per_hour") \cup Given(call, "alert_times") # {}
            /\ Given(call, "thresholds_mm_per_hour") \subseteq RainIn(text)
            /\ Given(call, "alert_times") \subseteq TimesIn(text) \cup entries
      [] call.tool = "analyze_storage_capture" ->
            /\ Given(call, "storage_m3") \subseteq {400000, Sinwol} \cup ValuesAs(text, {"volume"})
            /\ Given(call, "capacity_mm_per_hour") \subseteq {95, 100, 110} \cup RainIn(text)
      [] OTHER -> call.tool = "get_observation_summary"
PressAccepts(call, text, entries) ==
    IF call.tool = "analyze_response_timing"
      THEN /\ Given(call, "intervention_id") # {} /\ Given(call, "intervention_id") \subseteq DOMAIN ActualTime
           /\ Given(call, "action_times") # {}
           /\ Given(call, "action_times") \subseteq TimesIn(text) \cup entries \cup ShiftedResponses(text)
      ELSE call.tool = "get_observation_summary"
Accepts(event, call, text, q, entries) ==
    /\ call.tool \in DOMAIN Parameters /\ DOMAIN call.params \subseteq Parameters[call.tool]
    /\ CASE event = "osong" -> OsongAccepts(call, text, q, entries)
         [] event = "seoul" -> SeoulAccepts(call, text, entries)
         [] OTHER -> PressAccepts(call, text, entries)

-----------------------------------------------------------------------------
AskNext(q) ==
    /\ dialogue' = Window(Append(dialogue, q))
    /\ resolved' = Resolution(about, dialogue')
    /\ readOf' = {} /\ tried' = {}
    /\ UNCHANGED about

(* The loop goes on unless the question is ambiguous (AgentLoop).           *)
InLoop == dialogue # <<>> /\ resolved.mode # "ambiguous"
ReadEntries ==
    /\ InLoop /\ tried = {}
    /\ readOf' = Recorded
    /\ UNCHANGED <<about, dialogue, resolved, tried>>
ModelCalls(call) ==
    /\ InLoop /\ tried = {}
    /\ tried' = {[call |-> call, ok |-> Accepts(about, call, resolved.text, dialogue[Len(dialogue)], readOf)]}
    /\ UNCHANGED <<about, dialogue, resolved, readOf>>

TalkInit ==
    /\ about \in Events /\ dialogue = <<>> /\ readOf = {} /\ tried = {}
    /\ resolved = Ambiguous([words |-> {}, said |-> {}])
TalkNext ==
    \/ \E q \in Says[about] : AskNext(q)
    \/ ReadEntries
    \/ \E call \in Calls[about] \cup resolved.hints : ModelCalls(call)
TalkSpec == TalkInit /\ [][TalkNext]_talkVars

-----------------------------------------------------------------------------
(* The questions the values of the last one may be in: it, and those before *)
(* it as far as each of them only went on with the one before.              *)
Source ==
    LET last == Len(dialogue)
        goesOn(i) == Names(dialogue[i], {"follow"}) /\ ~Other(dialogue[i]) /\ Router(about, dialogue[i]) = {}
    IN {i \in DOMAIN dialogue : \A k \in (i + 1) .. last : goesOn(k)}
Text(is) == [words |-> UNION {dialogue[i].words : i \in is}, said |-> UNION {dialogue[i].said : i \in is}]
Registered == {Sinwol, 400000, 95, 100, 110} \cup Recorded

(* A value as it was written, or moved from the registered closure or from  *)
(* when the response happened.                                              *)
Written(text) ==
    LET said == {s.value : s \in text.said}
    IN said \cup {BaseClosure - v : v \in said} \cup {BaseClosure + v : v \in said}
            \cup {(ActualTime[r] - v) % Day : r \in DOMAIN ActualTime, v \in said}
ValuesOf(call) == UNION {call.params[k] : k \in DOMAIN call.params \ {"intervention_id"}}

(* What a question goes on with is one analysis, with all of its conditions *)
(* named by the user: of this question alone if it states a value, else of  *)
(* the questions it goes on with.  Nothing is taken over by a question that *)
(* names a tool itself, asks for an effect nobody computes or comes first.  *)
(* Whatever the model calls, values come from those questions, a registered *)
(* number or an entry it has read; and a call the server suggests itself is *)
(* let through, unless a HAND length is followed by a particle.             *)
FollowUpsKeepTheirSource ==
    dialogue # <<>> =>
        /\ resolved.mode \in {"reused", "updated"} =>
              /\ Cardinality(resolved.hints) = 1 /\ Cardinality(Source) > 1
              /\ ~Other(dialogue[Len(dialogue)]) /\ Router(about, dialogue[Len(dialogue)]) = {}
              /\ \A h \in resolved.hints :
                    /\ ValuesOf(h) \subseteq Registered \cup
                          Written(Text(IF resolved.mode = "updated" THEN {Len(dialogue)} ELSE Source))
                    /\ \E i \in Source \ {Len(dialogue)} : \E a \in Router(about, dialogue[i]) :
                          a.tool = h.tool /\ DOMAIN a.params \subseteq DOMAIN h.params
        /\ \A t \in tried :
              /\ t.ok => ValuesOf(t.call) \subseteq Written(Text(Source)) \cup Registered
              /\ t.call \in resolved.hints => t.ok \/ ValuesAs(resolved.text, {"metres_to"}) # {}
=============================================================================
