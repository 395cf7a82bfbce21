----------------------------- MODULE IntentPlan -----------------------------
(***************************************************************************)
(* From a sentence to the numbers of an analysis.  POST /api/agent/plan    *)
(* (backend/app/main.py) asks the model (llm_planner.py) or the rules      *)
(* (agent_tools.py) for a workflow and its values; the caller posts the    *)
(* plan to /api/agent/workflows, which runs the registered tools           *)
(* (agent_tools.py) on the record (EventReplay).  The comparison and the   *)
(* response timing of the press cases are asked for without a plan.        *)
(*                                                                         *)
(* A question is the kinds of words in it and the values it states.  The   *)
(* event is Osong, the only one whose record the workflows know.           *)
(* Lists are shorter than the ten values a direct request may have.        *)
(***************************************************************************)
EXTENDS EventReplay

CONSTANTS
    Questions,    \* the questions asked: [words, said]
    Answers,      \* what the model may answer: [workflow, values]
    Closures,     \* sets of closure times posted for a comparison
    Delays,       \* sets of delays posted for a comparison
    Clocks,       \* sets of clock times posted for a response timing
    Unset         \* nothing yet

Words == {"closure", "inflow", "breach", "earlier", "exposure", "situation", "unsupported"}

(* A value as it is written: 08:25; 8 hours 25 minutes; 30 minutes, in      *)
(* Korean or in English; a radius in metres.                                *)
Expressions == [as : {"clock", "spoken", "minutes", "mins", "radius"}, value : Nat]
Workflows  == {"closure_timing", "inflow_delay", "breach_advance", "exposure_inventory", "situation"}

ASSUME PlanAssumption ==
    /\ Questions \subseteq [words : SUBSET Words, said : SUBSET Expressions]
    /\ \A q \in Questions : \A e \in q.said : e.as \in {"clock", "spoken"} => e.value < At(24, 0)
    /\ Closures \subseteq SUBSET Nat
    /\ Clocks \subseteq SUBSET (0 .. At(24, 0) - 1)
    /\ \A a \in Answers : a.workflow \in Workflows \cup {"unsupported"}
    /\ Unset # Rejected

VARIABLES
    question,  \* the question and the planner that is asked for, or Unset
    plan,      \* the plan of the reply, or Unset
    outcome    \* what an analysis replied, or Unset

planVars == <<question, plan, outcome>>

-----------------------------------------------------------------------------
(* The values of a question by kind, read with patterns: the minutes of a   *)
(* spoken clock pass for minutes, English minutes for metres.               *)
Said(q, kinds) == {e.value : e \in {x \in q.said : x.as \in kinds}}
ClockTimes(q) == Said(q, {"clock", "spoken"})
Minutes(q) ==
    {m \in Said(q, {"minutes", "mins"}) : m <= 180} \cup {c % 60 : c \in Said(q, {"spoken"})}
Radii(q) == {r \in Said(q, {"radius", "mins"}) : r \in 50 .. 20000}
RadiusRows(radii) == {[radius |-> r] : r \in radii}
Literal(q, workflow) ==
    CASE workflow = "closure_timing" -> ClockTimes(q)
      [] workflow \in {"inflow_delay", "breach_advance"} -> Minutes(q)
      [] workflow = "exposure_inventory" -> Radii(q)
      [] OTHER -> {}

(* The reply that turns a request down is no list of rows.                  *)
ASSUME RowsAssumption ==
    /\ \A q \in Questions :
          /\ ClosureTiming(OrDefault(ClockTimes(q), DefaultClosures)) # Rejected
          /\ DelayRows(OrDefault(Minutes(q), DefaultMinutes)) # Rejected
          /\ AdvanceRows(OrDefault(Minutes(q), DefaultMinutes)) # Rejected
          /\ RadiusRows(OrDefault(Radii(q), DefaultRadii)) # Rejected
    /\ {[replay |-> Replay]} # Rejected
    /\ \A case \in TimelineCases, clocks \in Clocks : \A i \in case.interventions :
          MomentRows(i, Moments(case, i, clocks)) # Rejected

Ready(workflow, values) == [status |-> "READY", workflow |-> workflow, values |-> values]
NotReady(status)        == [status |-> status, workflow |-> Unset, values |-> {}]

-----------------------------------------------------------------------------
(* plan_agent_intent, the planner of rules.                                 *)
Actionable(q) ==
    {w \in Workflows \ {"situation"} :
        CASE w = "closure_timing" -> "closure" \in q.words
          [] w = "inflow_delay" -> "inflow" \in q.words
          [] w = "breach_advance" -> {"breach", "earlier"} \subseteq q.words
          [] OTHER -> "exposure" \in q.words}
PlanOfRules(q) ==
    IF "unsupported" \in q.words THEN NotReady("UNSUPPORTED")
    ELSE IF Cardinality(Actionable(q)) > 1 THEN NotReady("NEEDS_CLARIFICATION")
    ELSE IF Actionable(q) # {}
         THEN LET w == CHOOSE x \in Actionable(q) : TRUE
              IN IF w = "breach_advance" /\ Minutes(q) = {} THEN NotReady("NEEDS_CLARIFICATION")
                 ELSE Ready(w, Literal(q, w))
    ELSE IF "situation" \in q.words THEN Ready("situation", {})
    ELSE NotReady("UNSUPPORTED")

(* _validated_parameters: in range and in the question, or ValueError; then *)
(* the values of the question are taken, not those of the model.  As a bug: *)
(* the range is all that is looked at.                                      *)
InRange(answer) ==
    CASE answer.workflow = "closure_timing" -> answer.values \subseteq 0 .. At(24, 0) - 1
      [] answer.workflow = "inflow_delay" -> answer.values \subseteq 0 .. 180
      [] OTHER -> answer.values \subseteq 50 .. 20000
ValidatedInRange(q, answer) ==
    IF InRange(answer) THEN Ready(answer.workflow, answer.values) ELSE Rejected
Validated(q, answer) ==
    IF InRange(answer) /\ answer.values \subseteq Literal(q, answer.workflow)
    THEN Ready(answer.workflow, Literal(q, answer.workflow))
    ELSE Rejected

(* plan_with_llm.  The call may fail (no key, no connection, no HTTP 200)   *)
(* or return no plan that fits the schema: answer is Unset.                 *)
PlanOfModel(q, answer) ==
    IF "unsupported" \in q.words THEN NotReady("UNSUPPORTED")
    ELSE IF answer = Unset THEN Rejected
    ELSE IF answer.workflow = "unsupported" THEN NotReady("UNSUPPORTED")
    ELSE Validated(q, answer)

-----------------------------------------------------------------------------
Ask(q, planner) ==
    /\ question = Unset /\ outcome = Unset
    /\ question' = [asked |-> q, planner |-> planner]
    /\ UNCHANGED <<plan, outcome>>

(* plan_agent: the model may be asked unless the rules are; when it fails,  *)
(* "auto" falls back to the rules and "llm" replies 503.  The limiter may   *)
(* turn the request down (RateLimit): 429.                                  *)
Plan ==
    /\ question # Unset /\ plan = Unset
    /\ LET q == question.asked
       IN \/ question.planner = "deterministic" /\ plan' = PlanOfRules(q)
          \/ /\ question.planner \in {"auto", "llm"}
             /\ \E answer \in Answers \cup {Unset} :
                   LET fromModel == PlanOfModel(q, answer)
                   IN plan' = IF fromModel # Rejected THEN fromModel
                              ELSE IF question.planner = "llm" THEN NotReady("503")
                              ELSE PlanOfRules(q)
          \/ question.planner \in {"auto", "llm"} /\ plan' = NotReady("429")
    /\ UNCHANGED <<question, outcome>>

(* run_agent_workflow: get_event, get_reconstruction but for an inventory,  *)
(* and the analysis, with the defaults where the plan has no values.  An    *)
(* inventory is a count per radius: only its radii are modelled.            *)
Analysis(workflow, values) ==
    CASE workflow = "closure_timing" -> ClosureTiming(OrDefault(values, DefaultClosures))
      [] workflow = "inflow_delay" -> InflowDelay(OrDefault(values, DefaultMinutes))
      [] workflow = "breach_advance" -> BreachAdvance(OrDefault(values, DefaultMinutes))
      [] workflow = "exposure_inventory" -> RadiusRows(OrDefault(values, DefaultRadii))
      [] OTHER -> {[replay |-> Replay]}
RunWorkflow ==
    /\ plan # Unset /\ plan.status = "READY" /\ outcome = Unset
    /\ outcome' = [of |-> plan.workflow, rows |-> Analysis(plan.workflow, plan.values)]
    /\ UNCHANGED <<question, plan>>

(* The requests that need no plan.                                          *)
Request(result) ==
    /\ question = Unset /\ outcome = Unset
    /\ outcome' = result
    /\ UNCHANGED <<question, plan>>
CompareTimes(times) ==
    LET compared == CompareClosures(times)
    IN Request([of |-> "compare_closures", baseline |-> compared.baseline, rows |-> compared.rows])
CompareShifts(delays) ==
    LET compared == CompareDelays(delays)
    IN Request(IF compared = Rejected THEN [of |-> "compare_delays", rows |-> Rejected]
               ELSE [of |-> "compare_delays", baseline |-> compared.baseline, rows |-> compared.rows])
TimeResponse(case, intervention, clocks) ==
    Request([of |-> "response_timing", case |-> case, clocks |-> clocks,
             rows |-> ResponseTiming(case, intervention, clocks)])

PlanInit == question = Unset /\ plan = Unset /\ outcome = Unset
PlanNext ==
    \/ \E q \in Questions, planner \in {"auto", "deterministic", "llm"} : Ask(q, planner)
    \/ Plan
    \/ RunWorkflow
    \/ \E times \in Closures : CompareTimes(times)
    \/ \E delays \in Delays : CompareShifts(delays)
    \/ \E case \in TimelineCases, clocks \in Clocks :
          \E i \in case.interventions : TimeResponse(case, i, clocks)
PlanSpec == PlanInit /\ [][PlanNext]_planVars

-----------------------------------------------------------------------------
Stated(workflow) == Literal(question.asked, workflow)

(* Whatever the model answers, an analysis runs on the values of the        *)
(* question, all of them, or on the defaults when it states none; nothing   *)
(* runs for a question about a quantity that no tool computes, and a plan   *)
(* that was called READY is only turned down for a levee that would fail    *)
(* before what the record has ahead of it.                                  *)
PlanKeepsToTheQuestion ==
    /\ plan # Unset /\ plan.status = "READY" =>
          /\ "unsupported" \notin question.asked.words
          /\ plan.values = Stated(plan.workflow)
    /\ plan # Unset /\ outcome # Unset /\ outcome.rows = Rejected =>
          plan.workflow = "breach_advance" /\ \E m \in Stated("breach_advance") : m > MaxAdvance

(* The record with the times of a what-if in it.                            *)
Replayed(times) == [s \in DOMAIN Replay |-> IF s \in DOMAIN times THEN times[s] ELSE Replay[s]]
RecordedOrder(times) ==
    \A s, q \in DOMAIN Replay :
        Replay[s] < Replay[q] => Replayed(times)[s] < Replayed(times)[q]

(* What a closure row says of its minute in words and in numbers.           *)
RowAgrees(r) ==
    LET after == {s \in Shifted : r.before[s] <= 0}
    IN /\ r.blocked = (r.before["underpass_inflow"] >= 0)
       /\ r.class \in {"PREEMPTIVE_BEFORE_LEVEE_FAILURE", "BEFORE_UNDERPASS_INFLOW"} <=> r.blocked
       /\ r.class = "AFTER_FULL_INUNDATION" <=> r.state = "full_inundation"
       /\ r.class = "AFTER_UNSAFE_DRIVING" <=> r.state = "unsafe_driving"
       /\ r.state \in Shifted <=> after # {}
       /\ r.state \in Shifted => r.state \in after

(* No what-if turns the record around: shifted milestones stay in recorded  *)
(* order with those that stay, a closure is called early or late as its     *)
(* minutes are, a comparison keeps the record for its baseline and shows    *)
(* every other value, and among the responses of a press case one is the    *)
(* one that happened.  No clock of an overnight case is turned down, and of *)
(* another only one more than half a day after the last entry.              *)
WhatIfsKeepTheRecord ==
    /\ outcome # Unset /\ outcome.of = "response_timing" /\ outcome.rows = Rejected =>
          ~outcome.case.overnight /\ \E c \in outcome.clocks : c > outcome.case.last + At(12, 0)
    /\ outcome # Unset /\ outcome.rows # Rejected =>
        CASE outcome.of \in {"inflow_delay", "breach_advance"} ->
                \A r \in outcome.rows : RecordedOrder(r.times)
          [] outcome.of \in {"closure_timing", "compare_closures"} ->
                \A r \in outcome.rows : RowAgrees(r)
          [] outcome.of = "compare_delays" ->
                /\ Replayed(outcome.baseline.times) = Replay
                /\ \A r \in outcome.rows : r.times # outcome.baseline.times /\ RecordedOrder(r.times)
          [] outcome.of = "response_timing" ->
                Cardinality({r \in outcome.rows : r.actual /\ r.earlier = 0}) = 1
          [] OTHER -> TRUE

(* Both, of every analysis that runs.                                       *)
AnalysesKeepToQuestionAndRecord == PlanKeepsToTheQuestion /\ WhatIfsKeepTheRecord
=============================================================================
