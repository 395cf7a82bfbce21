----------------------------- MODULE AgentLoop -----------------------------
(***************************************************************************)
(* One request of ask_agent in backend/app/agent_runner.py: the bounded    *)
(* loop in which a language model chooses registered read-only tools and   *)
(* finally an answer, and the server decides what of it is shown.          *)
(*                                                                         *)
(* The model is free: it may decide anything, fail at any step, cite calls *)
(* that do not exist and ask again for what it already has.  A request     *)
(* shares no state with others (_RunState is a ContextVar), so a step of   *)
(* the loop, the server's own tool runs included, is one action.  The      *)
(* scope is an event question; the facility and watch boards only rewrite  *)
(* the text and lower the status of the same replies.                      *)
(***************************************************************************)
EXTENDS Integers, Sequences, SequencesExt, Sieve

CONSTANTS
    Keys,        \* tool calls [tool, args] that pass _validated_tool_request
    Computing,   \* tools of _is_computing: analyze_*, compare_scenarios, ...
    Timeline,    \* the call of get_reconstruction without parameters
    HintLists,   \* what _router_hints can return: at most one call per tool
    MaxCalls,    \* MAX_TOOL_CALLS
    MaxSteps     \* MAX_MODEL_STEPS

ASSUME ConstantsAssumption ==
    /\ Timeline \in Keys /\ Timeline.tool \notin Computing
    /\ HintLists \subseteq Seq(Keys)
    /\ \A hs \in HintLists : \A i, j \in DOMAIN hs : hs[i].tool = hs[j].tool => i = j
    /\ {MaxCalls, MaxSteps} \subseteq Nat \ {0}

VARIABLES
    req,         \* the question, as the server's own patterns classify it
    steps,       \* model decisions taken (model_steps)
    calls,       \* calls: the successful tool calls, order = position
    seen, failedKeys, failedTools, repeats,
    anchored, ungrounded, stalled,
    failures,    \* tools named by a tool_execution_failed in the diagnostics
    reply        \* NoReply while the request is being answered

loop == <<steps, calls, seen, failedKeys, failedTools, repeats, anchored, ungrounded, stalled>>
vars == <<req, loop, failures, reply>>

Tools == {k.tool : k \in Keys}

(* A physical change is always hypothetical.                                *)
Questions ==
    {q \in [kind : {"question", "capability", "ambiguous"}, physical : BOOLEAN,
            hypothetical : BOOLEAN, forecast : BOOLEAN, hints : HintLists] :
        q.physical => q.hypothetical}

(* What the checks of a final action can find in it: the calls it cites,    *)
(* whether the cited results hold its numbers and it is readable, a gap     *)
(* kind, and a claim that a physical change has an effect.                  *)
Finals == [cites : SUBSET (1 .. MaxCalls), supported : BOOLEAN, gap : BOOLEAN, effect : BOOLEAN]

NoReply == [status |-> "none", text |-> "none", cites |-> {}]

-----------------------------------------------------------------------------
CallsOf(keys) == {keys[i].tool : i \in DOMAIN keys}

Computed(keys) == CallsOf(keys) \cap Computing # {}

(* The hints whose tool has neither answered nor failed.                    *)
Missing == Sieve(req.hints, {h \in ToSet(req.hints) : h.tool \notin CallsOf(calls) \cup failedTools})

(* [: MAX_TOOL_CALLS - len(calls)].  As a bug: one call too many.           *)
AffordableOneMore(todo) == SubSeq(todo, 1, Min({Len(todo), MaxCalls + 1 - Len(calls)}))
Affordable(todo) == SubSeq(todo, 1, Min({Len(todo), MaxCalls - Len(calls)}))

(* The server runs the calls of todo in order; those in ok give a result.   *)
(* A failure goes to the diagnostics; failedTools does not learn of it.     *)
Run(todo, ok) == Sieve(todo, ok)
RecordFailed(todo, ok) ==
    \E f \in SUBSET (ToSet(todo) \ ok) :   \* the others failed validation
        failures' = failures \cup {h.tool : h \in f}

Reply(status, text, cites) == reply' = [status |-> status, text |-> text, cites |-> cites]

(* _fallback_status.  As a bug: the rules a model answer has to follow are  *)
(* not applied to tool results shown without one.                           *)
FallbackStatusAnswered(keys) == "ANSWERED"
FallbackStatus(keys) ==
    IF (req.hypothetical /\ ~Computed(keys)) \/ req.forecast THEN "NEEDS_DATA" ELSE "ANSWERED"

Deciding == reply = NoReply /\ req.kind = "question" /\ ~ungrounded /\ ~stalled

(* _model_action, counted before it is made.                                *)
CountStep == steps < MaxSteps /\ steps' = steps + 1

-----------------------------------------------------------------------------
Init ==
    /\ req \in Questions
    /\ steps = 0 /\ calls = <<>> /\ seen = {} /\ failedKeys = {} /\ failedTools = {}
    /\ repeats = 0 /\ anchored = FALSE /\ ungrounded = FALSE /\ stalled = FALSE
    /\ failures = {} /\ reply = NoReply

(* A question about the Agent, and a follow-up with no single antecedent,   *)
(* are answered without the model.                                          *)
ReplyWithoutModel ==
    /\ reply = NoReply
    /\ \/ req.kind = "capability" /\ Reply("ANSWERED", "capability", {})
       \/ req.kind = "ambiguous" /\ Reply("NEEDS_DATA", "clarification", {})
    /\ UNCHANGED <<req, loop, failures>>

(* LlmPlannerUnavailable: no key, no connection, an HTTP error, two invalid *)
(* decisions, or the request's time budget is spent.                        *)
ModelUnavailable ==
    /\ Deciding /\ steps < MaxSteps
    /\ IF calls = <<>> /\ (req.physical \/ req.forecast)
         THEN Reply("NEEDS_DATA", "clarification", {}) /\ UNCHANGED <<calls, failures>>
         ELSE LET todo == Affordable(Missing)
              IN \E ok \in SUBSET ToSet(todo) :
                    /\ RecordFailed(todo, ok)
                    /\ calls' = calls \o Run(todo, ok)
                    /\ IF calls' # <<>> THEN Reply(FallbackStatus(calls'), "registered_tools", {})
                                        ELSE Reply("UNAVAILABLE", "unavailable", {})
    /\ steps' \in {steps, steps + 1}   \* past the deadline no step is counted
    /\ UNCHANGED <<req, seen, failedKeys, failedTools, repeats, anchored, ungrounded, stalled>>

AnalysisFailed == failedTools \cap Computing # {} /\ ~Computed(calls)

FinalAfterFailedAnalysis ==
    /\ Deciding /\ CountStep
    /\ AnalysisFailed
    /\ Reply("NEEDS_DATA", "analysis_failed", {})
    /\ UNCHANGED <<req, calls, seen, failedKeys, failedTools, repeats, anchored,
                   ungrounded, stalled, failures>>

(* The model wants to finish without the evidence the question needs: the   *)
(* server runs it, once per request.                                        *)
NeedsAnchor == ~anchored /\ (Missing # <<>> \/ (req.hypothetical /\ calls = <<>>))

(* As a bug: the calls the server ran are not remembered as made.           *)
AnchorUnseen(todo, ok) ==
    /\ calls' = calls \o Run(todo, ok)
    /\ UNCHANGED seen
Anchor(todo, ok) ==
    /\ calls' = calls \o Run(todo, ok)
    /\ seen' = seen \cup ok

(* What is shown of a final action.                                         *)
JudgeFinal(a) ==
    LET effect   == req.physical /\ a.effect
        grounded == a.cites # {} /\ a.cites \subseteq DOMAIN calls' /\ a.supported
        uncomputed == req.hypothetical /\ ~Computed(calls')
    IN \/ /\ calls' # <<>> /\ ~effect /\ grounded
          /\ Reply(IF req.physical \/ a.gap \/ uncomputed \/ req.forecast
                     THEN "NEEDS_DATA" ELSE "ANSWERED", "model", a.cites)
          /\ UNCHANGED ungrounded
       \/ /\ ~(calls' # <<>> /\ ~effect /\ grounded)
          /\ IF a.gap \/ req.physical \/ calls' = <<>>
               THEN Reply("NEEDS_DATA", "limitation", {}) /\ UNCHANGED ungrounded
               ELSE ungrounded' = TRUE /\ UNCHANGED reply

FinalAnchored ==
    /\ Deciding /\ CountStep
    /\ ~AnalysisFailed /\ NeedsAnchor
    /\ anchored' = TRUE
    /\ LET todo == Affordable(IF Missing # <<>> THEN Missing ELSE <<Timeline>>)
       IN \E ok \in SUBSET ToSet(todo) :
             /\ RecordFailed(todo, ok)
             /\ Anchor(todo, ok)
             /\ IF calls' # <<>> THEN UNCHANGED <<ungrounded, reply>>
                                 ELSE \E a \in Finals : JudgeFinal(a)
    /\ UNCHANGED <<req, failedKeys, failedTools, repeats, stalled>>

FinalJudged ==
    /\ Deciding /\ CountStep
    /\ ~AnalysisFailed /\ ~NeedsAnchor
    /\ UNCHANGED <<calls, seen>>
    /\ \E a \in Finals : JudgeFinal(a)
    /\ UNCHANGED <<req, failedKeys, failedTools, repeats, anchored, stalled, failures>>

CallLimitReached == Len(calls) >= MaxCalls

(* A tool call that fails validation: observed by the model, and it goes on.*)
ToolRejected ==
    /\ Deciding /\ CountStep
    /\ ~CallLimitReached
    /\ UNCHANGED <<req, calls, seen, failedKeys, failedTools, repeats, anchored,
                   ungrounded, stalled, failures, reply>>

ToolRepeated(k) ==
    /\ Deciding /\ CountStep
    /\ ~CallLimitReached
    /\ k \in failedKeys \cup seen
    /\ repeats' = repeats + 1
    /\ stalled' = (k \in failedKeys \/ repeats' >= 2)
    /\ UNCHANGED <<req, calls, seen, failedKeys, failedTools, anchored, ungrounded, failures, reply>>

ToolRun(k) ==
    /\ Deciding /\ CountStep
    /\ ~CallLimitReached
    /\ k \notin failedKeys \cup seen
    /\ seen' = seen \cup {k}
    /\ \/ \* a result
          /\ calls' = Append(calls, k)
          /\ UNCHANGED <<failedKeys, failedTools, failures>>
       \/ \* tool_execution_failed
          /\ failedKeys' = failedKeys \cup {k}
          /\ failedTools' = failedTools \cup {k.tool}
          /\ failures' = failures \cup {k.tool}
          /\ UNCHANGED calls
    /\ UNCHANGED <<req, repeats, anchored, ungrounded, stalled, reply>>

(* After the loop: the hints that were never run, or what there is.         *)
Conclude ==
    LET todo == Affordable(Missing)
        HintsRan == req.hints # <<>> /\ \A i \in DOMAIN req.hints :
                       req.hints[i].tool \in CallsOf(calls')
    IN \E ok \in SUBSET ToSet(todo) :
          /\ RecordFailed(todo, ok)
          /\ calls' = calls \o Run(todo, ok)
          /\ IF ok # {} THEN Reply(FallbackStatus(calls'), "registered_tools", {})
             ELSE IF req.physical THEN Reply("NEEDS_DATA", "limitation", {})
             ELSE IF (ungrounded \/ stalled) /\ HintsRan
               THEN Reply(FallbackStatus(calls'), "registered_tools", {})
             ELSE Reply("NEEDS_DATA", "incomplete", {})

(* The model asks for one more tool when the limit is reached.              *)
ToolBeyondLimit ==
    /\ Deciding /\ CountStep
    /\ CallLimitReached
    /\ Conclude
    /\ UNCHANGED <<req, seen, failedKeys, failedTools, repeats, anchored, ungrounded, stalled>>

(* break, or the last decision was taken.  As a bug: a loop that runs out   *)
(* of decisions returns nothing.                                            *)
LoopBroken ==
    /\ reply = NoReply /\ req.kind = "question"
    /\ ungrounded \/ stalled
    /\ Conclude
    /\ UNCHANGED <<req, steps, seen, failedKeys, failedTools, repeats, anchored, ungrounded, stalled>>
LoopEnded ==
    /\ reply = NoReply /\ req.kind = "question"
    /\ ungrounded \/ stalled \/ steps = MaxSteps
    /\ Conclude
    /\ UNCHANGED <<req, steps, seen, failedKeys, failedTools, repeats, anchored, ungrounded, stalled>>

Next ==
    \/ ReplyWithoutModel \/ ModelUnavailable
    \/ FinalAfterFailedAnalysis \/ FinalAnchored \/ FinalJudged
    \/ ToolRejected \/ (\E k \in Keys : ToolRepeated(k) \/ ToolRun(k))
    \/ ToolBeyondLimit \/ LoopEnded

(* Each model request ends within the remaining time budget and each tool   *)
(* is local work, so the thread that serves the request keeps running.      *)
Spec == Init /\ [][Next]_vars /\ WF_vars(Next)

-----------------------------------------------------------------------------
TypeOK ==
    /\ req \in Questions
    /\ steps \in 0 .. MaxSteps
    /\ calls \in Seq(Keys) /\ Len(calls) <= MaxCalls
    /\ {seen, failedKeys} \subseteq SUBSET Keys
    /\ {failedTools, failures} \subseteq SUBSET Tools
    /\ repeats \in 0 .. 2
    /\ {anchored, ungrounded, stalled} \subseteq BOOLEAN
    /\ reply.status \in {"none", "ANSWERED", "NEEDS_DATA", "UNAVAILABLE"}

(* No result is shown twice: whoever ran it, the model, the server when the *)
(* model tried to finish early, or the server at the end, every recorded    *)
(* call is another call.                                                    *)
NoToolRunTwice == \A i, j \in DOMAIN calls : calls[i] = calls[j] => i = j

(* An answer to a what-if question is called ANSWERED only if a tool        *)
(* computed the assumed change, and an answer about the future never is,    *)
(* on each of the paths that end a request.                                 *)
AnsweredIsComputed ==
    req.kind = "question" /\ reply.status = "ANSWERED" =>
        /\ req.hypothetical => Computed(calls)
        /\ ~req.forecast

(* Every request is answered, whatever the model does.                      *)
Answered == <>(reply # NoReply)

=============================================================================
