---------------------------- MODULE MCAgentLoop ----------------------------
(* The Agent and the pages it is asked from, reviewed one at a time: a      *)
(* request in the tool loop, the requests of the operator's pages, their    *)
(* conversations, the replay of a case, the older console's board and dock, *)
(* its what-if panels, and a conversation with its follow-up questions.     *)
(* What a review does not look at stands still: for the pages, an Agent     *)
(* that has answered.                                                       *)
EXTENDS AgentLoop, BrowserPages, FollowUps

VARIABLE review

(* Four calls of three tools; the hints of the questions that name no tool, *)
(* one analysis, and an analysis and an observation.                        *)

Call(tool, args) == [tool |-> tool, args |-> args]

MCTimeline == Call("get_reconstruction", "none")
Closure == Call("analyze_closure_timing", "written")
OtherClosure == Call("analyze_closure_timing", "milestone")
Rain == Call("get_observation_summary", "none")

MCKeys == {MCTimeline, Closure, OtherClosure, Rain}
MCComputing == {"analyze_closure_timing"}
MCHintLists == {<<>>, <<Closure>>, <<Closure, Rain>>}

(* Four pages that share requests: the entry does without either of its     *)
(* two, the facility's page has one that is never remembered, the Osong     *)
(* case goes on after it is drawn, and the other case has neither map nor   *)
(* rule.                                                                    *)
MCPages == {"home", "now", "osong", "seoul"}
MCPaths == {"registry", "history", "decisions", "osong", "seoul", "layers"}
MCBefore ==
    [home |-> <<{"registry", "history"}>>, now |-> <<{"registry"}, {"decisions"}>>,
     osong |-> <<{"osong"}>>, seoul |-> <<{"seoul"}>>]
MCAfter == [home |-> <<>>, now |-> <<>>, osong |-> <<{"registry"}, {"layers"}>>, seoul |-> <<>>]
MCOptional ==
    [home |-> {"registry", "history"}, now |-> {"decisions"}, osong |-> {"registry"}, seoul |-> {}]
MCChatOf == [home |-> "none", now |-> "now", osong |-> "osong", seoul |-> "seoul"]

Asked == [kind |-> "question", physical |-> FALSE, hypothetical |-> FALSE,
          forecast |-> FALSE, hints |-> <<>>]
AgentRests ==
    /\ req = Asked
    /\ steps = 1 /\ calls = <<>> /\ seen = {} /\ failedKeys = {} /\ failedTools = {}
    /\ repeats = 0 /\ anchored = FALSE /\ ungrounded = FALSE /\ stalled = FALSE
    /\ failures = {} /\ reply = [NoReply EXCEPT !.status = "NEEDS_DATA", !.text = "limitation"]

(* The questions and the calls of a conversation about each event: every    *)
(* way to state a value, after every kind of condition, for the conditions  *)
(* of one, two and no parts.                                                *)
SaysIn(words, said) == [words |-> words, said |-> said]
In(as, value) == [as |-> as, value |-> value]
Follow(words, said) == SaysIn({"follow"} \cup words, said)
MCSays ==
    [osong |->
        {SaysIn({"closure"}, {In("clock", 500)}), SaysIn({"block"}, {In("sooner", 10)}),
         SaysIn({"inflow"}, {In("later", 20)}), SaysIn({"closure", "inflow"}, {In("minutes", 20), In("clock", 500)}),
         SaysIn({"hand"}, {In("metres", 15)}), SaysIn({"hand", "rain"}, {In("metres_to", 15)}),
         SaysIn({"breach"}, {In("earlier", 30)}), SaysIn({"exposure"}, {In("metres", 5000)}),
         SaysIn({"works", "hand"}, {In("metres", 15)})}
        \cup {Follow({}, v) : v \in {{}, {In("clock", 510)}, {In("minutes", 30)}, {In("fraction", 5)},
                                     {In("earlier", 10)}, {In("sooner", 10)}, {In("metres", 12)}}}
        \cup {Follow({"closure"}, v) : v \in {{}, {In("clock", 510)}, {In("later", 10)}}}
        \cup {Follow({"damage"}, {}), Follow({"exposure"}, {}), Follow({"exposure"}, {In("metres", 800)})},
     seoul |->
        {SaysIn({"alert"}, {In("mm", 95)}), SaysIn({"alert"}, {In("mm", 95), In("clock", 770)}),
         SaysIn({"storage"}, {}), SaysIn({"storage", "sinwol"}, {}), SaysIn({"storage"}, {In("volume", 50000)}),
         SaysIn({"rain"}, {})}
        \cup {Follow({}, v) : v \in {{}, {In("mm", 100)}, {In("clock", 780)}, {In("volume", 60000)}}}
        \cup {Follow({"alert"}, {}), Follow({"storage"}, {In("mm", 100)}), Follow({"sinwol"}, {})},
     press |->
        {SaysIn({"evacuation_order"}, {In("clock", 1420)}), SaysIn({"landslide_alert", "alert"}, {In("sooner", 30)}),
         SaysIn({"evacuation_order"}, {}), SaysIn({"damage"}, {})}
        \cup {Follow(w, v) : w \in {{}, {"landslide_alert"}, {"evacuation_order"}},
                             v \in {{}, {In("clock", 1400)}, {In("sooner", 20)}, {In("later", 20)}}}]
MCActual == [landslide_alert |-> 480, evacuation_order |-> 0]
MCCalls ==
    [osong |-> {Tool("analyze_closure_timing", With1("closure_times", {t})) : t \in {453, 497, 500, 510}}
               \cup {Tool("analyze_inflow_delay", With1("delay_minutes", {20})), Tool("analyze_hand_threshold", None0),
                        Tool("get_observation_summary", With1("storage_m3", {1000}))},
     seoul |-> {Tool("analyze_storage_capture", [k \in {"storage_m3", "capacity_mm_per_hour"} |->
                        IF k = "storage_m3" THEN {400000} ELSE {100}]),
                Tool("analyze_alert_timing", With1("alert_times", {770}))},
     press |-> {Tool("analyze_response_timing", [k \in {"intervention_id", "action_times"} |->
                        IF k = "action_times" THEN {t} ELSE {"evacuation_order"}]) : t \in {1410, 1420}}]

ConsoleRests == time = None /\ tab = "now" /\ matched /\ chosen = 1

MCInit ==
    /\ review \in {"agent", "requests", "chat", "replay", "board", "panel", "talk"}
    /\ IF review = "agent" THEN Init ELSE AgentRests
    /\ ReplayInit
    /\ ConsoleInit
    /\ TalkInit
    /\ review \notin {"board", "panel"} => ConsoleRests
    /\ review = "board" => matched /\ chosen = 1
    /\ review = "panel" => time = None /\ tab = "now"
    /\ review # "talk" => about = "osong"

(* Of the pages the replay looks at the cases and the entry; the review of  *)
(* the requests leaves the panel alone, and that of the conversations the   *)
(* cases and the pages that fail.  A question from the page of a case takes *)
(* the place of one more page.                                              *)
Elsewhere == UNCHANGED <<review, vars, talkVars>>
Requests == ShellNext /\ hash' # "seoul" /\ asked' = 0
Chatting == ShellNext /\ hash' \in {"home", "now", "watch"} /\ ~\E n \in DOMAIN renders' : renders'[n].failed
Replaying == (ReplayNext \/ PanelNext) /\ hash' # "now" /\ nav' + asked' <= MaxNav

pageVars == <<caseVars, consoleVars>>
MCNext ==
    \/ review = "agent" /\ Next /\ UNCHANGED <<review, pageVars, talkVars>>
    \/ review = "requests" /\ Requests /\ Elsewhere /\ UNCHANGED <<replayVars, consoleVars>>
    \/ review = "chat" /\ Chatting /\ Elsewhere /\ UNCHANGED <<replayVars, consoleVars>>
    \/ review = "replay" /\ Replaying /\ Elsewhere /\ UNCHANGED consoleVars
    \/ review = "board" /\ ConsoleNext /\ Elsewhere /\ UNCHANGED <<caseVars, panelVars>>
    \/ review = "panel" /\ ConsoleNext /\ Elsewhere /\ UNCHANGED <<caseVars, boardVars, dockVars>>
    \/ review = "talk" /\ TalkNext /\ UNCHANGED <<review, vars, pageVars>>

(* The thread that serves a request keeps running (AgentLoop); the pages    *)
(* are left to the user and the network.                                    *)
MCSpec == MCInit /\ [][MCNext]_<<review, vars, pageVars, talkVars>> /\ WF_vars(Next)

(* "If a computing tool failed and no other computing tool succeeded, a     *)
(* fixed text is given in place of the model's answer" (WORKLOG.md): the    *)
(* answer of the model is not shown then.                                   *)
AnalysisFailureReplacesModel ==
    reply.text = "model" => failures \cap Computing = {} \/ Computed(calls)
=============================================================================
