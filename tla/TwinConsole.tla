---------------------------- MODULE TwinConsole ----------------------------
(***************************************************************************)
(* Three parts of the older console (src/dark): the facility board         *)
(* (TwinBoard.tsx), the Agent's dock (AgentDock in DarkConsole.tsx) and a  *)
(* what-if panel (the closure and HAND panels of DarkConsole.tsx and the   *)
(* panels of UrbanConsole.tsx and TimelineConsole.tsx).  Each is a React   *)
(* effect that asks the server for what is chosen, and runs again when     *)
(* that changes: its cleanup marks what it asked before as out of date,    *)
(* and a marked reply does nothing, so it is left out here.  The poll of   *)
(* the live status is the one reply nobody marks.                          *)
(***************************************************************************)
EXTENDS Integers, Sequences

CONSTANTS
    Tabs, Times,     \* of the board; no time (None) is now
    Values,          \* of the what-if panel
    None,
    MaxSelections, MaxPolls, MaxQuestions

ASSUME ConsoleAssumption ==
    /\ None \notin Nat \cup Times \cup Values /\ Tabs # {} /\ Values # {}
    /\ {MaxSelections, MaxPolls, MaxQuestions} \subseteq Nat

VARIABLES
    time, tab,   \* what the board is asked to show
    sel,         \* how often that changed
    since,       \* the change that chose the time (history)
    status,      \* None or what is shown: [time, mode, sent], sent by a poll after a change
    loads,       \* requests of the board on their way: [time, tab]
    polls,       \* polls on their way: the number of changes when they were sent
    polled,
    dock,        \* the scope of the dock: the whole event or the facility, at a time
    turns,       \* its turns: [dock, knew]
    pending,     \* pendingRequest: the number of a question, or None
    busy,
    questions,   \* questions on their way: [no, dock, knew]
    questioned,
    matched,     \* the panel shows a result only under the value it is for
    chosen, due, running, result, failed   \* of the panel: calls that wait, and run

boardVars   == <<time, tab, sel, since, status, loads, polls, polled>>
dockVars    == <<dock, turns, pending, busy, questions, questioned>>
panelVars   == <<matched, chosen, due, running, result, failed>>
consoleVars == <<boardVars, dockVars, panelVars>>

Docks == [over : {"event", "facility"}, time : Times \cup {None}]

-----------------------------------------------------------------------------
(* The effect on [facilityId, at, tab]: the status is cleared and loaded,   *)
(* what was asked before is cancelled.                                      *)
Load(at, on) == loads' = {[time |-> at, tab |-> on]}
Show(at, on) ==
    /\ sel < MaxSelections /\ sel' = sel + 1
    /\ time' = at /\ tab' = on
    /\ status' = None
    /\ Load(at, on)
    /\ UNCHANGED <<polls, polled, panelVars>>

(* The effect on the scope: the conversation starts again, and the question *)
(* on its way is no longer the pending one.  As a bug: it still is.         *)
ScopeOnly(to) ==
    /\ dock' = to /\ turns' = <<>> /\ busy' = FALSE
    /\ UNCHANGED <<pending, questions, questioned>>
Scope(to) ==
    /\ dock' = to /\ turns' = <<>> /\ busy' = FALSE /\ pending' = None
    /\ UNCHANGED <<questions, questioned>>

(* The time of the address or of the frame; the dock follows it.            *)
ChooseTime(at) ==
    /\ at # time
    /\ Show(at, tab)
    /\ since' = sel'
    /\ IF dock.time = at THEN UNCHANGED dockVars ELSE Scope([dock EXCEPT !.time = at])
ChooseTab(on) ==
    /\ on # tab
    /\ Show(time, on)
    /\ UNCHANGED <<since, dockVars>>

(* The facilities arrive, or the user picks a scope or a time in the dock.  *)
ChooseScope(to) == to # dock /\ Scope(to) /\ UNCHANGED <<boardVars, panelVars>>

-----------------------------------------------------------------------------
(* Live or, without a key of the feed, replay; a time is always replay.     *)
ModesAt(at) == IF at = None THEN {"live", "replay"} ELSE {"replay"}

Loaded(l, mode) ==
    /\ loads' = loads \ {l}
    /\ status' = [time |-> l.time, mode |-> mode, sent |-> None]
    /\ UNCHANGED <<time, tab, sel, since, polls, polled, dockVars, panelVars>>
LoadFailed(l) ==
    /\ loads' = loads \ {l}
    /\ UNCHANGED <<time, tab, sel, since, status, polls, polled, dockVars, panelVars>>

(* Every five minutes while the live status is shown.                       *)
Poll ==
    /\ time = None /\ status # None /\ status.mode = "live" /\ polled < MaxPolls
    /\ polls' = polls \cup {sel} /\ polled' = polled + 1
    /\ UNCHANGED <<time, tab, sel, since, status, loads, dockVars, panelVars>>
Polled(p, mode) ==
    /\ polls' = polls \ {p}
    /\ status' = [time |-> None, mode |-> mode, sent |-> p]
    /\ UNCHANGED <<time, tab, sel, since, loads, polled, dockVars, panelVars>>
PollFailed(p) ==
    /\ polls' = polls \ {p}
    /\ UNCHANGED <<time, tab, sel, since, status, loads, polled, dockVars, panelVars>>

-----------------------------------------------------------------------------
(* ask, and its reply: a marked one is dropped, one of another event is an  *)
(* error, and so is a failure.                                              *)
DockAsk ==
    /\ ~busy /\ pending = None /\ questioned < MaxQuestions
    /\ questioned' = questioned + 1 /\ pending' = questioned + 1 /\ busy' = TRUE
    /\ questions' = questions \cup {[no |-> questioned + 1, dock |-> dock, knew |-> Len(turns)]}
    /\ UNCHANGED <<dock, turns, boardVars, panelVars>>
DockReplied(q, ok) ==
    /\ questions' = questions \ {q}
    /\ IF pending # q.no THEN UNCHANGED <<turns, pending, busy>>
       ELSE /\ turns' = IF ok THEN Append(turns, [dock |-> q.dock, knew |-> q.knew]) ELSE turns
            /\ pending' = None /\ busy' = FALSE
    /\ UNCHANGED <<dock, questioned, boardVars, panelVars>>

-----------------------------------------------------------------------------
(* A value is chosen; the call waits a moment, then goes.  The panels that  *)
(* show any result clear their error at once, the others when one arrives.  *)
Choose(v) ==
    /\ v # chosen
    /\ chosen' = v /\ due' = TRUE /\ running' = {}
    /\ failed' = (matched /\ failed)
    /\ UNCHANGED <<matched, result, boardVars, dockVars>>
TimerFires ==
    /\ due /\ due' = FALSE
    /\ running' = running \cup {chosen}
    /\ UNCHANGED <<matched, chosen, result, failed, boardVars, dockVars>>
Called(c, ok) ==
    /\ running' = running \ {c}
    /\ result' = IF ok THEN c ELSE result
    /\ failed' = ~ok
    /\ UNCHANGED <<matched, chosen, due, boardVars, dockVars>>

ConsoleInit ==
    /\ time \in Times \cup {None} /\ tab \in Tabs /\ sel = 0 /\ since = 0
    /\ status = None /\ loads = {[time |-> time, tab |-> tab]} /\ polls = {} /\ polled = 0
    /\ dock = [over |-> "event", time |-> time] /\ turns = <<>>
    /\ pending = None /\ busy = FALSE /\ questions = {} /\ questioned = 0
    /\ matched \in BOOLEAN /\ chosen \in Values /\ due = TRUE /\ running = {}
    /\ result = None /\ failed = FALSE
ConsoleNext ==
    \/ \E at \in Times \cup {None} : ChooseTime(at)
    \/ \E on \in Tabs : ChooseTab(on)
    \/ \E to \in Docks : ChooseScope(to)
    \/ \E l \in loads : LoadFailed(l) \/ \E mode \in ModesAt(l.time) : Loaded(l, mode)
    \/ Poll
    \/ \E p \in polls : PollFailed(p) \/ \E mode \in ModesAt(None) : Polled(p, mode)
    \/ DockAsk
    \/ \E q \in questions, ok \in BOOLEAN : DockReplied(q, ok)
    \/ \E v \in Values : Choose(v)
    \/ TimerFires
    \/ \E c \in running, ok \in BOOLEAN : Called(c, ok)
ConsoleSpec == ConsoleInit /\ [][ConsoleNext]_consoleVars

-----------------------------------------------------------------------------
(* Whatever order the replies come in, the board shows the status of the    *)
(* time that is chosen, unless it is the live status of a poll sent before  *)
(* that was; every turn of the dock was asked in the scope that is shown    *)
(* and with all the turns before it, and the dock waits exactly while its   *)
(* question is on its way; and a panel that waits for nothing shows the     *)
(* result of the value that is chosen, or an error.                         *)
ConsoleShowsWhatIsChosen ==
    /\ status # None => status.time = time \/ (status.sent # None /\ status.sent < since)
    /\ \A i \in DOMAIN turns : turns[i] = [dock |-> dock, knew |-> i - 1]
    /\ busy <=> pending # None
    /\ busy <=> \E q \in questions : q = [no |-> pending, dock |-> dock, knew |-> Len(turns)]
    /\ ~due /\ running = {} /\ ~failed => result = chosen
=============================================================================
