----------------------------- MODULE CaseReplay -----------------------------
(***************************************************************************)
(* The page of a past case (ops/views/cases.js, detailView) inside the     *)
(* shell: a list of steps with a slider, a playback timer, and for the     *)
(* Osong case a map and the replay of the control rule, both of which come *)
(* after the page is drawn.  timer, map and the slot of the rule belong to *)
(* the module, not to a page: what a page set going meets the page that    *)
(* stands there later.  The routing of the page that did it tells whose    *)
(* each is.                                                                *)
(*                                                                         *)
(* A map that a second one replaced has its layers added to that second    *)
(* one when it loads, which MapLibre refuses: that changes nothing here.   *)
(***************************************************************************)
EXTENDS OpsShell

CONSTANTS
    Cases,      \* the pages of a case
    Mapped,     \* those with a map and a rule: Osong
    Registry,   \* the path that tells whether its facility is there
    Steps       \* steps of a reconstruction

ASSUME ReplayAssumption ==
    /\ Mapped \subseteq Cases /\ Cases \subseteq Pages /\ Registry \in Paths /\ Steps \in Nat \ {0}
    /\ \A p, q \in Mapped : p = q     \* isOsong
    /\ \A p \in Mapped : /\ \A i \in DOMAIN Before[p] : Before[p][i] \cap Fresh = {}     \* only cached
                         /\ \A i \in DOMAIN After[p] : After[p][i] \cap Fresh = {}

VARIABLES
    at,         \* routing -> its page and the step that selected last (current)
    shownStep,  \* the step marked on the screen
    timer,      \* whose playback runs, or Nil
    map,        \* the map in the variable, or Nil: [by, on, loaded, step]
    leaked,     \* maps it held before and nobody removes
    awaiting,   \* pages that wait for the rule
    ruleKept,   \* the rule was answered, and is cached
    rule,       \* whose rule is in the slot on the screen, or Nil
    unread      \* pages that were left while they waited for the rule (history)

replayVars == <<at, shownStep, timer, map, leaked, awaiting, ruleKept, rule, unread>>
caseVars   == <<shellVars, replayVars>>

OnCase == screen.of \in Cases /\ screen.state = "page"

-----------------------------------------------------------------------------
(* Every change of the address cleans up: the listener of cases.js when it  *)
(* leads away from the cases, renderCases when it leads to one.  As a bug:  *)
(* the timer is forgotten.                                                  *)
GoTo(page, ticking) ==
    /\ Route(page)
    /\ timer' = ticking /\ map' = Nil
    /\ unread' = unread \cup awaiting
    /\ IF page = Board THEN UNCHANGED <<shownStep, rule>> ELSE shownStep' = 0 /\ rule' = Nil
    /\ UNCHANGED <<at, leaked, awaiting, ruleKept>>
LeaveRunning(page) == GoTo(page, timer)
Leave(page)        == GoTo(page, Nil)

(* select of page n: its own step, and the list, the slider and the map of  *)
(* whatever case is there.  That of a case without a map fails on a page    *)
(* that has one before it comes to the map.                                 *)
Select(n, page, i) ==
    /\ at' = [at EXCEPT ![n] = [of |-> page, step |-> i]]
    /\ shownStep' = IF OnCase' THEN i ELSE shownStep
    /\ map' = IF OnCase' /\ map # Nil /\ map.loaded /\ (screen'.of \in Mapped => page \in Mapped)
              THEN [map EXCEPT !.step = i] ELSE map
SelectAgain(n, i) == Select(n, at[n].of, i)

DrawPage(n) ==
    /\ Draw(n)
    /\ IF renders[n].of \in Cases THEN Select(n, renders[n].of, 0) ELSE shownStep' = 0 /\ UNCHANGED <<at, map>>
    /\ rule' = Nil
    /\ UNCHANGED <<timer, leaked, awaiting, ruleKept, unread>>
DrawErrorPage(n) ==
    /\ DrawError(n)
    /\ shownStep' = 0 /\ rule' = Nil
    /\ UNCHANGED <<at, timer, map, leaked, awaiting, ruleKept, unread>>

(* The registry came: the rule is asked for; one that is cached is put into *)
(* the slot at once, if there is one.                                       *)
NextOfPage(n) ==
    /\ NextSet(n)
    /\ LET ruled == renders[n].of \in Mapped /\ renders[n].shown /\ Registry \in got
       IN /\ awaiting' = IF ruled /\ ~ruleKept THEN awaiting \cup {n} ELSE awaiting
          /\ rule' = IF ruled /\ ruleKept /\ OnCase THEN n ELSE rule
    /\ UNCHANGED <<at, shownStep, timer, map, leaked, ruleKept, unread>>

(* The rule or its error, for all who wait: into the slot of any case.      *)
RuleComes(ok) ==
    /\ Settled /\ awaiting # {}
    /\ awaiting' = {} /\ ruleKept' = ok
    /\ rule' = IF OnCase THEN CHOOSE n \in awaiting : \A k \in awaiting : k <= n ELSE rule
    /\ UNCHANGED <<shellVars, at, shownStep, timer, map, leaked, unread>>

(* The layers came: a map is put on the page on the screen if that has a    *)
(* place for one.                                                           *)
MountMap(n) ==
    /\ map' = [by |-> n, on |-> screen.by, loaded |-> FALSE, step |-> -1]
    /\ leaked' = IF map = Nil THEN leaked ELSE leaked \cup {map}
FinishPage(n) ==
    /\ Finish(n)
    /\ IF renders[n].of \in Mapped /\ OnCase /\ screen.of \in Mapped THEN MountMap(n) ELSE UNCHANGED <<map, leaked>>
    /\ UNCHANGED <<at, shownStep, timer, awaiting, ruleKept, rule, unread>>

(* The load event of the map: select(current) of the page that mounted it.  *)
MapLoads ==
    /\ Settled /\ map # Nil /\ ~map.loaded
    /\ map' = [map EXCEPT !.loaded = TRUE, !.step = IF OnCase THEN at[map.by].step ELSE @]
    /\ shownStep' = IF OnCase THEN at[map.by].step ELSE shownStep
    /\ UNCHANGED <<shellVars, at, timer, leaked, awaiting, ruleKept, rule, unread>>

-----------------------------------------------------------------------------
(* The buttons of the page on the screen.                                   *)
InSight == Settled /\ hash # Board /\ OnCase
KeepsRest == UNCHANGED <<shellVars, leaked, awaiting, ruleKept, rule, unread>>

Manual(i) ==
    /\ InSight /\ KeepsRest
    /\ timer' = Nil
    /\ SelectAgain(screen.by, i)
Play ==
    /\ InSight /\ KeepsRest
    /\ IF timer # Nil THEN timer' = Nil /\ UNCHANGED <<at, shownStep, map>>
       ELSE /\ timer' = screen.by
            /\ IF at[screen.by].step >= Steps - 1 THEN SelectAgain(screen.by, 0)
               ELSE UNCHANGED <<at, shownStep, map>>

Tick ==
    /\ Settled /\ timer # Nil /\ KeepsRest
    /\ IF at[timer].step + 1 >= Steps THEN timer' = Nil /\ UNCHANGED <<at, shownStep, map>>
       ELSE SelectAgain(timer, at[timer].step + 1) /\ UNCHANGED timer

ReplayInit ==
    /\ ShellInit
    /\ at = [n \in 1 .. MaxNav |-> [of |-> Board, step |-> 0]] /\ shownStep = 0
    /\ timer = Nil /\ map = Nil /\ leaked = {}
    /\ awaiting = {} /\ ruleKept = FALSE /\ rule = Nil /\ unread = {}
ReplayNext ==
    \/ \E page \in Pages \cup {Board} : Leave(page)
    \/ \E f \in flight, ok \in BOOLEAN : Arrive(f, ok) /\ UNCHANGED replayVars
    \/ \E n \in DOMAIN renders : NextOfPage(n) \/ DrawPage(n) \/ FinishPage(n) \/ DrawErrorPage(n)
    \/ \E ok \in BOOLEAN : RuleComes(ok)
    \/ MapLoads \/ Play \/ Tick
    \/ \E i \in 0 .. Steps - 1 : Manual(i)

-----------------------------------------------------------------------------
(* Playback, map and rule are those of the case on the screen, and its      *)
(* list, its slider and its map show one step: "moved by hand, it stops",   *)
(* and leaving stops it.  The code looks for an element by name, not for    *)
(* its own page, so this holds of pages that were not left while something  *)
(* of theirs was on its way; one that was may start a playback on another   *)
(* page, put a second map over the first, and its rule under another case.  *)
ReplayIsOfThePage ==
    LET Mine(n) == n = screen.by \/ {n, screen.by} \cap left # {}
    IN /\ timer # Nil => Mine(timer)
       /\ map # Nil => Mine(map.on) /\ (map.by # map.on => map.by \in left)
       /\ leaked # {} => \E m \in leaked : m.by \in left
       /\ rule # Nil => OnCase /\ (Mine(rule) \/ rule \in unread)
       /\ left = {} /\ OnCase =>
             /\ shownStep = at[screen.by].step
             /\ map # Nil /\ map.loaded => map.step = shownStep
=============================================================================
