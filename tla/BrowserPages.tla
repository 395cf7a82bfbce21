---------------------------- MODULE BrowserPages ----------------------------
(***************************************************************************)
(* What the user sees of the system: the operator's pages in one tab, with *)
(* the Agent's panel and the page of a past case, and the older console in *)
(* another.  The two share nothing in the browser.                         *)
(***************************************************************************)
EXTENDS CaseReplay, TwinConsole

browserVars == <<caseVars, consoleVars>>

(* The panel is asked while the pages and the replay of a case go on.       *)
PanelNext ==
    /\ \/ Type \/ Submit \/ Suggest
       \/ \E a \in asks, outcome \in {"answered", "unavailable", "failed"} : Replied(a, outcome)
    /\ UNCHANGED replayVars

BrowserInit == ReplayInit /\ ConsoleInit
BrowserNext ==
    \/ (ReplayNext \/ PanelNext) /\ UNCHANGED consoleVars
    \/ ConsoleNext /\ UNCHANGED caseVars
BrowserSpec == BrowserInit /\ [][BrowserNext]_browserVars

-----------------------------------------------------------------------------
(* In the pages a thing belongs to what is on the screen: a page and its    *)
(* panel to the tab, a step of a case to its rule and its map, what a board *)
(* or a panel of the console shows to the facility, the time and the values *)
(* chosen.                                                                  *)
PagesShowWhatIsAsked == ScreenIsOfTheTab /\ ReplayIsOfThePage /\ ConsoleShowsWhatIsChosen
=============================================================================
