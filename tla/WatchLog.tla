------------------------------ MODULE WatchLog ------------------------------
(***************************************************************************)
(* The record of the live board (backend/app/watch_log.py): one line per   *)
(* snapshot, appended by the recorder, and the season board that reads the *)
(* lines of a year back and joins them into episodes.                      *)
(***************************************************************************)
EXTENDS Integers, Sequences, SequencesExt

CONSTANTS
    Recorded,   \* the facilities of the board
    Interval,   \* INTERVAL_SECONDS (10 min)
    Gap,        \* GAP_MINUTES (30 min)
    Torn        \* a line of the file that does not parse

ASSUME WatchLogAssumption == Interval \in Nat \ {0} /\ Gap \in Nat /\ Interval <= Gap

VARIABLES
    lines,      \* YYYY.jsonl
    openEnd     \* the file does not end in a newline: a write was cut off

logVars == <<lines, openEnd>>

(* A snapshot: when, and per facility its level and whether a forecast was  *)
(* in force; a facility that is not stored stands at level 0.               *)
Snapshot == [at : Int, level : [Recorded -> 0 .. 4], official : [Recorded -> BOOLEAN]]

LogInit == lines = <<>> /\ openEnd = FALSE

(* record_once: the line, behind whatever a cut-off write has left, which   *)
(* glues to it.                                                             *)
AppendLine(snap) ==
    /\ lines' = IF openEnd THEN lines ELSE Append(lines, snap)
    /\ openEnd' = FALSE

(* A write that the end of the process cuts off.                            *)
TearLine ==
    /\ lines' = IF openEnd THEN lines ELSE Append(lines, Torn)
    /\ openEnd' = TRUE

-----------------------------------------------------------------------------
(* season_board.  _snapshots raises on a line that does not parse, and the  *)
(* season has no board.                                                     *)
Readable == \A i \in DOMAIN lines : lines[i] # Torn

Calm == [minutes |-> 0, episodes |-> <<>>]

(* A snapshot of one facility.  As bugs: the flag of an episode is that of  *)
(* its first snapshot; a break of exactly Gap splits it.                      *)
OpenEpisode(row, snap, f) ==
    [row EXCEPT !.episodes = Append(@, [start |-> snap.at, end |-> snap.at,
                                        official |-> snap.official[f]])]
ExtendAsFirst(row, snap, f) ==
    LET e == Last(row.episodes)
    IN [row EXCEPT !.episodes = Front(@) \o
            <<[start |-> e.start, end |-> snap.at, official |-> e.official]>>]
Extend(row, snap, f) ==
    LET e == Last(row.episodes)
    IN [row EXCEPT !.episodes = Front(@) \o
            <<[start |-> e.start, end |-> snap.at, official |-> e.official \/ snap.official[f]]>>]

Joins(row, snap) == row.episodes # <<>> /\ snap.at - Last(row.episodes).end <= Gap

(* One more interval at a level; what a snapshot makes of a row.            *)
Clocked(row) == [row EXCEPT !.minutes = @ + Interval]
Counted(row, snap, f) ==
    IF snap.level[f] = 0 THEN row
    ELSE IF snap.level[f] = 1 THEN Clocked(row)
    ELSE IF Joins(row, snap) THEN Extend(Clocked(row), snap, f) ELSE OpenEpisode(Clocked(row), snap, f)

(* The row of a facility over all the snapshots of a year.                  *)
SeasonOf(snapshots, f) ==
    LET row[i \in 0 .. Len(snapshots)] ==
            IF i = 0 THEN Calm ELSE Counted(row[i - 1], snapshots[i], f)
    IN row[Len(snapshots)]
SeasonRow(f) == SeasonOf(lines, f)
=============================================================================
