----------------------------- MODULE Scorecard -----------------------------
(***************************************************************************)
(* The season scorecard of backend/app/season_scorecard.py: the episodes   *)
(* in which the control rule recommended a review, matched with what the   *)
(* operators recorded in the closure log.                                  *)
(***************************************************************************)
EXTENDS ControlRule

CONSTANTS
    None,
    RecordLists  \* what list_records can return: [kind, at], oldest first

ASSUME RecordListsAssumption ==
    \A l \in RecordLists : l \in Seq([kind : {"CLOSED", "NOT_CLOSED"}, at : Int])

VARIABLES
    records,     \* the season's closure records
    card         \* None, or the outcome per episode and of the other records

-----------------------------------------------------------------------------
(* The records near an episode.  MATCH_WINDOW is EPISODE_GAP.  As a bug:    *)
(* near its first recommendation only.                                      *)
NearStart(list, e) == {r \in DOMAIN list :
    episodes[e].start - EpisodeGap <= list[r].at /\ list[r].at <= episodes[e].start + EpisodeGap}
Near(list, e) == {r \in DOMAIN list :
    episodes[e].start - EpisodeGap <= list[r].at /\ list[r].at <= episodes[e].end + EpisodeGap}

Outcome(list, e) ==
    LET closed   == {r \in Near(list, e) : list[r].kind = "CLOSED"}
        declined == {r \in Near(list, e) : list[r].kind = "NOT_CLOSED"}
        row(outcome, linked, lead) == [outcome |-> outcome, linked |-> linked, lead |-> lead]
    IN CASE closed # {} -> row("hit", closed, list[Min(closed)].at - episodes[e].start)
         [] closed = {} /\ declined # {} -> row("not_closed", declined, None)
         [] OTHER -> row("unrecorded", {}, None)

(* match.                                                                   *)
Match(list) ==
    /\ pc = "done" /\ card = None
    /\ records' = list
    /\ LET rows == [e \in DOMAIN episodes |-> Outcome(list, e)]
           used == UNION {rows[e].linked : e \in DOMAIN rows}
       IN card' = [rows |-> rows,
                   other |-> [r \in DOMAIN list \ used |->
                                IF list[r].kind = "CLOSED" THEN "miss" ELSE "quiet"]]
    /\ UNCHANGED vars

ScoreInit == Init /\ records = <<>> /\ card = None
ScoreNext ==
    \/ Next /\ UNCHANGED <<records, card>>
    \/ \E list \in RecordLists : Match(list)
ScoreSpec == ScoreInit /\ [][ScoreNext]_<<vars, records, card>>

-----------------------------------------------------------------------------
(* A closure is a miss of the rule exactly when no single reading within    *)
(* MATCH_WINDOW of it made the rule recommend a review ("the facility was   *)
(* closed without any recommendation nearby"), however the recommendations  *)
(* were joined into episodes.                                               *)
MissIffUnseen ==
    card # None =>
        \A r \in {q \in DOMAIN records : records[q].kind = "CLOSED"} :
            r \in DOMAIN card.other <=>
                ~ \E j \in DOMAIN flags :
                    /\ flags[j]
                    /\ series[j].t - EpisodeGap <= records[r].at
                    /\ records[r].at <= series[j].t + EpisodeGap
=============================================================================
