----------------------------- MODULE MCLiveFeed -----------------------------
(* Two reviews of the live cache, each of its own initial states: two       *)
(* threads that pull while a third reads and the process restarts, with one *)
(* level; and the rows of gauges, one pull after the other, with levels on  *)
(* both sides of a stage, of a jump and of the planned flood.               *)
EXTENDS StationBoard, TLC

CONSTANTS t1, t2

VARIABLE review

MCThreads == {t1, t2}
MCLevels == {90, 120, 400}
OneLevel == [t : Time, wl : {90}] \cup {None}
Symmetry == Permutations(MCThreads)

Levels1(a, f) == [s \in {"attention", "planned_flood"} |-> IF s = "attention" THEN a ELSE f]
MCStations ==
    {[s \in {} |-> 0], [s \in {"severe"} |-> 120], [s \in {"planned_flood"} |-> 400], Levels1(100, 400), Levels1(130, 500)}
MCStored == [h \in {0, 4} |-> IF h = 0 THEN 90 ELSE 400]

MCInit ==
    /\ review \in {"cache", "rows"}
    /\ IF review = "cache" THEN Init ELSE StationInit
    /\ hourly = None /\ hourlyFetched = None /\ serving = FALSE
MCNext ==
    \/ review = "cache" /\ Next /\ UNCHANGED <<review, stationVars>>
       /\ IF snaps' = snaps \/ snaps' = <<>> THEN TRUE ELSE Last(snaps').obs \in OneLevel
    \/ review = "rows" /\ StationNext /\ UNCHANGED review
MCSpec == MCInit /\ [][MCNext]_<<review, vars, stationVars>>
=============================================================================
