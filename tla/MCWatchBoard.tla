---------------------------- MODULE MCWatchBoard ----------------------------
(* The recorder, and two other callers of the board; a riverside facility   *)
(* with a gauge, which reads both feeds.  A tick is five minutes.  What     *)
(* disturbs the recorder comes one at a time: a restart or a request, while *)
(* only the forecasts have a key.  Both feeds are read by the recorder      *)
(* alone, or by two requests that overlap while the recorder is off.  A     *)
(* source without a key issues nothing.                                     *)
EXTENDS WatchBoard

CONSTANTS
    recorder1, u1, u2,
    DisturbedClock   \* bound on the time with a disturbance

MCCallers == {recorder1, u1, u2}
MCRecorded ==
    {[tier |-> "watch", group |-> "riverside", evidence |-> FALSE, duplicate |-> FALSE, gauge |-> TRUE]}
MCReading(stage) == [stage |-> stage, quality |-> "fresh", rain |-> NoData]
MCReadings == {MCReading("normal"), MCReading("advisory")}

Within ==
    /\ On => /\ pc[u2] = "idle"
             /\ restarts + requests <= IF keys = {"HRFCO"} THEN 1 ELSE 0
    /\ On => Len(commands) + Len(alerts) <= 1
    /\ ~On => restarts = 0 /\ requests + Len(commands) + Len(alerts) <= 3 /\ clock <= DisturbedClock
    /\ On /\ restarts + requests > 0 => clock <= DisturbedClock
    /\ (alerts # <<>> => "KMA" \in keys) /\ (commands # <<>> => "HRFCO" \in keys)

MCNext == BoardNext /\ Within'
MCSpec == BoardInit /\ [][MCNext]_boardVars /\ BoardFairness
=============================================================================
