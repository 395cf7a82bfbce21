------------------------- MODULE MCHistoryPipeline -------------------------
(* Two stations and two years of two hours each; the last hour came without *)
(* a value and one version of the policy quarantines the hour before.  At   *)
(* most two scripts run at the same time.  The properties relate the        *)
(* scripts of three studies, which are explored one at a time.              *)
EXTENDS HistoryPipeline, TLC

CONSTANTS a, b,
          Most     \* per study, the scripts that are started

VARIABLE study

MCStations == {a, b}
MCYears    == {1, 2}
MCHoursOf  == [y \in MCYears |-> {2 * y - 1, 2 * y}]
MCBlank    == {4}
MCPolicies == {{}, {3}}
MCLags     == {0, 1}
MCLeads    == {1}
MCMost     == [manifest |-> 3, events |-> 4, training |-> 3]
Symmetry   == Permutations(MCStations)

Running(job) == IF job = Off THEN 0 ELSE 1
Within ==
    /\ Running(fetch) + Running(qc) + Running(audit) + Running(count) + Running(train) <= 2
    /\ scripts <= Most[study]
    /\ fetch # Off /\ fetch.at = "raw" => fetch.years # {2}
    /\ study = "manifest" => audit = Off /\ count = Off /\ train = Off
    /\ study = "events" => qc = Off /\ train = Off
    /\ study = "training" => qc = Off /\ count = Off /\ \A f \in {fetch, audit} : f # Off => served = Asleep
    /\ study # "training" => served = Asleep

(* The policy is edited at most once; of the events, after an audit.        *)
EditOnce == policy' # policy => policy = {} /\ study # "manifest" /\ (study = "events" => report # None)

MCNext == PipelineNext /\ UNCHANGED study /\ Within' /\ EditOnce
MCInit == PipelineInit /\ policy = {} /\ study \in DOMAIN Most
MCSpec == MCInit /\ [][MCNext]_<<pipelineVars, study>>
=============================================================================
