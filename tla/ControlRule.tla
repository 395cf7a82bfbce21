---------------------------- MODULE ControlRule ----------------------------
(***************************************************************************)
(* The closure-review rule of backend/app/twin.py, which the code has      *)
(* twice: assess looks at the window of one moment, the live one or a      *)
(* replayed one, and _review_flags replays the rule over seasons of stored *)
(* readings with two pointers that only move forward.  _review_episodes    *)
(* then joins the flagged readings, and _episode_quality says whether the  *)
(* readings behind an episode need a look.                                 *)
(*                                                                         *)
(* A step of a loop is an action.  Times are minutes and levels are        *)
(* integers, so the rate is compared without a division; the code divides  *)
(* the same floats in both places.                                         *)
(***************************************************************************)
EXTENDS Integers, Sequences, FiniteSets, FiniteSetsExt

CONSTANTS
    Inputs,      \* pairs: the stored history, and what a review takes of it
    Rules,       \* stage_floor, lead_threshold_min and rate_window_min
    Level,       \* levels_m: attention, advisory, warning, planned_flood
    Window,      \* ASSESS_WINDOW, 120 minutes
    EpisodeGap,  \* EPISODE_GAP, 6 hours
    Slot,        \* HISTORY_STEP, 10 minutes
    StepReview   \* HISTORY_STEP_REVIEW_M

Stages == 0 .. 4          \* STAGE_ORDER
Planned == 4

Sorted(s) ==
    /\ s \in Seq([t : Int, wl : Int])
    /\ \A i, j \in DOMAIN s : i < j => s[i].t < s[j].t

(* _history_series, sorted, one reading per slot; _review_series (or a      *)
(* season of it) leaves out what lies in a quarantine.  The levels of every *)
(* registered facility rise with the stage, which the registry does not     *)
(* check.                                                                   *)
ASSUME InputsAssumption == \A i \in Inputs : Sorted(i.stored) /\ Sorted(i.series)
ASSUME RulesAssumption == Rules \subseteq [floor : {2, 3}, lead : Nat, rate : Nat]
ASSUME LevelAssumption ==
    /\ Level \in [1 .. 4 -> Int]
    /\ \A p, q \in 1 .. 4 : p <= q => Level[p] <= Level[q]
ASSUME PeriodsAssumption ==
    /\ Window \in Nat /\ EpisodeGap \in Nat
    /\ Slot \in Nat \ {0} /\ StepReview \in Nat

VARIABLES
    stored, series, rule,
    pc,          \* the loop that runs: "flags", "episodes", or "done"
    lo, cand,    \* _review_flags: first row of the window, last row a rate window old
    flags,       \* per row taken: the rule recommends a closure review
    taken,       \* rows _review_episodes has taken
    episodes     \* [start, end, rows, peak]; the current one is the last

vars == <<stored, series, rule, pc, lo, cand, flags, taken, episodes>>

-----------------------------------------------------------------------------
(* assess, for the row j as the latest reading.                             *)

(* classify_stage: the last stage whose level is reached.                   *)
Stage(wl) == CHOOSE s \in Stages : /\ s = 0 \/ wl >= Level[s]
                                   /\ \A q \in s + 1 .. 4 : wl < Level[q]

WindowAt(j) == {k \in DOMAIN series :
                   series[j].t - Window <= series[k].t /\ series[k].t <= series[j].t}

BaseAt(j) ==
    LET earlier == {k \in WindowAt(j) : series[k].t <= series[j].t - rule.rate}
    IN IF earlier # {} THEN CHOOSE k \in earlier : \A m \in earlier : m <= k
                       ELSE CHOOSE k \in WindowAt(j) : \A m \in WindowAt(j) : k <= m

Rise(b, j) == series[j].wl - series[b].wl

(* minutes_to_pfh <= lead_threshold_min, at the rate from row b to row j.   *)
Soon(b, j) ==
    /\ Rise(b, j) > 0
    /\ (Level[Planned] - series[j].wl) * (series[j].t - series[b].t) <= rule.lead * Rise(b, j)

Review(j) ==
    \/ Stage(series[j].wl) = Planned
    \/ Stage(series[j].wl) >= rule.floor /\ Soon(BaseAt(j), j)

-----------------------------------------------------------------------------
(* _review_flags.                                                           *)

Row == Len(flags) + 1

(* As a bug: the window is added, not taken off.                            *)
OldSigned(k) == series[k].t < series[Row].t + Window
Old(k) == series[k].t < series[Row].t - Window

(* As a bug: a base older than the window is used, which a gap leaves.      *)
BaseOfAnyAge == IF cand > 0 THEN cand ELSE lo
Base == IF cand >= lo THEN cand ELSE lo

Flag ==
    \/ series[Row].wl >= Level[Planned]
    \/ series[Row].wl >= Level[rule.floor] /\ Base # Row /\ Soon(Base, Row)

Scanning == pc = "flags" /\ Row <= Len(series)

BaseFollows == cand + 1 <= Row /\ series[cand + 1].t <= series[Row].t - rule.rate

AdvanceWindow ==
    /\ Scanning /\ Old(lo)
    /\ lo' = lo + 1
    /\ UNCHANGED <<stored, series, rule, pc, cand, flags, taken, episodes>>

AdvanceBase ==
    /\ Scanning /\ ~Old(lo) /\ BaseFollows
    /\ cand' = cand + 1
    /\ UNCHANGED <<stored, series, rule, pc, lo, flags, taken, episodes>>

FlagRow ==
    /\ Scanning /\ ~Old(lo) /\ ~BaseFollows
    /\ flags' = Append(flags, Flag)
    /\ UNCHANGED <<stored, series, rule, pc, lo, cand, taken, episodes>>

FlagsDone ==
    /\ pc = "flags" /\ Row > Len(series)
    /\ pc' = "episodes"
    /\ UNCHANGED <<stored, series, rule, lo, cand, flags, taken, episodes>>

-----------------------------------------------------------------------------
(* _review_episodes.                                                        *)

Current == Len(episodes)

Joins(r) == Current > 0 /\ r.t - episodes[Current].end <= EpisodeGap
Longer(e, r) == [start |-> e.start, end |-> r.t, rows |-> e.rows + 1,
                 peak |-> IF r.wl > e.peak THEN r.wl ELSE e.peak]

TakeRow ==
    /\ pc = "episodes" /\ taken < Len(series)
    /\ taken' = taken + 1
    /\ LET r == series[taken + 1]
       IN episodes' =
            IF ~flags[taken + 1] THEN episodes
            ELSE IF Joins(r)
              THEN [episodes EXCEPT ![Current] = Longer(@, r)]
              ELSE Append(episodes, [start |-> r.t, end |-> r.t, rows |-> 1, peak |-> r.wl])
    /\ UNCHANGED <<stored, series, rule, pc, lo, cand, flags>>

EpisodesDone ==
    /\ pc = "episodes" /\ taken = Len(series)
    /\ pc' = "done"
    /\ UNCHANGED <<stored, series, rule, lo, cand, flags, taken, episodes>>

Given == \E i \in Inputs : stored = i.stored /\ series = i.series

Init ==
    /\ Given /\ rule \in Rules
    /\ pc = "flags"
    /\ lo = 1 /\ cand = 0 /\ flags = <<>>
    /\ taken = 0 /\ episodes = <<>>

Next == AdvanceWindow \/ AdvanceBase \/ FlagRow \/ FlagsDone \/ TakeRow \/ EpisodesDone

Spec == Init /\ [][Next]_vars

-----------------------------------------------------------------------------
(* _series_quality, over the stored history: what its readings j and j + 1  *)
(* are flagged for.                                                         *)
Missing(j) == (stored[j + 1].t - stored[j].t) \div Slot > 1
Jump(j) == ~Missing(j) /\ LET d == stored[j + 1].wl - stored[j].wl
                          IN d >= StepReview \/ -d >= StepReview

Pairs == {j \in DOMAIN stored : j + 1 \in DOMAIN stored}

(* _episode_quality, quality_review_required.  As a bug: only the readings  *)
(* of the episode itself are looked at.                                     *)
NeedsLookWithin(e) ==
    \E j \in Pairs :
        \/ Jump(j) /\ e.start <= stored[j + 1].t /\ stored[j + 1].t <= e.end
        \/ Missing(j) /\ stored[j].t < e.end /\ stored[j + 1].t > e.start
NeedsLook(e) ==
    \E j \in Pairs :
        \/ Jump(j) /\ e.start - Window <= stored[j + 1].t /\ stored[j + 1].t <= e.end
        \/ Missing(j) /\ stored[j].t < e.end /\ stored[j + 1].t > e.start - Window

-----------------------------------------------------------------------------
TypeOK ==
    /\ Sorted(stored) /\ Sorted(series) /\ rule \in Rules
    /\ pc \in {"flags", "episodes", "done"}
    /\ flags \in Seq(BOOLEAN) /\ Len(flags) <= Len(series)
    /\ lo \in 1 .. Len(series) + 1 /\ lo <= Row
    /\ cand \in 0 .. Len(series) /\ cand <= Row
    /\ taken \in 0 .. Len(series)
    /\ episodes \in Seq([start : Int, end : Int, rows : Nat, peak : Int])

(* The scan over the seasons recommends a review at exactly the readings    *)
(* where assess would have, with gaps, at the edges of both windows and for *)
(* every rule of the sweep ("same 120-minute window, base row and rule").   *)
FlagsAgree == \A j \in DOMAIN flags : flags[j] <=> Review(j)

(* The episodes are the runs of recommendations that no break of more than  *)
(* EPISODE_GAP interrupts, each with its count and highest level: none is   *)
(* split, none is joined to another.                                        *)
EpisodesAreRuns ==
    LET R == {j \in 1 .. taken : flags[j]}
        Opens(j) == \A i \in R : i < j => series[j].t - series[i].t > EpisodeGap
        Closes(j) == \A i \in R : i > j => series[i].t - series[j].t > EpisodeGap
        RunOf(a) == {j \in R : j >= a /\ \A i \in R : a < i /\ i <= j => ~Opens(i)}
    IN {episodes[e] : e \in DOMAIN episodes} =
         {[start |-> series[a].t,
           end   |-> series[CHOOSE z \in RunOf(a) : Closes(z)].t,
           rows  |-> Cardinality(RunOf(a)),
           peak  |-> Max({series[j].wl : j \in RunOf(a)})] : a \in {j \in R : Opens(j)}}

(* A recommendation belongs to an episode that is marked for a look at its  *)
(* data when the stored history has missing slots or a sudden step between  *)
(* its base row and its reading, quarantined readings included and the      *)
(* first recommendation of the episode too.                                 *)
DoubtfulEpisodesMarked ==
    pc = "done" =>
        \A j \in DOMAIN series, e \in DOMAIN episodes :
            /\ flags[j]
            /\ episodes[e].start <= series[j].t /\ series[j].t <= episodes[e].end
            /\ \E i \in Pairs : /\ Missing(i) \/ Jump(i)
                                /\ series[BaseAt(j)].t <= stored[i].t
                                /\ stored[i + 1].t <= series[j].t
            => NeedsLook(episodes[e])

(* The episodes of the review tell the season: none is split or joined, and *)
(* none that rests on doubtful data passes for a clean one.                 *)
EpisodesTellTheSeason == EpisodesAreRuns /\ DoubtfulEpisodesMarked
=============================================================================
