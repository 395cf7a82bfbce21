----------------------------- MODULE RulesProofs ------------------------------
(***************************************************************************)
(* What the rules of the server compute, for every input: the control rule *)
(* of a facility with its episodes and the season's scorecard, the rows of *)
(* the facility board, the rain totals, plans and what-ifs.                *)
(***************************************************************************)
EXTENDS Scorecard, RiskReview, RainTotals, IntentPlan, SieveProofs

-----------------------------------------------------------------------------
(***************************************************************************)
(* The scan over the seasons recommends a review at exactly the readings   *)
(* where assess would have, for every series, rule and set of levels.      *)
(*                                                                         *)
(* The invariant says what the pointers have passed: rows before lo have   *)
(* left the window of the row at hand, rows up to cand are a rate window   *)
(* old.  When neither can move, what they have not passed is known too.    *)
(***************************************************************************)

(* The pointers never pass a row that the row at hand still needs.          *)
PointersBehind ==
    Row <= Len(series) =>
        /\ \A k \in 1 .. lo - 1 : series[k].t < series[Row].t - Window
        /\ \A k \in 1 .. cand : series[k].t <= series[Row].t - rule.rate

RuleInv == TypeOK /\ PointersBehind /\ FlagsAgree

-----------------------------------------------------------------------------
(* Sequences over any set: what is read and written stays in it.            *)
LEMMA SeqElement ==
    ASSUME NEW S, NEW s \in Seq(S), NEW i \in 1 .. Len(s)
    PROVE  s[i] \in S
OBVIOUS

LEMMA SeqUpdate ==
    ASSUME NEW S, NEW s \in Seq(S), NEW i \in 1 .. Len(s), NEW v \in S
    PROVE  [s EXCEPT ![i] = v] \in Seq(S)
OBVIOUS

LEMMA SeqAppend ==
    ASSUME NEW S, NEW s \in Seq(S), NEW v \in S
    PROVE  Append(s, v) \in Seq(S)
OBVIOUS

LEMMA SortedSeries ==
    ASSUME Sorted(series)
    PROVE  /\ series \in Seq([t : Int, wl : Int])
           /\ Len(series) \in Nat
           /\ DOMAIN series = 1 .. Len(series)
           /\ \A i \in 1 .. Len(series) : series[i].t \in Int /\ series[i].wl \in Int
           /\ \A i, j \in 1 .. Len(series) : i < j => series[i].t < series[j].t
<1>1. series \in Seq([t : Int, wl : Int]) BY DEF Sorted
<1>2. \A i \in 1 .. Len(series) : series[i] \in [t : Int, wl : Int]
  BY <1>1, SeqElement
<1>3. DOMAIN series = 1 .. Len(series) /\ Len(series) \in Nat BY <1>1
<1>4. \A i, j \in 1 .. Len(series) : i < j => series[i].t < series[j].t
  BY <1>3 DEF Sorted
<1> QED BY <1>1, <1>2, <1>3, <1>4

LEMMA RuleTyped ==
    ASSUME rule \in Rules
    PROVE  rule.floor \in {2, 3} /\ rule.lead \in Nat /\ rule.rate \in Nat
BY RulesAssumption

(* classify_stage returns the last stage reached, whatever the level.       *)
LEMMA StageReached ==
    ASSUME NEW wl \in Int
    PROVE  /\ Stage(wl) \in Stages
           /\ Stage(wl) = 0 \/ wl >= Level[Stage(wl)]
           /\ \A q \in Stage(wl) + 1 .. 4 : wl < Level[q]
<1> DEFINE IsStage(s) == (s = 0 \/ wl >= Level[s]) /\ \A q \in s + 1 .. 4 : wl < Level[q]
<1>1. \A q \in 1 .. 4 : Level[q] \in Int BY LevelAssumption
<1>2. \E s \in Stages : IsStage(s)
  <2>1. CASE wl >= Level[4] BY <2>1, <1>1, IsStage(4) DEF Stages
  <2>2. CASE wl < Level[4] /\ wl >= Level[3]
    <3>1. \A q \in 3 + 1 .. 4 : q = 4 OBVIOUS
    <3> QED BY <2>2, <3>1 DEF Stages
  <2>3. CASE wl < Level[4] /\ wl < Level[3] /\ wl >= Level[2]
    <3>1. \A q \in 2 + 1 .. 4 : q = 3 \/ q = 4 OBVIOUS
    <3> QED BY <2>3, <3>1 DEF Stages
  <2>4. CASE wl < Level[4] /\ wl < Level[3] /\ wl < Level[2] /\ wl >= Level[1]
    <3>1. \A q \in 1 + 1 .. 4 : q = 2 \/ q = 3 \/ q = 4 OBVIOUS
    <3> QED BY <2>4, <3>1 DEF Stages
  <2>5. CASE wl < Level[4] /\ wl < Level[3] /\ wl < Level[2] /\ wl < Level[1]
    <3>1. \A q \in 0 + 1 .. 4 : q = 1 \/ q = 2 \/ q = 3 \/ q = 4 OBVIOUS
    <3> QED BY <2>5, <3>1 DEF Stages
  <2> QED BY <1>1, <2>1, <2>2, <2>3, <2>4, <2>5
<1>3. IsStage(Stage(wl)) /\ Stage(wl) \in Stages
  <2>1. Stage(wl) = CHOOSE s \in Stages : IsStage(s) BY DEF Stage
  <2> QED BY <1>2, <2>1
<1> QED BY <1>3

(* With levels that rise, a stage is reached when its level is.             *)
LEMMA StageByLevel ==
    ASSUME NEW wl \in Int, NEW p \in 1 .. 4
    PROVE  Stage(wl) >= p <=> wl >= Level[p]
<1> DEFINE s == Stage(wl)
<1>1. /\ s \in 0 .. 4
      /\ s = 0 \/ wl >= Level[s]
      /\ \A q \in s + 1 .. 4 : wl < Level[q]
  BY StageReached DEF Stages
<1>2. Level[p] \in Int /\ (s # 0 => Level[s] \in Int) BY <1>1, LevelAssumption
<1>3. CASE s >= p
  <2>1. Level[p] <= Level[s] BY <1>1, <1>3, LevelAssumption
  <2> QED BY <1>1, <1>2, <1>3, <2>1
<1>4. CASE ~(s >= p)
  <2>1. p \in s + 1 .. 4 BY <1>1, <1>4
  <2> QED BY <1>1, <1>2, <1>4, <2>1
<1> QED BY <1>3, <1>4

(* When neither pointer can move, the scan's base row is the one assess     *)
(* takes from its window.                                                   *)
LEMMA BaseIsAssessed ==
    ASSUME RuleInv, Scanning, ~Old(lo), ~BaseFollows
    PROVE  Base = BaseAt(Row) /\ Base \in 1 .. Row /\ Row \in DOMAIN series
<1> DEFINE n == Row
           W == WindowAt(n)
           E == {k \in W : series[k].t <= series[n].t - rule.rate}
<1>1. /\ n \in 1 .. Len(series) /\ lo \in 1 .. n /\ cand \in 0 .. n
      /\ rule.rate \in Nat /\ Window \in Nat
  BY SortedSeries, RuleTyped, PeriodsAssumption DEF RuleInv, TypeOK, Scanning, Row
<1>2. /\ DOMAIN series = 1 .. Len(series) /\ Len(series) \in Nat
      /\ \A i \in 1 .. Len(series) : series[i].t \in Int
      /\ \A i, j \in 1 .. Len(series) : i < j => series[i].t < series[j].t
  BY SortedSeries DEF RuleInv, TypeOK
<1>3. /\ \A k \in 1 .. lo - 1 : series[k].t < series[n].t - Window
      /\ \A k \in 1 .. cand : series[k].t <= series[n].t - rule.rate
  BY <1>1 DEF RuleInv, PointersBehind
<1>4. series[lo].t >= series[n].t - Window BY <1>1, <1>2 DEF Old
<1>5. cand + 1 > n \/ series[cand + 1].t > series[n].t - rule.rate
  BY <1>1, <1>2 DEF BaseFollows
<1>6. \A k \in 1 .. Len(series) : k \in W <=> lo <= k /\ k <= n
  <2> SUFFICES ASSUME NEW k \in 1 .. Len(series) PROVE k \in W <=> lo <= k /\ k <= n
    OBVIOUS
  <2>1. k \in W <=> series[n].t - Window <= series[k].t /\ series[k].t <= series[n].t
    BY <1>2 DEF WindowAt
  <2>2. CASE k < lo BY <1>1, <1>2, <1>3, <2>1, <2>2
  <2>3. CASE k > n BY <1>1, <1>2, <2>1, <2>3
  <2>4. CASE lo <= k /\ k <= n
    <3>1. series[lo].t <= series[k].t BY <1>1, <1>2, <2>4, SMTT(30)
    <3>2. series[k].t <= series[n].t BY <1>1, <1>2, <2>4
    <3> QED BY <1>1, <1>2, <1>4, <2>1, <2>4, <3>1, <3>2
  <2> QED BY <1>1, <2>2, <2>3, <2>4
<1>7. \A k \in W : k \in E <=> k <= cand
  <2> SUFFICES ASSUME NEW k \in W PROVE k \in E <=> k <= cand
    OBVIOUS
  <2>1. k \in 1 .. Len(series) /\ k <= n BY <1>1, <1>2, <1>6 DEF WindowAt
  <2>2. CASE k <= cand BY <1>3, <2>1, <2>2
  <2>3. CASE k > cand
    <3>1. cand + 1 \in 1 .. n BY <1>1, <2>1, <2>3
    <3>2. series[cand + 1].t <= series[k].t BY <1>1, <1>2, <2>1, <2>3, <3>1
    <3>3. series[k].t > series[n].t - rule.rate BY <1>1, <1>2, <1>5, <2>1, <3>1, <3>2
    <3> QED BY <1>1, <1>2, <2>1, <2>3, <3>3
  <2> QED BY <1>1, <2>1, <2>2, <2>3
<1>8. W \subseteq 1 .. Len(series) BY <1>2 DEF WindowAt
<1>9. BaseAt(n) = IF E # {} THEN CHOOSE k \in E : \A m \in E : m <= k
                            ELSE CHOOSE k \in W : \A m \in W : k <= m
  BY DEF BaseAt
<1>10. CASE cand >= lo
  <2>1. cand \in W BY <1>1, <1>6, <1>10
  <2>2. cand \in E BY <1>7, <2>1, <1>1
  <2>3. \A m \in E : m \in Int /\ m <= cand BY <1>7, <1>8
  <2>4. \A k \in E : (\A m \in E : m <= k) => k = cand BY <2>2, <2>3, <1>1
  <2>5. (CHOOSE k \in E : \A m \in E : m <= k) = cand BY <2>2, <2>3, <2>4
  <2> QED BY <1>1, <1>2, <1>9, <1>10, <2>2, <2>5 DEF Base
<1>11. CASE cand < lo
  <2>1. lo \in W BY <1>1, <1>6
  <2>2. \A m \in W : m \in Int /\ lo <= m BY <1>6, <1>8
  <2>3. E = {} BY <1>1, <1>7, <2>2, <1>11
  <2>4. \A k \in W : (\A m \in W : k <= m) => k = lo BY <2>1, <2>2, <1>1
  <2>5. (CHOOSE k \in W : \A m \in W : k <= m) = lo BY <2>1, <2>2, <2>4
  <2>6. Base = lo BY <1>1, <1>11 DEF Base
  <2> QED BY <1>1, <1>2, <1>9, <2>3, <2>5, <2>6
<1> QED BY <1>1, <1>10, <1>11

LEMMA FlagIsReview ==
    ASSUME RuleInv, Scanning, ~Old(lo), ~BaseFollows
    PROVE  Flag <=> Review(Row)
<1>1. Base = BaseAt(Row) /\ Base \in 1 .. Row /\ Row \in 1 .. Len(series)
  BY BaseIsAssessed, SortedSeries DEF RuleInv, TypeOK
<1>2. series[Row].wl \in Int /\ rule.floor \in 1 .. 4
  BY <1>1, SortedSeries, RuleTyped DEF RuleInv, TypeOK
<1>3. Stage(series[Row].wl) = Planned <=> series[Row].wl >= Level[Planned]
  BY <1>2, StageByLevel, StageReached DEF Planned, Stages
<1>4. Stage(series[Row].wl) >= rule.floor <=> series[Row].wl >= Level[rule.floor]
  BY <1>2, StageByLevel
<1>5. Base = Row => ~Soon(Base, Row)
  BY <1>2 DEF Soon, Rise
<1> QED BY <1>1, <1>3, <1>4, <1>5 DEF Flag, Review

-----------------------------------------------------------------------------
LEMMA InitInv == Init => RuleInv
<1> SUFFICES ASSUME Init PROVE RuleInv
  OBVIOUS
<1>1. Sorted(stored) /\ Sorted(series) BY InputsAssumption DEF Init, Given
<1>2. Len(series) \in Nat BY <1>1, SortedSeries
<1>3. TypeOK BY <1>1, <1>2 DEF Init, TypeOK, Row
<1> QED BY <1>3 DEF Init, RuleInv, PointersBehind, FlagsAgree

(* What Review looks at does not change.                                    *)
LEMMA AgreementKept ==
    ASSUME FlagsAgree, UNCHANGED <<series, rule, flags>>
    PROVE  FlagsAgree'
<1> SUFFICES ASSUME NEW j \in DOMAIN flags PROVE flags[j] <=> Review(j)'
  BY DEF FlagsAgree
<1>1. Review(j)' <=> Review(j)
  BY DEF Review, Soon, Rise, BaseAt, WindowAt, Stage
<1> QED BY <1>1 DEF FlagsAgree

LEMMA AdvanceWindowInv == ASSUME RuleInv, AdvanceWindow PROVE RuleInv'
<1>1. /\ Row \in 1 .. Len(series) /\ lo \in 1 .. Row /\ Row' = Row
      /\ Len(series) \in Nat /\ Window \in Nat
  BY SortedSeries, PeriodsAssumption DEF RuleInv, TypeOK, AdvanceWindow, Scanning, Row
<1>2. lo # Row BY <1>1, SortedSeries DEF RuleInv, TypeOK, AdvanceWindow, Old
<1>3. TypeOK' BY <1>1, <1>2 DEF RuleInv, TypeOK, AdvanceWindow
<1>4. PointersBehind'
  BY <1>1, <1>2 DEF RuleInv, PointersBehind, AdvanceWindow, Old
<1> QED BY <1>3, <1>4, AgreementKept DEF RuleInv, AdvanceWindow

LEMMA AdvanceBaseInv == ASSUME RuleInv, AdvanceBase PROVE RuleInv'
<1>1. /\ Row \in 1 .. Len(series) /\ cand \in 0 .. Row /\ Row' = Row /\ Len(series) \in Nat
  BY SortedSeries DEF RuleInv, TypeOK, AdvanceBase, Scanning, Row
<1>2. cand + 1 <= Row /\ series[cand + 1].t <= series[Row].t - rule.rate
  BY DEF AdvanceBase, BaseFollows
<1>3. TypeOK' BY <1>1, <1>2 DEF RuleInv, TypeOK, AdvanceBase
<1>4. PointersBehind'
  BY <1>1, <1>2 DEF RuleInv, PointersBehind, AdvanceBase
<1> QED BY <1>3, <1>4, AgreementKept DEF RuleInv, AdvanceBase

LEMMA FlagRowInv == ASSUME RuleInv, FlagRow PROVE RuleInv'
<1>1. /\ Row \in 1 .. Len(series) /\ lo \in 1 .. Row /\ cand \in 0 .. Row
      /\ Len(series) \in Nat /\ flags \in Seq(BOOLEAN) /\ Len(flags) \in Nat
      /\ rule.rate \in Nat /\ Window \in Nat
  BY SortedSeries, RuleTyped, PeriodsAssumption DEF RuleInv, TypeOK, FlagRow, Scanning, Row
<1>2. flags' = Append(flags, Flag) /\ Flag \in BOOLEAN
  BY DEF FlagRow, Flag, Soon
<1>3. /\ Len(flags') = Row /\ flags' \in Seq(BOOLEAN) /\ Row' = Row + 1
      /\ \A j \in 1 .. Len(flags) : flags'[j] = flags[j]
      /\ flags'[Row] = Flag /\ DOMAIN flags' = 1 .. Row
  BY <1>1, <1>2 DEF Row
<1>4. TypeOK' BY <1>1, <1>3 DEF RuleInv, TypeOK, FlagRow
<1>5. PointersBehind'
  <2> SUFFICES ASSUME Row + 1 <= Len(series)
               PROVE /\ \A k \in 1 .. lo - 1 : series[k].t < series[Row + 1].t - Window
                     /\ \A k \in 1 .. cand : series[k].t <= series[Row + 1].t - rule.rate
    BY <1>3 DEF PointersBehind, FlagRow
  <2>1. series[Row].t < series[Row + 1].t /\ series[Row].t \in Int /\ series[Row + 1].t \in Int
    BY <1>1, SortedSeries DEF RuleInv, TypeOK
  <2>2. \A k \in 1 .. Row : series[k].t \in Int BY <1>1, SortedSeries, SMTT(30) DEF RuleInv, TypeOK
  <2>3. /\ \A k \in 1 .. lo - 1 : series[k].t < series[Row].t - Window
        /\ \A k \in 1 .. cand : series[k].t <= series[Row].t - rule.rate
    BY <1>1 DEF RuleInv, PointersBehind
  <2>4. ASSUME NEW k \in 1 .. lo - 1 PROVE series[k].t < series[Row + 1].t - Window
    BY <1>1, <2>1, <2>2, <2>3, SMTT(30)
  <2>5. ASSUME NEW k \in 1 .. cand PROVE series[k].t <= series[Row + 1].t - rule.rate
    BY <1>1, <2>1, <2>2, <2>3
  <2> QED BY <2>4, <2>5
<1>6. FlagsAgree'
  <2> SUFFICES ASSUME NEW j \in 1 .. Row PROVE flags'[j] <=> Review(j)'
    BY <1>3 DEF FlagsAgree
  <2>1. Review(j)' <=> Review(j)
    BY DEF FlagRow, Review, Soon, Rise, BaseAt, WindowAt, Stage
  <2>2. CASE j = Row
    <3>1. Flag <=> Review(Row) BY FlagIsReview DEF FlagRow
    <3> QED BY <1>3, <2>1, <2>2, <3>1
  <2>3. CASE j # Row
    <3>1. j \in 1 .. Len(flags) /\ j \in DOMAIN flags BY <1>1, <2>3 DEF Row
    <3>2. flags[j] <=> Review(j) BY <3>1 DEF RuleInv, FlagsAgree
    <3> QED BY <1>3, <2>1, <3>1, <3>2
  <2> QED BY <2>2, <2>3
<1> QED BY <1>4, <1>5, <1>6 DEF RuleInv, FlagRow

(* The second loop leaves the scan alone.                                   *)
LEMMA TakeRowInv == ASSUME RuleInv, TakeRow PROVE RuleInv'
<1> DEFINE r == series[taken + 1]
           Ep == [start : Int, end : Int, rows : Nat, peak : Int]
           joined == [episodes EXCEPT ![Current] = Longer(@, r)]
           added == Append(episodes, [start |-> r.t, end |-> r.t, rows |-> 1, peak |-> r.wl])
<1>1. /\ taken + 1 \in 1 .. Len(series) /\ Len(series) \in Nat
      /\ episodes \in Seq(Ep) /\ Len(episodes) \in Nat
  BY SortedSeries DEF RuleInv, TypeOK, TakeRow
<1>2. r.t \in Int /\ r.wl \in Int BY <1>1, SortedSeries DEF RuleInv, TypeOK
<1>3. episodes' = episodes \/ (Joins(r) /\ episodes' = joined) \/ episodes' = added
  BY DEF TakeRow
<1>4. added \in Seq(Ep)
  <2>1. [start |-> r.t, end |-> r.t, rows |-> 1, peak |-> r.wl] \in Ep BY <1>2
  <2> QED BY <1>1, <2>1, SeqAppend
<1>5. Joins(r) => joined \in Seq(Ep)
  <2> SUFFICES ASSUME Joins(r) PROVE joined \in Seq(Ep)
    OBVIOUS
  <2>1. Current \in 1 .. Len(episodes) BY <1>1 DEF Joins, Current
  <2> DEFINE e == episodes[Current]
  <2>2. e \in Ep
    <3> HIDE DEF Ep
    <3> QED BY <1>1, <2>1, SeqElement
  <2>3. Longer(e, r) \in Ep BY <1>2, <2>2 DEF Longer
  <2>4. joined = [episodes EXCEPT ![Current] = Longer(e, r)] OBVIOUS
  <2> HIDE DEF Ep
  <2> QED BY <1>1, <2>1, <2>3, <2>4, SeqUpdate
<1>6. episodes' \in Seq(Ep) BY <1>1, <1>3, <1>4, <1>5
<1>7. TypeOK'
  <2>1. taken' \in 0 .. Len(series) BY <1>1 DEF TakeRow, RuleInv, TypeOK
  <2> QED BY <1>6, <2>1 DEF RuleInv, TypeOK, TakeRow, Row
<1>8. PointersBehind' BY DEF RuleInv, PointersBehind, TakeRow, Row
<1> QED BY <1>7, <1>8, AgreementKept DEF RuleInv, TakeRow

LEMMA LoopEndInv ==
    ASSUME RuleInv, FlagsDone \/ EpisodesDone \/ UNCHANGED vars
    PROVE  RuleInv'
<1>1. UNCHANGED <<stored, series, rule, lo, cand, flags, taken, episodes>>
  BY DEF FlagsDone, EpisodesDone, vars
<1>2. pc' \in {"flags", "episodes", "done"}
  BY DEF FlagsDone, EpisodesDone, vars, RuleInv, TypeOK
<1>3. TypeOK' BY <1>1, <1>2 DEF RuleInv, TypeOK, Row
<1>4. PointersBehind' BY <1>1 DEF RuleInv, PointersBehind, Row
<1> QED BY <1>1, <1>3, <1>4, AgreementKept DEF RuleInv

LEMMA NextInv == RuleInv /\ [Next]_vars => RuleInv'
<1> SUFFICES ASSUME RuleInv, [Next]_vars PROVE RuleInv'
  OBVIOUS
<1> QED BY AdvanceWindowInv, AdvanceBaseInv, FlagRowInv, TakeRowInv, LoopEndInv DEF Next

-----------------------------------------------------------------------------
(* The pointers never leave the series, and the loops only hold what the    *)
(* code's variables can hold: no index of _review_flags is out of range.    *)
THEOREM TypeCorrect == Spec => []TypeOK
<1>1. Init => RuleInv BY InitInv
<1>2. RuleInv /\ [Next]_vars => RuleInv' BY NextInv
<1>3. RuleInv => TypeOK BY DEF RuleInv
<1> QED BY <1>1, <1>2, <1>3, PTL DEF Spec

(* For every stored series, gaps included, every rule and every set of      *)
(* rising levels, _review_flags and assess recommend at the same readings.  *)
THEOREM FlagsAgreeHolds == Spec => []FlagsAgree
<1>1. Init => RuleInv BY InitInv
<1>2. RuleInv /\ [Next]_vars => RuleInv' BY NextInv
<1>3. RuleInv => FlagsAgree BY DEF RuleInv
<1> QED BY <1>1, <1>2, <1>3, PTL DEF Spec

-----------------------------------------------------------------------------
(***************************************************************************)
(* The episodes are the runs of recommendations, for every series, rule    *)
(* and gap.                                                                *)
(*                                                                         *)
(* Runs says of the rows taken so far what the episodes will say of the    *)
(* season: between the ends of an episode every recommendation but the     *)
(* first has one shortly before it, and every one but the last one shortly *)
(* after it; episodes are further apart; none is left out.                 *)
(***************************************************************************)

Flagged == {j \in 1 .. taken : flags[j]}
Span(ep, F) == {j \in F : ep.start <= series[j].t /\ series[j].t <= ep.end}
Episode == [start : Int, end : Int, rows : Nat, peak : Int]

(* An episode is a run of F: its ends, its links, its count and its peak.   *)
Ends(ep, F) ==
    /\ ep.start <= ep.end
    /\ \E j \in F : series[j].t = ep.start
    /\ \E j \in F : series[j].t = ep.end
Linked(ep, F) ==
    \A j \in Span(ep, F) :
        /\ \/ series[j].t = ep.start
           \/ \E i \in F : i < j /\ series[j].t - series[i].t <= EpisodeGap
        /\ \/ series[j].t = ep.end
           \/ \E i \in F : j < i /\ series[i].t - series[j].t <= EpisodeGap
Counts(ep, F) ==
    /\ ep.rows = Cardinality(Span(ep, F))
    /\ \E j \in Span(ep, F) : series[j].wl = ep.peak
    /\ \A j \in Span(ep, F) : series[j].wl <= ep.peak
IsRun(ep, F) == Ends(ep, F) /\ Linked(ep, F) /\ Counts(ep, F)

Runs(eps, F) ==
    /\ \A e \in 1 .. Len(eps) : IsRun(eps[e], F)
    /\ \A e, f \in 1 .. Len(eps) : e < f => eps[f].start - eps[e].end > EpisodeGap
    /\ \A j \in F : \E e \in 1 .. Len(eps) : j \in Span(eps[e], F)

RunsInv ==
    /\ pc = "flags" => taken = 0
    /\ pc # "flags" => Len(flags) = Len(series)
    /\ pc = "done" => taken = Len(series)
    /\ Runs(episodes, Flagged)

LEMMA RowsTyped ==
    ASSUME RuleInv
    PROVE  /\ taken \in Nat /\ taken <= Len(series) /\ Flagged \subseteq 1 .. taken
           /\ \A i \in 1 .. Len(series) : series[i].t \in Int /\ series[i].wl \in Int
           /\ \A i, j \in 1 .. Len(series) : i < j => series[i].t < series[j].t
           /\ DOMAIN series = 1 .. Len(series) /\ Len(series) \in Nat
           /\ EpisodeGap \in Nat
<1>1. RuleInv => TypeOK BY DEF RuleInv
<1>2. taken \in Nat /\ taken <= Len(series) BY <1>1, SortedSeries DEF TypeOK
<1> QED BY <1>1, <1>2, SortedSeries, PeriodsAssumption DEF TypeOK, Flagged

LEMMA EpisodesTyped ==
    ASSUME RuleInv
    PROVE  /\ episodes \in Seq(Episode)
           /\ Len(episodes) \in Nat /\ DOMAIN episodes = 1 .. Len(episodes)
           /\ \A e \in 1 .. Len(episodes) : episodes[e] \in Episode
<1>1. episodes \in Seq(Episode) BY DEF RuleInv, TypeOK, Episode
<1> QED BY <1>1, SeqElement

LEMMA SpanFinite ==
    ASSUME NEW n \in Nat, NEW F, F \subseteq 1 .. n, NEW ep
    PROVE  IsFiniteSet(Span(ep, F)) /\ Cardinality(Span(ep, F)) \in Nat
<1>1. Span(ep, F) \in SUBSET (1 .. n) BY DEF Span
<1>2. IsFiniteSet(1 .. n) BY FS_Interval
<1> QED BY <1>1, <1>2, FS_Subset, FS_CardinalityType

(* A row after the end of an episode changes nothing of it.                 *)
LEMMA RunOutlives ==
    ASSUME RuleInv, NEW F, F \subseteq 1 .. Len(series), NEW r \in 1 .. Len(series),
           NEW ep \in Episode, ep.end < series[r].t, IsRun(ep, F)
    PROVE  Span(ep, F \cup {r}) = Span(ep, F) /\ IsRun(ep, F \cup {r})
<1>1. series[r].t \in Int /\ ep.end \in Int BY RowsTyped DEF Episode
<1>2. Span(ep, F \cup {r}) = Span(ep, F) BY <1>1 DEF Span
<1>3. Ends(ep, F \cup {r}) BY DEF IsRun, Ends
<1>4. Linked(ep, F \cup {r}) BY <1>2 DEF IsRun, Linked
<1>5. Counts(ep, F \cup {r}) BY <1>2 DEF IsRun, Counts
<1> QED BY <1>2, <1>3, <1>4, <1>5 DEF IsRun

(* A recommendation within the gap makes the last episode longer.           *)
LEMMA RunGrows ==
    ASSUME RuleInv, NEW F, F \subseteq 1 .. Len(series), NEW r \in 1 .. Len(series),
           \A j \in F : j < r, NEW ep \in Episode, IsRun(ep, F),
           \A j \in F : series[j].t <= ep.end,
           series[r].t - ep.end <= EpisodeGap
    PROVE  /\ Span(Longer(ep, series[r]), F \cup {r}) = Span(ep, F) \cup {r}
           /\ IsRun(Longer(ep, series[r]), F \cup {r})
<1> DEFINE lg == Longer(ep, series[r])
           G == F \cup {r}
           x == series[r]
<1>1. /\ \A j \in F : series[j].t \in Int /\ series[j].wl \in Int /\ series[j].t < x.t
      /\ x.t \in Int /\ x.wl \in Int /\ EpisodeGap \in Nat /\ r \in Int
      /\ ep.start \in Int /\ ep.end \in Int /\ ep.rows \in Nat /\ ep.peak \in Int
  <2>1. /\ \A j \in F : series[j].t \in Int /\ series[j].wl \in Int /\ series[j].t < x.t
        /\ x.t \in Int /\ x.wl \in Int /\ EpisodeGap \in Nat /\ r \in Int
    BY RowsTyped
  <2>2. ep.start \in Int /\ ep.end \in Int /\ ep.rows \in Nat /\ ep.peak \in Int
    BY DEF Episode
  <2> QED BY <2>1, <2>2
<1>2. /\ lg.start = ep.start /\ lg.end = x.t /\ lg.rows = ep.rows + 1
      /\ lg.peak = IF x.wl > ep.peak THEN x.wl ELSE ep.peak
  BY DEF Longer
<1> HIDE DEF lg
<1>3. PICK z \in F : series[z].t = ep.end BY DEF IsRun, Ends
<1>4. ep.start <= ep.end /\ ep.start <= x.t BY <1>1, <1>3 DEF IsRun, Ends
<1>5. Span(ep, F) \subseteq F /\ r \notin F BY <1>1 DEF Span
<1>6. Span(lg, G) = Span(ep, F) \cup {r}
  <2>1. \A j \in F : j \in Span(lg, G) <=> j \in Span(ep, F) BY <1>1, <1>2 DEF Span
  <2>2. r \in Span(lg, G) BY <1>1, <1>2, <1>4 DEF Span
  <2>3. Span(lg, G) \subseteq F \cup {r} BY DEF Span
  <2> QED BY <1>5, <2>1, <2>2, <2>3
<1>7. Ends(lg, G)
  BY <1>2, <1>4 DEF IsRun, Ends
<1>8. Linked(lg, G)
  <2> SUFFICES ASSUME NEW j \in Span(ep, F) \cup {r}
               PROVE  /\ \/ series[j].t = lg.start
                         \/ \E i \in G : i < j /\ series[j].t - series[i].t <= EpisodeGap
                      /\ \/ series[j].t = lg.end
                         \/ \E i \in G : j < i /\ series[i].t - series[j].t <= EpisodeGap
    BY <1>6 DEF Linked
  <2>1. CASE j = r
    <3>1. z < r /\ series[r].t - series[z].t <= EpisodeGap BY <1>3
    <3> QED BY <1>2, <2>1, <3>1
  <2>2. CASE j \in Span(ep, F)
    <3>1. /\ \/ series[j].t = ep.start
             \/ \E i \in F : i < j /\ series[j].t - series[i].t <= EpisodeGap
          /\ \/ series[j].t = ep.end
             \/ \E i \in F : j < i /\ series[i].t - series[j].t <= EpisodeGap
      BY <2>2 DEF IsRun, Linked
    <3>2. j < r BY <1>5, <2>2
    <3>3. CASE series[j].t = ep.end BY <1>2, <3>1, <3>2, <3>3
    <3>4. CASE series[j].t # ep.end BY <1>2, <3>1, <3>4
    <3> QED BY <3>3, <3>4
  <2> QED BY <2>1, <2>2
<1>9. Counts(lg, G)
  <2>1. Len(series) \in Nat BY RowsTyped
  <2>2. IsFiniteSet(Span(ep, F)) /\ Cardinality(Span(ep, F)) \in Nat BY <2>1, SpanFinite
  <2>3. Cardinality(Span(ep, F) \cup {r}) = Cardinality(Span(ep, F)) + 1
    BY <1>5, <2>2, FS_AddElement
  <2>4. lg.rows = Cardinality(Span(lg, G)) BY <1>2, <1>6, <2>3 DEF IsRun, Counts
  <2>5. PICK p \in Span(ep, F) : series[p].wl = ep.peak BY DEF IsRun, Counts
  <2>6. \A j \in Span(ep, F) : series[j].wl <= ep.peak /\ series[j].wl \in Int
    BY <1>1, <1>5 DEF IsRun, Counts
  <2>7. \E j \in Span(lg, G) : series[j].wl = lg.peak BY <1>1, <1>2, <1>6, <2>5
  <2>8. \A j \in Span(lg, G) : series[j].wl <= lg.peak BY <1>1, <1>2, <1>6, <2>6
  <2> QED BY <2>4, <2>7, <2>8 DEF Counts
<1> QED BY <1>6, <1>7, <1>8, <1>9 DEF IsRun, lg

(* Any other begins one.                                                    *)
LEMMA RunBegins ==
    ASSUME RuleInv, NEW F, F \subseteq 1 .. Len(series), NEW r \in 1 .. Len(series),
           \A j \in F : j < r, NEW ep,
           ep = [start |-> series[r].t, end |-> series[r].t, rows |-> 1, peak |-> series[r].wl]
    PROVE  Span(ep, F \cup {r}) = {r} /\ IsRun(ep, F \cup {r})
<1>1. /\ \A j \in F : series[j].t \in Int /\ series[j].t < series[r].t
      /\ series[r].t \in Int /\ series[r].wl \in Int /\ r \in Int
  BY RowsTyped
<1>2. /\ ep.start = series[r].t /\ ep.end = series[r].t /\ ep.rows = 1 /\ ep.peak = series[r].wl
  OBVIOUS
<1>3. Span(ep, F \cup {r}) = {r}
  <2>1. \A j \in F : ~(series[r].t <= series[j].t) BY <1>1
  <2>2. Span(ep, F \cup {r}) = {j \in F \cup {r} : series[r].t <= series[j].t /\ series[j].t <= series[r].t}
    BY <1>2 DEF Span
  <2>3. \A j \in F \cup {r} : (series[r].t <= series[j].t /\ series[j].t <= series[r].t) <=> j = r
    BY <1>1, <2>1
  <2> QED BY <2>2, <2>3
<1>4. Cardinality({r}) = 1 BY FS_Singleton
<1>5. Ends(ep, F \cup {r}) BY <1>1, <1>2 DEF Ends
<1>6. Linked(ep, F \cup {r}) BY <1>2, <1>3 DEF Linked
<1>7. Counts(ep, F \cup {r})
  <2>1. ep.rows = Cardinality(Span(ep, F \cup {r})) BY <1>2, <1>3, <1>4
  <2>2. \A j \in Span(ep, F \cup {r}) : series[j].wl = ep.peak /\ series[j].wl <= ep.peak
    BY <1>1, <1>2, <1>3
  <2>3. r \in Span(ep, F \cup {r}) BY <1>3
  <2> QED BY <2>1, <2>2, <2>3 DEF Counts
<1> QED BY <1>3, <1>5, <1>6, <1>7 DEF IsRun

(* What the last episode is to the others and to all recommendations.       *)
LEMMA LastIsLast ==
    ASSUME RuleInv, NEW eps \in Seq(Episode), NEW F, F \subseteq 1 .. Len(series),
           Runs(eps, F), Len(eps) > 0
    PROVE  /\ \A e \in 1 .. Len(eps) : e # Len(eps) => eps[e].end < eps[Len(eps)].end
           /\ \A j \in F : series[j].t <= eps[Len(eps)].end
<1> DEFINE n == Len(eps)
<1>1. n \in Nat /\ n \in 1 .. n OBVIOUS
<1>2. \A e \in 1 .. n : eps[e].start \in Int /\ eps[e].end \in Int
  <2>1. \A e \in 1 .. n : eps[e] \in Episode BY SeqElement
  <2> QED BY <2>1 DEF Episode
<1>3. EpisodeGap \in Nat BY RowsTyped
<1>4. eps[n].start <= eps[n].end BY <1>1 DEF Runs, IsRun, Ends
<1>5. \A e \in 1 .. n : e # n => eps[e].end < eps[n].end
  <2> SUFFICES ASSUME NEW e \in 1 .. n, e # n PROVE eps[e].end < eps[n].end
    OBVIOUS
  <2>1. e < n BY <1>1
  <2>2. eps[n].start - eps[e].end > EpisodeGap BY <1>1, <2>1 DEF Runs
  <2> HIDE DEF n
  <2> QED BY <1>1, <1>2, <1>3, <1>4, <2>2
<1>6. \A j \in F : series[j].t <= eps[n].end
  <2> SUFFICES ASSUME NEW j \in F PROVE series[j].t <= eps[n].end
    OBVIOUS
  <2>1. PICK e \in 1 .. n : j \in Span(eps[e], F) BY DEF Runs
  <2>2. series[j].t <= eps[e].end /\ series[j].t \in Int BY <2>1, RowsTyped DEF Span
  <2> HIDE DEF n
  <2> QED BY <1>1, <1>2, <1>5, <2>2
<1> QED BY <1>5, <1>6

(* A row that is not recommended leaves the episodes as they are; one that  *)
(* is makes the last one longer or begins one.                              *)
LEMMA RunsLonger ==
    ASSUME RuleInv, NEW eps \in Seq(Episode), NEW F, F \subseteq 1 .. Len(series), Runs(eps, F),
           NEW r \in 1 .. Len(series), \A j \in F : j < r,
           Len(eps) > 0, series[r].t - eps[Len(eps)].end <= EpisodeGap
    PROVE  Runs([eps EXCEPT ![Len(eps)] = Longer(@, series[r])], F \cup {r})
<1> DEFINE n == Len(eps)
           lg == Longer(eps[n], series[r])
           new == [eps EXCEPT ![n] = lg]
           G == F \cup {r}
<1>1. n \in Nat /\ n \in 1 .. n /\ Len(new) = n /\ new[n] = lg
      /\ \A e \in 1 .. n : e # n => new[e] = eps[e]
  OBVIOUS
<1>2. \A e \in 1 .. n : eps[e] \in Episode BY SeqElement
<1>3. /\ \A e \in 1 .. n : e # n => eps[e].end < eps[n].end
      /\ \A j \in F : series[j].t <= eps[n].end
  BY LastIsLast
<1>4. \A e \in 1 .. n : IsRun(eps[e], F) BY DEF Runs
<1>5. Span(lg, G) = Span(eps[n], F) \cup {r} /\ IsRun(lg, G)
  BY <1>1, <1>2, <1>3, <1>4, RunGrows
<1>6. lg.start = eps[n].start BY DEF Longer
<1>7. eps[n].end < series[r].t
  <2>1. PICK z \in F : series[z].t = eps[n].end BY <1>1, <1>4 DEF IsRun, Ends
  <2> QED BY <2>1, RowsTyped
<1>8. ASSUME NEW e \in 1 .. n, e # n PROVE Span(eps[e], G) = Span(eps[e], F) /\ IsRun(eps[e], G)
  <2>1. eps[e].end \in Int /\ eps[n].end \in Int /\ series[r].t \in Int
    BY <1>1, <1>2, RowsTyped DEF Episode
  <2>2. eps[e].end < series[r].t BY <1>3, <1>7, <1>8, <2>1
  <2> QED BY <1>2, <1>4, <2>2, RunOutlives
<1>9. \A e, f \in 1 .. n : e < f => eps[f].start - eps[e].end > EpisodeGap BY DEF Runs
<1>10. \A j \in F : \E e \in 1 .. n : j \in Span(eps[e], F) BY DEF Runs
<1> HIDE DEF n, lg, new
<1>11. \A e \in 1 .. n : IsRun(new[e], G) BY <1>1, <1>5, <1>8
<1>12. ASSUME NEW e \in 1 .. n, NEW f \in 1 .. n, e < f
       PROVE  new[f].start - new[e].end > EpisodeGap
  <2>1. e # n BY <1>1, <1>12
  <2>2. new[e] = eps[e] /\ new[f].start = eps[f].start BY <1>1, <1>6, <2>1
  <2> QED BY <1>9, <1>12, <2>2
<1>13. ASSUME NEW j \in G PROVE \E e \in 1 .. n : j \in Span(new[e], G)
  <2>1. CASE j = r BY <1>1, <1>5, <2>1
  <2>2. CASE j \in F
    <3>1. PICK e \in 1 .. n : j \in Span(eps[e], F) BY <1>10, <2>2
    <3>2. j \in Span(new[e], G) BY <1>1, <1>5, <1>8, <3>1
    <3> QED BY <3>2
  <2> QED BY <2>1, <2>2
<1>14. Runs(new, G) BY <1>1, <1>11, <1>12, <1>13 DEF Runs
<1> QED BY <1>14 DEF new, lg, n

LEMMA RunsAdded ==
    ASSUME RuleInv, NEW eps \in Seq(Episode), NEW F, F \subseteq 1 .. Len(series), Runs(eps, F),
           NEW r \in 1 .. Len(series), \A j \in F : j < r,
           Len(eps) > 0 => series[r].t - eps[Len(eps)].end > EpisodeGap
    PROVE  Runs(Append(eps, [start |-> series[r].t, end |-> series[r].t, rows |-> 1, peak |-> series[r].wl]),
                F \cup {r})
<1> DEFINE n == Len(eps)
           one == [start |-> series[r].t, end |-> series[r].t, rows |-> 1, peak |-> series[r].wl]
           new == Append(eps, one)
           G == F \cup {r}
<1>1. Span(one, G) = {r} /\ IsRun(one, G) BY RunBegins
<1>2. one.start = series[r].t OBVIOUS
<1> HIDE DEF one
<1>3. n \in Nat /\ Len(new) = n + 1 /\ new[n + 1] = one /\ \A e \in 1 .. n : new[e] = eps[e]
  OBVIOUS
<1>4. \A e \in 1 .. n : eps[e] \in Episode BY SeqElement
<1>5. \A e \in 1 .. n : IsRun(eps[e], F) BY DEF Runs
<1>6. \A e, f \in 1 .. n : e < f => eps[f].start - eps[e].end > EpisodeGap BY DEF Runs
<1>7. \A j \in F : \E e \in 1 .. n : j \in Span(eps[e], F) BY DEF Runs
<1>8. n > 0 => \A e \in 1 .. n : e # n => eps[e].end < eps[n].end
  BY LastIsLast
<1>9. n > 0 => series[r].t - eps[n].end > EpisodeGap OBVIOUS
<1> HIDE DEF n, new
<1>10. ASSUME NEW e \in 1 .. n
       PROVE  /\ series[r].t - eps[e].end > EpisodeGap
              /\ Span(eps[e], G) = Span(eps[e], F) /\ IsRun(eps[e], G)
  <2>1. n \in 1 .. n /\ n > 0 BY <1>3
  <2>2. eps[e].end \in Int /\ eps[n].end \in Int /\ series[r].t \in Int /\ EpisodeGap \in Nat
    BY <2>1, <1>4, RowsTyped DEF Episode
  <2>3. eps[e].end <= eps[n].end
    <3>1. CASE e = n BY <2>2, <3>1
    <3>2. CASE e # n BY <1>8, <2>1, <2>2, <3>2
    <3> QED BY <3>1, <3>2
  <2>4. series[r].t - eps[e].end > EpisodeGap /\ eps[e].end < series[r].t
    BY <1>9, <2>1, <2>2, <2>3
  <2> QED BY <1>4, <1>5, <2>4, RunOutlives
<1>11. \A e \in 1 .. n + 1 : e \in 1 .. n \/ e = n + 1 BY <1>3
<1>12. \A e \in 1 .. n + 1 : IsRun(new[e], G) BY <1>1, <1>3, <1>10, <1>11
<1>13. ASSUME NEW e \in 1 .. n + 1, NEW f \in 1 .. n + 1, e < f
       PROVE  new[f].start - new[e].end > EpisodeGap
  <2>1. e \in 1 .. n BY <1>3, <1>13
  <2>2. CASE f = n + 1 BY <1>2, <1>3, <1>10, <2>1, <2>2
  <2>3. CASE f \in 1 .. n BY <1>3, <1>6, <1>13, <2>1, <2>3
  <2> QED BY <1>11, <2>2, <2>3
<1>14. ASSUME NEW j \in G PROVE \E e \in 1 .. n + 1 : j \in Span(new[e], G)
  <2>1. CASE j = r
    <3>1. n + 1 \in 1 .. n + 1 BY <1>3
    <3> QED BY <1>1, <1>3, <2>1, <3>1
  <2>2. CASE j \in F
    <3>1. PICK e \in 1 .. n : j \in Span(eps[e], F) BY <1>7, <2>2
    <3>2. e \in 1 .. n + 1 BY <1>3
    <3>3. new[e] = eps[e] BY <1>3
    <3>4. j \in Span(new[e], G) BY <1>10, <3>1, <3>3
    <3> QED BY <3>2, <3>4
  <2> QED BY <2>1, <2>2
<1>15. Runs(new, G) BY <1>3, <1>12, <1>13, <1>14 DEF Runs
<1> QED BY <1>15 DEF new, one

LEMMA RunsStart == Init => RunsInv
<1> SUFFICES ASSUME Init PROVE RunsInv
  OBVIOUS
<1>1. taken = 0 /\ Len(episodes) = 0 /\ pc = "flags" BY DEF Init
<1>2. Flagged = {} BY <1>1 DEF Flagged
<1> QED BY <1>1, <1>2 DEF RunsInv, Runs

(* Nothing but the rows changes what the episodes say.                      *)
LEMMA RunsKept ==
    ASSUME Runs(episodes, Flagged), UNCHANGED series, episodes' = episodes, Flagged' = Flagged
    PROVE  Runs(episodes, Flagged)'
<1> DEFINE S(e) == Span(episodes[e], Flagged)
<1>1. ASSUME NEW e PROVE S(e)' = S(e) BY DEF Span
<1>2. ASSUME NEW e PROVE IsRun(episodes[e], Flagged)' = IsRun(episodes[e], Flagged)
  <2>1. Ends(episodes[e], Flagged)' = Ends(episodes[e], Flagged) BY DEF Ends
  <2>2. Linked(episodes[e], Flagged)' = Linked(episodes[e], Flagged) BY <1>1 DEF Linked
  <2>3. Counts(episodes[e], Flagged)' = Counts(episodes[e], Flagged) BY <1>1 DEF Counts
  <2> QED BY <2>1, <2>2, <2>3 DEF IsRun
<1>3. (\A e \in 1 .. Len(episodes) : IsRun(episodes[e], Flagged))' BY <1>2 DEF Runs
<1>4. (\A e, f \in 1 .. Len(episodes) : e < f => episodes[f].start - episodes[e].end > EpisodeGap)'
  BY DEF Runs
<1>5. (\A j \in Flagged : \E e \in 1 .. Len(episodes) : j \in S(e))' BY <1>1 DEF Runs
<1> QED BY <1>3, <1>4, <1>5 DEF Runs

LEMMA RunsTaken == ASSUME RuleInv, RunsInv, TakeRow PROVE RunsInv'
<1> DEFINE r == taken + 1
           x == series[r]
<1>1. /\ taken' = r /\ r \in 1 .. Len(series) /\ UNCHANGED <<series, pc, flags>>
      /\ Flagged \subseteq 1 .. Len(series) /\ \A j \in Flagged : j < r
  BY RowsTyped DEF TakeRow
<1>2. 1 .. r = (1 .. taken) \cup {r} BY RowsTyped
<1>3. ~flags[r] => Flagged' = Flagged /\ episodes' = episodes
  BY <1>1, <1>2 DEF Flagged, TakeRow
<1>4. flags[r] => Flagged' = Flagged \cup {r} BY <1>1, <1>2 DEF Flagged
<1>5. Runs(episodes, Flagged) BY DEF RunsInv
<1>6. episodes \in Seq(Episode) /\ Len(episodes) \in Nat BY EpisodesTyped
<1>7. CASE ~flags[r]
  <2>1. Runs(episodes, Flagged)' BY <1>1, <1>3, <1>5, <1>7, RunsKept
  <2> QED BY <1>1, <2>1 DEF RunsInv, TakeRow
<1>8. ASSUME flags[r], Runs(episodes', Flagged \cup {r}) PROVE RunsInv'
  <2>1. Runs(episodes, Flagged)'
    BY <1>1, <1>4, <1>8, ZenonT(30) DEF Runs, IsRun, Ends, Linked, Counts, Span
  <2> QED BY <1>1, <2>1 DEF RunsInv, TakeRow
<1>9. CASE flags[r] /\ Joins(x)
  <2>1. episodes' = [episodes EXCEPT ![Len(episodes)] = Longer(@, x)]
    BY <1>9 DEF TakeRow, Current
  <2>2. Len(episodes) > 0 /\ x.t - episodes[Len(episodes)].end <= EpisodeGap
    BY <1>9 DEF Joins, Current
  <2>3. Runs(episodes', Flagged \cup {r}) BY <1>1, <1>5, <1>6, <2>1, <2>2, RunsLonger
  <2> QED BY <1>8, <1>9, <2>3
<1>10. CASE flags[r] /\ ~Joins(x)
  <2>1. episodes' = Append(episodes, [start |-> x.t, end |-> x.t, rows |-> 1, peak |-> x.wl])
    BY <1>10 DEF TakeRow
  <2>2. Len(episodes) > 0 => x.t - episodes[Len(episodes)].end > EpisodeGap
    <3> SUFFICES ASSUME Len(episodes) > 0 PROVE x.t - episodes[Len(episodes)].end > EpisodeGap
      OBVIOUS
    <3>1. ~(x.t - episodes[Len(episodes)].end <= EpisodeGap) BY <1>10 DEF Joins, Current
    <3>2. episodes[Len(episodes)] \in Episode BY <1>6, EpisodesTyped
    <3>3. x.t \in Int /\ EpisodeGap \in Nat BY <1>1, RowsTyped
    <3> QED BY <3>1, <3>2, <3>3 DEF Episode
  <2>3. Runs(episodes', Flagged \cup {r}) BY <1>1, <1>5, <1>6, <2>1, <2>2, RunsAdded
  <2> QED BY <1>8, <1>10, <2>3
<1> QED BY <1>7, <1>9, <1>10

LEMMA RunsStep == RuleInv /\ RunsInv /\ [Next]_vars => RunsInv'
<1> SUFFICES ASSUME RuleInv, RunsInv, [Next]_vars PROVE RunsInv'
  OBVIOUS
<1>1. CASE AdvanceWindow \/ AdvanceBase \/ UNCHANGED vars
  <2>1. UNCHANGED <<series, pc, flags, taken, episodes>>
    BY <1>1 DEF AdvanceWindow, AdvanceBase, vars
  <2>2. Flagged' = Flagged BY <2>1 DEF Flagged
  <2> QED BY <2>1, <2>2, RunsKept DEF RunsInv
<1>2. CASE FlagRow
  <2>1. taken = 0 /\ UNCHANGED <<series, taken, pc, episodes>> /\ pc = "flags"
    BY <1>2 DEF FlagRow, Scanning, RunsInv
  <2>2. Flagged = {} /\ Flagged' = {} BY <2>1 DEF Flagged
  <2> QED BY <2>1, <2>2, RunsKept DEF RunsInv
<1>3. CASE FlagsDone \/ EpisodesDone
  <2>1. UNCHANGED <<series, flags, taken, episodes>> /\ pc' # "flags"
    BY <1>3 DEF FlagsDone, EpisodesDone
  <2>2. Flagged' = Flagged BY <2>1 DEF Flagged
  <2>3. Len(flags) = Len(series)
    <3>1. CASE EpisodesDone BY <3>1 DEF EpisodesDone, RunsInv
    <3>2. CASE FlagsDone
      <4>1. Len(flags) + 1 > Len(series) BY <3>2 DEF FlagsDone, Row
      <4>2. Len(flags) <= Len(series) /\ Len(flags) \in Nat BY DEF RuleInv, TypeOK
      <4>3. Len(series) \in Nat BY RowsTyped
      <4> QED BY <4>1, <4>2, <4>3
    <3> QED BY <1>3, <3>1, <3>2
  <2>4. pc' = "done" => taken = Len(series) BY <1>3 DEF FlagsDone, EpisodesDone
  <2> QED BY <2>1, <2>2, <2>3, <2>4, RunsKept DEF RunsInv
<1>4. CASE TakeRow BY <1>4, RunsTaken
<1> QED BY <1>1, <1>2, <1>3, <1>4 DEF Next

-----------------------------------------------------------------------------
(* What the episodes tell of all recommendations taken, from Runs.          *)
Opening(j) == \A i \in Flagged : i < j => series[j].t - series[i].t > EpisodeGap
Closing(j) == \A i \in Flagged : i > j => series[i].t - series[j].t > EpisodeGap
RunFrom(a) == {j \in Flagged : j >= a /\ \A i \in Flagged : a < i /\ i <= j => ~Opening(i)}

(* Two recommendations within the gap belong to one episode.                *)
LEMMA NearIsSame ==
    ASSUME RuleInv, RunsInv, NEW i \in Flagged, NEW j \in Flagged, i < j,
           series[j].t - series[i].t <= EpisodeGap,
           NEW e \in 1 .. Len(episodes)
    PROVE  i \in Span(episodes[e], Flagged) <=> j \in Span(episodes[e], Flagged)
<1> DEFINE n == Len(episodes)
<1>1. /\ \A d \in 1 .. n : episodes[d].start \in Int /\ episodes[d].end \in Int
      /\ series[i].t \in Int /\ series[j].t \in Int /\ series[i].t < series[j].t
      /\ EpisodeGap \in Nat /\ n \in Nat
  <2>1. \A d \in 1 .. n : episodes[d] \in Episode BY EpisodesTyped
  <2>2. i \in 1 .. Len(series) /\ j \in 1 .. Len(series) BY RowsTyped
  <2>3. n \in Nat BY EpisodesTyped
  <2> QED BY <2>1, <2>2, <2>3, RowsTyped DEF Episode
<1>2. PICK d \in 1 .. n : i \in Span(episodes[d], Flagged) BY DEF RunsInv, Runs
<1>3. PICK f \in 1 .. n : j \in Span(episodes[f], Flagged) BY DEF RunsInv, Runs
<1>4. \A c, b \in 1 .. n : c < b => episodes[b].start - episodes[c].end > EpisodeGap
  BY DEF RunsInv, Runs
<1>5. \A b \in 1 .. n, k \in Flagged :
         k \in Span(episodes[b], Flagged) <=> episodes[b].start <= series[k].t /\ series[k].t <= episodes[b].end
  BY DEF Span
<1> HIDE DEF n
<1>6. \A b \in 1 .. n : i \in Span(episodes[b], Flagged) => b = f
  <2> SUFFICES ASSUME NEW b \in 1 .. n, i \in Span(episodes[b], Flagged) PROVE b = f
    OBVIOUS
  <2>1. series[i].t <= episodes[b].end /\ episodes[b].start <= series[i].t BY <1>5
  <2>2. series[j].t <= episodes[f].end /\ episodes[f].start <= series[j].t BY <1>3, <1>5
  <2>3. ~(b < f) BY <1>1, <1>4, <2>1, <2>2
  <2>4. ~(f < b) BY <1>1, <1>4, <2>1, <2>2
  <2> QED BY <1>1, <2>3, <2>4
<1>7. \A b \in 1 .. n : j \in Span(episodes[b], Flagged) => b = d
  <2> SUFFICES ASSUME NEW b \in 1 .. n, j \in Span(episodes[b], Flagged) PROVE b = d
    OBVIOUS
  <2>1. series[j].t <= episodes[b].end /\ episodes[b].start <= series[j].t BY <1>5
  <2>2. series[i].t <= episodes[d].end /\ episodes[d].start <= series[i].t BY <1>2, <1>5
  <2>3. ~(b < d) BY <1>1, <1>4, <2>1, <2>2
  <2>4. ~(d < b) BY <1>1, <1>4, <2>1, <2>2
  <2> QED BY <1>1, <2>3, <2>4
<1>8. d = f BY <1>2, <1>3, <1>6
<1> QED BY <1>2, <1>3, <1>6, <1>7, <1>8 DEF n

(* An episode begins at the opening of its run and holds the run.           *)
LEMMA EpisodeIsRun ==
    ASSUME RuleInv, RunsInv, NEW e \in 1 .. Len(episodes),
           NEW a \in Flagged, series[a].t = episodes[e].start
    PROVE  /\ Opening(a) /\ RunFrom(a) = Span(episodes[e], Flagged)
           /\ \A b \in Flagged : Opening(b) /\ b \in Span(episodes[e], Flagged) => b = a
<1> DEFINE ep == episodes[e]
           W == Span(ep, Flagged)
<1>1. /\ \A k \in Flagged : k \in 1 .. Len(series) /\ k \in Nat /\ series[k].t \in Int
      /\ \A i, k \in Flagged : i < k <=> series[i].t < series[k].t
      /\ EpisodeGap \in Nat /\ ep.start \in Int /\ ep.end \in Int
  <2>1. \A k \in Flagged : k \in 1 .. Len(series) /\ k \in Nat BY RowsTyped
  <2>2. \A k \in Flagged : series[k].t \in Int BY <2>1, RowsTyped
  <2>3. \A i, k \in Flagged : i < k => series[i].t < series[k].t BY <2>1, RowsTyped
  <2>4. \A i, k \in Flagged : i < k <=> series[i].t < series[k].t BY <2>1, <2>2, <2>3
  <2>5. ep \in Episode BY EpisodesTyped
  <2>6. ep.start \in Int /\ ep.end \in Int BY <2>5 DEF Episode
  <2> QED BY <2>1, <2>2, <2>4, <2>6, RowsTyped
<1>2. IsRun(ep, Flagged) BY DEF RunsInv, Runs
<1>3. \A k \in Flagged : k \in W <=> ep.start <= series[k].t /\ series[k].t <= ep.end BY DEF Span
<1>4. W \subseteq Flagged BY DEF Span
<1>5. a \in W BY <1>1, <1>2, <1>3 DEF IsRun, Ends
<1>6. \A i, j \in Flagged : i < j /\ series[j].t - series[i].t <= EpisodeGap => (i \in W <=> j \in W)
  BY NearIsSame
<1>7. \A j \in W : \/ series[j].t = ep.start
                   \/ \E i \in Flagged : i < j /\ series[j].t - series[i].t <= EpisodeGap
  BY <1>2 DEF IsRun, Linked
<1> HIDE DEF ep, W
<1>8. \A j \in W : j >= a BY <1>1, <1>3, <1>4 DEF ep
<1>9. Opening(a)
  <2> SUFFICES ASSUME NEW i \in Flagged, i < a, ~(series[a].t - series[i].t > EpisodeGap) PROVE FALSE
    BY DEF Opening
  <2>1. series[a].t - series[i].t <= EpisodeGap BY <1>1
  <2>2. i \in W BY <1>5, <1>6, <2>1
  <2> QED BY <1>1, <1>8, <2>2
<1>10. \A b \in W : Opening(b) => b = a
  <2> SUFFICES ASSUME NEW b \in W, Opening(b), b # a PROVE FALSE
    OBVIOUS
  <2>1. b > a /\ b \in Flagged BY <1>1, <1>4, <1>8
  <2>2. series[b].t # ep.start BY <1>1, <2>1 DEF ep
  <2>3. PICK i \in Flagged : i < b /\ series[b].t - series[i].t <= EpisodeGap BY <1>7, <2>2
  <2> QED BY <1>1, <2>1, <2>3 DEF Opening
<1>11. W \subseteq RunFrom(a)
  <2> SUFFICES ASSUME NEW j \in W, NEW i \in Flagged, a < i, i <= j PROVE ~Opening(i)
    BY <1>4, <1>8 DEF RunFrom
  <2>1. i \in W
    <3>1. series[a].t < series[i].t BY <1>1
    <3>2. series[i].t <= series[j].t
      <4>1. CASE i = j BY <1>1, <4>1
      <4>2. CASE i < j BY <1>1, <1>4, <4>2
      <4> QED BY <1>1, <1>4, <4>1, <4>2
    <3> QED BY <1>1, <1>3, <1>4, <1>5, <3>1, <3>2
  <2> QED BY <1>1, <1>10, <2>1
<1>12. RunFrom(a) \subseteq W
  <2>1. SUFFICES ASSUME NEW j \in RunFrom(a), j \notin W PROVE FALSE
    OBVIOUS
  <2> DEFINE Past == {k \in 1 .. j : k \in Flagged /\ k >= a /\ k \notin W}
  <2>2. j \in Flagged /\ j >= a /\ \A i \in Flagged : a < i /\ i <= j => ~Opening(i) BY DEF RunFrom
  <2>3. j \in Nat /\ j \in Past BY <1>1, <2>1, <2>2
  <2>4. PICK p \in Past : \A y \in Past : p <= y
    <3>1. Past \subseteq Nat OBVIOUS
    <3> QED BY <2>3, <3>1, LeastNat
  <2>5. p \in Flagged /\ p # a /\ p <= j /\ p \in Nat /\ p >= a BY <1>5
  <2>6. ~Opening(p) BY <1>1, <2>2, <2>5
  <2>7. PICK i \in Flagged : i < p /\ ~(series[p].t - series[i].t > EpisodeGap) BY <2>6 DEF Opening
  <2>8. series[p].t - series[i].t <= EpisodeGap BY <1>1, <2>5, <2>7
  <2>9. i \notin W BY <1>6, <2>5, <2>7, <2>8
  <2>10. CASE i < a
    <3>1. series[a].t < series[p].t /\ series[i].t < series[a].t BY <1>1, <2>5, <2>10
    <3>2. series[a].t - series[i].t <= EpisodeGap BY <1>1, <2>5, <2>8, <3>1
    <3> QED BY <1>5, <1>6, <2>9, <2>10, <3>2
  <2>11. CASE i >= a
    <3>1. i \in 1 .. j BY <1>1, <2>3, <2>5, <2>7
    <3>2. i \in Past BY <2>9, <2>11, <3>1
    <3> QED BY <1>1, <2>4, <2>5, <2>7, <3>2
  <2> QED BY <1>1, <2>10, <2>11
<1> QED BY <1>9, <1>10, <1>11, <1>12 DEF W, ep

(* What EpisodesAreRuns says of the run that opens at row a.                *)
Told(a) ==
    [start |-> series[a].t,
     end   |-> series[CHOOSE z \in RunFrom(a) : Closing(z)].t,
     rows  |-> Cardinality(RunFrom(a)),
     peak  |-> Max({series[j].wl : j \in RunFrom(a)})]

LEMMA LastCloses ==
    ASSUME RuleInv, RunsInv, NEW e \in 1 .. Len(episodes),
           NEW W, W = Span(episodes[e], Flagged)
    PROVE  series[CHOOSE z \in W : Closing(z)].t = episodes[e].end
<1> DEFINE ep == episodes[e]
<1>1. /\ \A k \in Flagged : k \in 1 .. Len(series) /\ k \in Nat /\ series[k].t \in Int
      /\ \A i, k \in Flagged : i < k => series[i].t < series[k].t
      /\ EpisodeGap \in Nat /\ ep.start \in Int /\ ep.end \in Int
  <2>1. \A k \in Flagged : k \in 1 .. Len(series) /\ k \in Nat BY RowsTyped
  <2>2. \A k \in Flagged : series[k].t \in Int BY <2>1, RowsTyped
  <2>3. \A i, k \in Flagged : i < k => series[i].t < series[k].t BY <2>1, RowsTyped
  <2>4. ep \in Episode BY EpisodesTyped
  <2>5. ep.start \in Int /\ ep.end \in Int BY <2>4 DEF Episode
  <2> QED BY <2>1, <2>2, <2>3, <2>5, RowsTyped
<1>2. IsRun(ep, Flagged) BY DEF RunsInv, Runs
<1>3. \A k \in Flagged : k \in W <=> ep.start <= series[k].t /\ series[k].t <= ep.end BY DEF Span
<1>4. W \subseteq Flagged BY DEF Span
<1>5. PICK z \in Flagged : series[z].t = ep.end BY <1>2 DEF IsRun, Ends
<1>6. z \in W BY <1>1, <1>2, <1>3, <1>5 DEF IsRun, Ends
<1>7. \A i, j \in Flagged : i < j /\ series[j].t - series[i].t <= EpisodeGap => (i \in W <=> j \in W)
  BY NearIsSame
<1>8. \A j \in W : \/ series[j].t = ep.end
                   \/ \E i \in Flagged : j < i /\ series[i].t - series[j].t <= EpisodeGap
  BY <1>2 DEF IsRun, Linked
<1> HIDE DEF ep
<1>9. Closing(z)
  <2> SUFFICES ASSUME NEW i \in Flagged, i > z, ~(series[i].t - series[z].t > EpisodeGap) PROVE FALSE
    BY DEF Closing
  <2>1. z < i /\ series[i].t - series[z].t <= EpisodeGap BY <1>1
  <2>2. i \in W BY <1>6, <1>7, <2>1
  <2>3. series[i].t <= series[z].t BY <1>3, <1>5, <2>2
  <2> QED BY <1>1, <2>1, <2>3
<1>10. \A y \in W : Closing(y) => series[y].t = ep.end
  <2> SUFFICES ASSUME NEW y \in W, Closing(y), series[y].t # ep.end PROVE FALSE
    OBVIOUS
  <2>1. PICK i \in Flagged : y < i /\ series[i].t - series[y].t <= EpisodeGap BY <1>8
  <2>2. y \in Flagged /\ i > y BY <1>1, <1>4, <2>1
  <2> QED BY <1>1, <2>1, <2>2 DEF Closing
<1> QED BY <1>6, <1>9, <1>10 DEF ep

LEMMA EpisodeTold ==
    ASSUME RuleInv, RunsInv, NEW e \in 1 .. Len(episodes),
           NEW a \in Flagged, series[a].t = episodes[e].start
    PROVE  episodes[e] = Told(a)
<1> DEFINE ep == episodes[e]
           W == Span(ep, Flagged)
           P == {series[j].wl : j \in W}
<1>1. RunFrom(a) = W BY EpisodeIsRun
<1>2. ep \in Episode BY EpisodesTyped
<1>3. Counts(ep, Flagged) BY DEF RunsInv, Runs, IsRun
<1>4. series[CHOOSE z \in W : Closing(z)].t = ep.end BY LastCloses
<1>5. ep.rows = Cardinality(W) BY <1>3 DEF Counts
<1>6. Max(P) = ep.peak
  <2>1. ep.peak \in P /\ \A y \in P : ep.peak >= y BY <1>3 DEF Counts
  <2>2. \A y \in P : y \in Int
    <3>1. \A j \in W : j \in 1 .. Len(series) BY RowsTyped DEF Span
    <3> QED BY <3>1, RowsTyped
  <2> HIDE DEF P, ep
  <2>3. \A y \in P : (\A x \in P : y >= x) => y = ep.peak BY <2>1, <2>2
  <2> QED BY <2>1, <2>3 DEF Max
<1>7. Told(a) = [start |-> ep.start, end |-> ep.end, rows |-> ep.rows, peak |-> ep.peak]
  BY <1>1, <1>4, <1>5, <1>6 DEF Told
<1> HIDE DEF ep
<1>8. ep = [start |-> ep.start, end |-> ep.end, rows |-> ep.rows, peak |-> ep.peak]
  BY <1>2 DEF Episode
<1> QED BY <1>7, <1>8 DEF ep

LEMMA RunsTell == ASSUME RuleInv, RunsInv PROVE EpisodesAreRuns
<1>1. DOMAIN episodes = 1 .. Len(episodes) BY EpisodesTyped
<1>2. ASSUME NEW e \in 1 .. Len(episodes)
      PROVE  \E a \in Flagged : Opening(a) /\ episodes[e] = Told(a)
  <2>1. PICK a \in Flagged : series[a].t = episodes[e].start BY DEF RunsInv, Runs, IsRun, Ends
  <2> QED BY <2>1, EpisodeIsRun, EpisodeTold
<1>3. ASSUME NEW a \in Flagged, Opening(a)
      PROVE  \E e \in 1 .. Len(episodes) : episodes[e] = Told(a)
  <2>1. PICK e \in 1 .. Len(episodes) : a \in Span(episodes[e], Flagged) BY DEF RunsInv, Runs
  <2>2. PICK b \in Flagged : series[b].t = episodes[e].start BY DEF RunsInv, Runs, IsRun, Ends
  <2>3. a = b BY <1>3, <2>1, <2>2, EpisodeIsRun
  <2> QED BY <2>2, <2>3, EpisodeTold
<1>4. {episodes[e] : e \in DOMAIN episodes} = {Told(a) : a \in {j \in Flagged : Opening(j)}}
  BY <1>1, <1>2, <1>3
<1> QED BY <1>4 DEF EpisodesAreRuns, Told, RunFrom, Opening, Closing, Flagged

(* The base row lies in the window, whatever the gaps.                      *)
LEMMA BaseInWindow ==
    ASSUME RuleInv, NEW j \in 1 .. Len(series)
    PROVE  BaseAt(j) \in WindowAt(j)
<1> DEFINE W == WindowAt(j)
           E == {k \in W : series[k].t <= series[j].t - rule.rate}
<1>1. /\ W \subseteq 1 .. Len(series) /\ Len(series) \in Nat /\ DOMAIN series = 1 .. Len(series)
  BY RowsTyped DEF WindowAt
<1>2. j \in W BY <1>1, RowsTyped, PeriodsAssumption DEF WindowAt
<1>3. BaseAt(j) = IF E # {} THEN CHOOSE k \in E : \A m \in E : m <= k
                            ELSE CHOOSE k \in W : \A m \in W : k <= m
  BY DEF BaseAt
<1>4. E \subseteq W OBVIOUS
<1> HIDE DEF W, E
<1>5. CASE E # {}
  <2>1. E \subseteq 1 .. Len(series) BY <1>1, <1>4
  <2>2. \E k \in E : \A m \in E : m <= k BY <1>1, <1>5, <2>1, GreatestBelow
  <2> QED BY <1>3, <1>4, <1>5, <2>2 DEF W
<1>6. CASE E = {}
  <2>1. W \subseteq Nat BY <1>1
  <2>2. \E k \in W : \A m \in W : k <= m BY <1>2, <2>1, LeastNat
  <2> QED BY <1>3, <1>6, <2>2 DEF W
<1> QED BY <1>5, <1>6

LEMMA DoubtIsMarked == ASSUME RuleInv PROVE DoubtfulEpisodesMarked
<1> SUFFICES ASSUME NEW j \in DOMAIN series, NEW e \in DOMAIN episodes,
                    episodes[e].start <= series[j].t, series[j].t <= episodes[e].end,
                    NEW i \in Pairs, Missing(i) \/ Jump(i),
                    series[BaseAt(j)].t <= stored[i].t, stored[i + 1].t <= series[j].t
             PROVE  NeedsLook(episodes[e])
  BY DEF DoubtfulEpisodesMarked
<1>1. j \in 1 .. Len(series) /\ series[j].t \in Int BY RowsTyped
<1>2. BaseAt(j) \in DOMAIN series /\ series[j].t - Window <= series[BaseAt(j)].t
  BY <1>1, BaseInWindow DEF WindowAt
<1>3. series[BaseAt(j)].t \in Int BY <1>2, RowsTyped
<1>4. stored[i].t \in Int /\ stored[i + 1].t \in Int /\ stored[i].t < stored[i + 1].t
  <2>1. stored \in Seq([t : Int, wl : Int]) /\ Sorted(stored) BY DEF RuleInv, TypeOK, Sorted
  <2>2. i \in DOMAIN stored /\ i + 1 \in DOMAIN stored BY DEF Pairs
  <2>3. \A k \in DOMAIN stored : stored[k] \in [t : Int, wl : Int] /\ k \in Int
    <3> DEFINE Reading == [t : Int, wl : Int]
    <3>1. stored \in Seq(Reading) BY <2>1
    <3> HIDE DEF Reading
    <3>2. DOMAIN stored = 1 .. Len(stored) /\ Len(stored) \in Nat BY <3>1
    <3>3. \A k \in 1 .. Len(stored) : stored[k] \in Reading BY <3>1, SeqElement
    <3> QED BY <3>2, <3>3 DEF Reading
  <2>4. i < i + 1 BY <2>2, <2>3
  <2>5. stored[i].t < stored[i + 1].t BY <2>1, <2>2, <2>4 DEF Sorted
  <2> QED BY <2>2, <2>3, <2>5
<1>5. episodes[e].start \in Int /\ episodes[e].end \in Int /\ Window \in Nat
  <2>1. episodes[e] \in Episode BY EpisodesTyped
  <2> QED BY <2>1, PeriodsAssumption DEF Episode
<1>6. /\ episodes[e].start - Window <= stored[i + 1].t /\ stored[i + 1].t <= episodes[e].end
      /\ stored[i].t < episodes[e].end /\ stored[i + 1].t > episodes[e].start - Window
  BY <1>1, <1>2, <1>3, <1>4, <1>5, SMTT(30)
<1> QED BY <1>6 DEF NeedsLook

(* For every season, with whatever gaps and quarantines, the episodes are   *)
(* the runs of recommendations, each with its count and its peak, and those *)
(* that rest on doubtful data are marked.                                   *)
THEOREM EpisodesTellTheSeasonHolds == Spec => []EpisodesTellTheSeason
<1>1. Init => RuleInv /\ RunsInv BY InitInv, RunsStart
<1>2. RuleInv /\ RunsInv /\ [Next]_vars => (RuleInv /\ RunsInv)' BY NextInv, RunsStep
<1>3. RuleInv /\ RunsInv => EpisodesTellTheSeason
  BY RunsTell, DoubtIsMarked DEF EpisodesTellTheSeason
<1> QED BY <1>1, <1>2, <1>3, PTL DEF Spec

-----------------------------------------------------------------------------
(***************************************************************************)
(* A closure the scorecard counts as a miss is one no recommendation was   *)
(* near.  Between two linked recommendations no moment is further than the *)
(* gap from both, so the records near an episode are the records near one  *)
(* of its recommendations.                                                 *)
(***************************************************************************)

Linkage(list) == UNION {Outcome(list, e).linked : e \in DOMAIN episodes}

(* The card is of the episodes that are there.                              *)
CardInv ==
    card # None =>
        /\ pc = "done" /\ records \in RecordLists
        /\ DOMAIN card.other = DOMAIN records \ Linkage(records)

(* Near an episode is near one of its recommendations.                      *)
LEMMA NearOne ==
    ASSUME RuleInv, RunsInv, NEW e \in 1 .. Len(episodes), NEW x \in Int,
           episodes[e].start - EpisodeGap <= x, x <= episodes[e].end + EpisodeGap
    PROVE  \E j \in Flagged : series[j].t - EpisodeGap <= x /\ x <= series[j].t + EpisodeGap
<1> DEFINE ep == episodes[e]
           W == Span(ep, Flagged)
<1>1. /\ \A k \in Flagged : k \in 1 .. Len(series) /\ k \in Nat /\ series[k].t \in Int
      /\ \A i, k \in Flagged : i < k => series[i].t < series[k].t
      /\ EpisodeGap \in Nat /\ ep.start \in Int /\ ep.end \in Int /\ Len(series) \in Nat
  <2>1. \A k \in Flagged : k \in 1 .. Len(series) /\ k \in Nat BY RowsTyped
  <2>2. \A k \in Flagged : series[k].t \in Int BY <2>1, RowsTyped
  <2>3. \A i, k \in Flagged : i < k => series[i].t < series[k].t BY <2>1, RowsTyped
  <2>4. ep \in Episode BY EpisodesTyped
  <2>5. ep.start \in Int /\ ep.end \in Int BY <2>4 DEF Episode
  <2> QED BY <2>1, <2>2, <2>3, <2>5, RowsTyped
<1>2. IsRun(ep, Flagged) BY DEF RunsInv, Runs
<1>3. PICK a \in Flagged : series[a].t = ep.start BY <1>2 DEF IsRun, Ends
<1>4. PICK z \in Flagged : series[z].t = ep.end BY <1>2 DEF IsRun, Ends
<1>5. \A k \in Flagged : k \in W <=> ep.start <= series[k].t /\ series[k].t <= ep.end BY DEF Span
<1>6. \A i, j \in Flagged : i < j /\ series[j].t - series[i].t <= EpisodeGap => (i \in W <=> j \in W)
  BY NearIsSame
<1>7. /\ W \subseteq Flagged
      /\ \A j \in W : \/ series[j].t = ep.end
                      \/ \E i \in Flagged : j < i /\ series[i].t - series[j].t <= EpisodeGap
  BY <1>2 DEF IsRun, Linked, Span
<1>8. ep.start <= ep.end /\ ep.start - EpisodeGap <= x /\ x <= ep.end + EpisodeGap
  BY <1>2 DEF IsRun, Ends
<1> HIDE DEF ep, W
<1>9. CASE x <= ep.start BY <1>1, <1>3, <1>8, <1>9
<1>10. CASE x >= ep.end BY <1>1, <1>4, <1>8, <1>10
<1>11. CASE ep.start < x /\ x < ep.end
  <2> DEFINE T == {k \in W : series[k].t <= x}
             p == Max(T)
  <2>1. a \in T BY <1>1, <1>3, <1>5, <1>8, <1>11
  <2>2. T \subseteq 1 .. Len(series) BY <1>1, <1>7
  <2>3. p \in T /\ \A y \in T : y <= p BY <1>1, <2>1, <2>2, GreatestBelow
  <2> HIDE DEF p
  <2>4. p \in W /\ p \in Flagged /\ series[p].t <= x BY <1>7, <2>3
  <2>5. series[p].t # ep.end BY <1>1, <1>11, <2>4
  <2>6. PICK i \in Flagged : p < i /\ series[i].t - series[p].t <= EpisodeGap BY <1>7, <2>4, <2>5
  <2>7. i \in W BY <1>6, <2>4, <2>6
  <2>8. i \notin T BY <1>1, <2>3, <2>4, <2>6
  <2>9. series[i].t > x BY <1>1, <2>7, <2>8
  <2> DEFINE tp == series[p].t
             ti == series[i].t
  <2>10. tp \in Int /\ ti \in Int /\ EpisodeGap \in Nat /\ x \in Int BY <1>1, <2>4
  <2>11. tp <= x /\ x < ti /\ ti - tp <= EpisodeGap BY <2>4, <2>6, <2>9
  <2>12. tp - EpisodeGap <= x /\ x <= tp + EpisodeGap
    <3> HIDE DEF tp, ti
    <3> QED BY <2>10, <2>11
  <2> QED BY <2>4, <2>12
<1> QED BY <1>1, <1>9, <1>10, <1>11

(* A closure is linked to every episode it is near.                         *)
LEMMA ClosureLinked ==
    ASSUME NEW list, NEW r \in DOMAIN list, list[r].kind = "CLOSED", NEW e
    PROVE  r \in Outcome(list, e).linked <=> r \in Near(list, e)
<1> DEFINE closed   == {q \in Near(list, e) : list[q].kind = "CLOSED"}
           declined == {q \in Near(list, e) : list[q].kind = "NOT_CLOSED"}
           entry(o, l, m) == [outcome |-> o, linked |-> l, lead |-> m]
<1>1. CASE r \in Near(list, e)
  <2>1. r \in closed BY <1>1
  <2>2. Outcome(list, e) = entry("hit", closed, list[Min(closed)].at - episodes[e].start)
    BY <2>1 DEF Outcome
  <2>3. Outcome(list, e).linked = closed BY <2>2
  <2> QED BY <1>1, <2>1, <2>3
<1>2. CASE r \notin Near(list, e)
  <2>1. \/ Outcome(list, e) = entry("hit", closed, list[Min(closed)].at - episodes[e].start)
        \/ Outcome(list, e) = entry("not_closed", declined, None)
        \/ Outcome(list, e) = entry("unrecorded", {}, None)
    <3>1. CASE closed # {} BY <3>1 DEF Outcome
    <3>2. CASE closed = {} /\ declined # {} BY <3>2 DEF Outcome
    <3>3. CASE closed = {} /\ declined = {} BY <3>3 DEF Outcome
    <3> QED BY <3>1, <3>2, <3>3
  <2>2. Outcome(list, e).linked \in {closed, declined, {}} BY <2>1
  <2>3. r \notin closed /\ r \notin declined BY <1>2
  <2> QED BY <1>2, <2>2, <2>3
<1> QED BY <1>1, <1>2

LEMMA CardTells == ASSUME RuleInv, RunsInv, CardInv PROVE MissIffUnseen
<1> SUFFICES ASSUME card # None, NEW r \in DOMAIN records, records[r].kind = "CLOSED"
             PROVE  r \in DOMAIN card.other <=>
                      ~ \E j \in DOMAIN flags :
                          /\ flags[j]
                          /\ series[j].t - EpisodeGap <= records[r].at
                          /\ records[r].at <= series[j].t + EpisodeGap
  BY DEF MissIffUnseen
<1> DEFINE x == records[r].at
<1>1. x \in Int
  <2> DEFINE Rec == [kind : {"CLOSED", "NOT_CLOSED"}, at : Int]
  <2>1. records \in Seq(Rec) BY RecordListsAssumption DEF CardInv
  <2> HIDE DEF Rec
  <2>2. records[r] \in Rec
    <3>1. DOMAIN records = 1 .. Len(records) BY <2>1
    <3> QED BY <2>1, <3>1, SeqElement
  <2> QED BY <2>2 DEF Rec
<1>2. /\ pc = "done" /\ taken = Len(series) /\ Len(flags) = Len(series)
      /\ DOMAIN card.other = DOMAIN records \ Linkage(records)
  BY DEF CardInv, RunsInv
<1>3. DOMAIN flags = 1 .. taken BY <1>2 DEF RuleInv, TypeOK
<1>4. r \in Linkage(records) <=> \E e \in 1 .. Len(episodes) : r \in Near(records, e)
  <2>1. DOMAIN episodes = 1 .. Len(episodes) BY EpisodesTyped
  <2> QED BY <2>1, ClosureLinked DEF Linkage
<1>5. \A e \in 1 .. Len(episodes) :
         r \in Near(records, e) <=> episodes[e].start - EpisodeGap <= x /\ x <= episodes[e].end + EpisodeGap
  BY DEF Near
<1>6. (\E e \in 1 .. Len(episodes) : r \in Near(records, e))
        <=> \E j \in Flagged : series[j].t - EpisodeGap <= x /\ x <= series[j].t + EpisodeGap
  <2>1. ASSUME NEW e \in 1 .. Len(episodes), r \in Near(records, e)
        PROVE  \E j \in Flagged : series[j].t - EpisodeGap <= x /\ x <= series[j].t + EpisodeGap
    BY <1>1, <1>5, <2>1, NearOne
  <2>2. ASSUME NEW j \in Flagged, series[j].t - EpisodeGap <= x, x <= series[j].t + EpisodeGap
        PROVE  \E e \in 1 .. Len(episodes) : r \in Near(records, e)
    <3>1. PICK e \in 1 .. Len(episodes) : j \in Span(episodes[e], Flagged) BY DEF RunsInv, Runs
    <3>2. episodes[e].start <= series[j].t /\ series[j].t <= episodes[e].end BY <3>1 DEF Span
    <3>3. episodes[e].start \in Int /\ episodes[e].end \in Int
      <4>1. episodes[e] \in Episode BY EpisodesTyped
      <4> QED BY <4>1 DEF Episode
    <3>4. series[j].t \in Int /\ EpisodeGap \in Nat BY RowsTyped
    <3>5. episodes[e].start - EpisodeGap <= x /\ x <= episodes[e].end + EpisodeGap
      BY <1>1, <2>2, <3>2, <3>3, <3>4
    <3> QED BY <1>5, <3>5
  <2> QED BY <2>1, <2>2
<1> QED BY <1>2, <1>3, <1>4, <1>6 DEF Flagged

LEMMA CardStep == RuleInv /\ RunsInv /\ CardInv /\ [ScoreNext]_<<vars, records, card>> => CardInv'
<1> SUFFICES ASSUME RuleInv, RunsInv, CardInv, [ScoreNext]_<<vars, records, card>> PROVE CardInv'
  OBVIOUS
<1>1. ASSUME UNCHANGED <<pc, episodes, records, card>> PROVE CardInv'
  <2>1. Linkage(records)' = Linkage(records) BY <1>1 DEF Linkage, Outcome, Near
  <2> QED BY <1>1, <2>1 DEF CardInv
<1>2. CASE Next /\ UNCHANGED <<records, card>>
  <2>1. CASE card = None BY <1>2, <2>1 DEF CardInv
  <2>2. CASE card # None
    <3>1. pc = "done" BY <2>2 DEF CardInv
    <3>2. FALSE
      BY <1>2, <3>1 DEF Next, AdvanceWindow, AdvanceBase, FlagRow, FlagsDone, TakeRow, EpisodesDone, Scanning
    <3> QED BY <3>2
  <2> QED BY <2>1, <2>2
<1>3. CASE UNCHANGED <<vars, records, card>> BY <1>1, <1>3 DEF vars
<1>4. ASSUME NEW list \in RecordLists, Match(list) PROVE CardInv'
  <2> DEFINE rows == [e \in DOMAIN episodes |-> Outcome(list, e)]
             used == UNION {rows[e].linked : e \in DOMAIN rows}
  <2>1. /\ pc = "done" /\ records' = list /\ UNCHANGED <<pc, episodes>>
        /\ card' = [rows |-> rows,
                    other |-> [r \in DOMAIN list \ used |->
                                 IF list[r].kind = "CLOSED" THEN "miss" ELSE "quiet"]]
    BY <1>4 DEF Match, vars
  <2>2. DOMAIN card'.other = DOMAIN list \ used BY <2>1
  <2>3. used = Linkage(list) BY DEF Linkage
  <2>4. Linkage(records)' = Linkage(list)
    <3>1. ASSUME NEW e PROVE Near(records, e)' = Near(list, e) BY <2>1 DEF Near
    <3>2. ASSUME NEW e PROVE Outcome(records, e)' = Outcome(list, e) BY <2>1, <3>1 DEF Outcome
    <3> HIDE DEF rows, used
    <3> QED BY <2>1, <3>2 DEF Linkage
  <2> QED BY <2>1, <2>2, <2>3, <2>4 DEF CardInv
<1> QED BY <1>2, <1>3, <1>4 DEF ScoreNext

(* Whatever the season and the records, the scorecard counts a closure as a *)
(* miss of the rule exactly when no reading within MATCH_WINDOW of it made  *)
(* the rule recommend one, however recommendations were joined.             *)
THEOREM MissIffUnseenHolds == ScoreSpec => []MissIffUnseen
<1>1. ScoreInit => RuleInv /\ RunsInv /\ CardInv
  BY InitInv, RunsStart DEF ScoreInit, CardInv
<1>2. RuleInv /\ RunsInv /\ CardInv /\ [ScoreNext]_<<vars, records, card>> => (RuleInv /\ RunsInv /\ CardInv)'
  <2>1. [ScoreNext]_<<vars, records, card>> => [Next]_vars
    BY DEF ScoreNext, Match
  <2> QED BY <2>1, NextInv, RunsStep, CardStep
<1>3. RuleInv /\ RunsInv /\ CardInv => MissIffUnseen BY CardTells
<1> QED BY <1>1, <1>2, <1>3, PTL DEF ScoreSpec

-----------------------------------------------------------------------------
(***************************************************************************)
(* For every facility, every set of inputs, every storm and every amount   *)
(* of rain: what a row of the facility board says of itself is true.       *)
(***************************************************************************)

(* A row is the judgement of the case as it is, or in the storm.            *)
RowInv ==
    /\ case \in Cases
    /\ storm = NoData \/ storm \in Storms
    /\ Judged => row = FacilityRow(case[1], Taken)
    /\ ~Judged => storm = NoData

-----------------------------------------------------------------------------
(* The highest of a few levels is one of them and no less than any.         *)
LEMMA MaxOfThree ==
    ASSUME NEW a \in Nat, NEW b \in Nat, NEW c \in Nat
    PROVE  Max({a, b, c}) \in {a, b, c} /\ \A x \in {a, b, c} : Max({a, b, c}) >= x
<1>1. \E x \in {a, b, c} : \A y \in {a, b, c} : x >= y
  OBVIOUS
<1> QED BY <1>1 DEF Max

LEMMA MaxOfFour ==
    ASSUME NEW a \in Nat, NEW b \in Nat, NEW c \in Nat, NEW d \in Nat
    PROVE  /\ Max({a, b, c, d}) \in {a, b, c, d}
           /\ \A x \in {a, b, c, d} : Max({a, b, c, d}) >= x
<1>1. \E x \in {a, b, c, d} : \A y \in {a, b, c, d} : x >= y
  OBVIOUS
<1> QED BY <1>1 DEF Max

LEMMA Levels ==
    /\ \A s : StageLevel(s) \in 0 .. 4
    /\ \A w : Floor(w) \in {0, 2, 3}
    /\ \A rain : PluvialLevel(rain) \in 0 .. 3
BY DEF StageLevel, Floor, PluvialLevel

(* A storm leaves proper inputs.                                            *)
LEMMA SimulatedType ==
    ASSUME NEW f \in Facilities, NEW in \in RiskInputs, NEW s \in Storms
    PROVE  Simulated(f, in, s) \in RiskInputs
<1>1. StormStage(s.station) \in {StageNames[k] : k \in 1 .. 6} \cup {NoData}
  BY DEF StormStage, StageNames
<1>2. LiftedStage(in.stage, s.station) \in {StageNames[k] : k \in 1 .. 6} \cup {NoData}
  BY <1>1 DEF LiftedStage, RiskInputs
<1> QED BY <1>2, RiskAssumption DEF Simulated, RiskInputs

LEMMA TakenType ==
    ASSUME RowInv
    PROVE  case[1] \in Facilities /\ Taken \in RiskInputs
BY SimulatedType, RiskAssumption DEF RowInv, Taken

LEMMA Invariant == RiskSpec => []RowInv
<1>1. RiskInit => RowInv
  BY RiskAssumption DEF RiskInit, RowInv, Judged
<1>2. RowInv /\ [RiskNext]_riskVars => RowInv'
  <2> SUFFICES ASSUME RowInv, [RiskNext]_riskVars PROVE RowInv'
    OBVIOUS
  <2>1. CASE Judge
    BY <2>1, RiskAssumption DEF Judge, RowInv, Judged, Taken
  <2>2. ASSUME NEW s \in Storms, JudgeInStorm(s) PROVE RowInv'
    <3>1. s # NoData => Taken' = Simulated(case[1], case[2], s)
      BY <2>2 DEF JudgeInStorm, Taken
    <3>2. s # NoData
      BY RiskAssumption
    <3> QED BY <2>2, <3>1, <3>2, RiskAssumption DEF JudgeInStorm, RowInv, Judged
  <2>3. CASE UNCHANGED riskVars
    BY <2>3 DEF riskVars, RowInv, Judged, Taken
  <2> QED BY <2>1, <2>2, <2>3 DEF RiskNext
<1> QED BY <1>1, <1>2, PTL DEF RiskSpec

-----------------------------------------------------------------------------
(* The row that RowInv gives, field by field.                                 *)
LEMMA RowFields ==
    ASSUME NEW f \in Facilities, NEW in \in RiskInputs
    PROVE  LET r == FacilityRow(f, in)
           IN /\ r.route = Route(f) /\ r.level = RiskLevel(f, in) /\ r.status = Status(f, in)
              /\ r.issued = Issued(f, in) /\ r.weather = Weather(f, in)
              /\ r.evidence.river.used = (Route(f) = "river")
              /\ r.evidence.rain.used = (Route(f) = "pluvial")
              /\ r.evidence.rain.candidate = PluvialLevel(in.rain)
              /\ r.evidence.issued.used = (Issued(f, in) # NoData /\ Route(f) = "river")
              /\ r.evidence.weather.status = IF Weather(f, in) # NoData THEN "ACTIVE" ELSE "NONE_OR_NOT_MATCHED"
BY DEF FacilityRow, Evidence

(* The level of a row with a gauge, or of a pluvial one, is the highest of  *)
(* the paths that its evidence marks as used.                               *)
THEOREM EvidenceIsTheLevel == RiskSpec => []EvidenceExplainsLevel
<1>1. RowInv => EvidenceExplainsLevel
  <2> SUFFICES ASSUME RowInv, Judged, row.route # "pluvial_fallback"
               PROVE  LET e == row.evidence
                      IN row.level = Max({IF e.river.used THEN StageLevel(Taken.stage) ELSE 0,
                            IF e.rain.used THEN e.rain.candidate ELSE 0,
                            IF e.issued.used THEN Floor(row.issued) ELSE 0,
                            IF e.weather.status = "ACTIVE" THEN Floor(row.weather) ELSE 0})
    BY DEF EvidenceExplainsLevel
  <2> DEFINE f == case[1]
             in == Taken
  <2>1. f \in Facilities /\ in \in RiskInputs /\ row = FacilityRow(f, in)
    BY TakenType DEF RowInv
  <2> HIDE DEF f, in
  <2> DEFINE observed == ObservedLevel(f, in)
             issued == Floor(Issued(f, in))
             weather == Floor(Weather(f, in))
             river   == IF row.evidence.river.used THEN StageLevel(in.stage) ELSE 0
             rain    == IF row.evidence.rain.used THEN row.evidence.rain.candidate ELSE 0
             command == IF row.evidence.issued.used THEN Floor(row.issued) ELSE 0
             alert   == IF row.evidence.weather.status = "ACTIVE" THEN Floor(row.weather) ELSE 0
  <2>2. observed \in Nat /\ issued \in Nat /\ weather \in Nat
    BY Levels DEF ObservedLevel
  <2>3. row.level = Max({observed, issued, weather})
    BY <2>1, RowFields DEF RiskLevel
  <2>4. Floor(NoData) = 0
    BY RiskAssumption DEF Floor, Warnings
  <2>0. alert = weather
    BY <2>1, <2>4, RowFields
  <2>5. CASE Route(f) = "river"
    <3>1. observed = StageLevel(in.stage)
      BY <2>5 DEF ObservedLevel, ByRain
    <3>2. river = observed /\ rain = 0
      BY <2>1, <2>5, <3>1, RowFields
    <3>4. command = issued
      BY <2>1, <2>4, <2>5, RowFields
    <3>3. Max({observed, issued, weather, 0}) = Max({observed, issued, weather})
      BY <2>2, MaxOfThree, MaxOfFour
    <3> QED BY <2>3, <2>0, <3>2, <3>3, <3>4 DEF in
  <2>6. CASE Route(f) = "pluvial"
    <3>1. observed = PluvialLevel(in.rain) /\ issued = 0
      BY <2>4, <2>6 DEF ObservedLevel, ByRain, Route, Issued
    <3>2. river = 0 /\ rain = observed /\ command = 0
      BY <2>1, <2>6, <3>1, RowFields
    <3>3. {0, observed, 0, weather} = {observed, issued, weather}
      BY <3>1
    <3> QED BY <2>3, <2>0, <3>2, <3>3 DEF in
  <2> QED BY <2>1, <2>5, <2>6, RowFields DEF Route
<1> QED BY <1>1, Invariant, PTL
(* A row's status and its evidence tell the same story.                     *)
THEOREM StatusIsTheEvidence == RiskSpec => []StatusMatchesEvidence
<1>1. RowInv => StatusMatchesEvidence
  <2> SUFFICES ASSUME RowInv, Judged PROVE StatusMatchesEvidence
    BY DEF StatusMatchesEvidence
  <2>1. case[1] \in Facilities /\ Taken \in RiskInputs /\ row = FacilityRow(case[1], Taken)
    BY TakenType DEF RowInv
  <2>2. ASSUME NEW f \in Facilities, NEW in \in RiskInputs, row = FacilityRow(f, in)
        PROVE  StatusMatchesEvidence
    <3>1. /\ row.route = Route(f) /\ row.status = Status(f, in)
          /\ row.evidence = Evidence(f, in)
      BY <2>2 DEF FacilityRow
    <3>2. CASE Route(f) = "river"
      <4>1. f.gauge /\ Status(f, in) = StatusByStage(f, in)
        BY <3>2 DEF Route, Status, ByRain
      <4>2. /\ row.route = "river"
            /\ row.evidence.river.status = IF in.stage = NoData THEN "UNAVAILABLE" ELSE in.quality
            /\ row.evidence.issued.status =
                  IF Issued(f, in) # NoData THEN "ACTIVE" ELSE "NOT_ACTIVE_OR_HISTORY_UNAVAILABLE"
        BY <3>1, <3>2, <4>1 DEF Evidence
      <4>3. in.quality # "UNAVAILABLE"
        BY RiskAssumption DEF RiskInputs
      <4> QED BY <3>1, <4>1, <4>2, <4>3 DEF StatusMatchesEvidence, StatusByStage
    <3>3. CASE Route(f) # "river"
      <4>1. Status(f, in) = StatusByRain(f, in)
        BY <3>3 DEF Status, ByRain
      <4> QED BY <3>1, <3>3, <4>1 DEF StatusMatchesEvidence, Evidence, StatusByRain
    <3> QED BY <3>2, <3>3
  <2> QED BY <2>1, <2>2
<1> QED BY <1>1, Invariant, PTL

(* A facility shown calm and assessed was looked at.                        *)
THEOREM CalmWasSeen == RiskSpec => []CalmIsSeen
<1>1. RowInv => CalmIsSeen
  <2> SUFFICES ASSUME RowInv, Judged, row.level = 0,
                      row.status \in {"ASSESSED_SCREENING_ONLY", "ASSESSED_REFERENCE_ONLY"}
               PROVE  IF row.route = "river"
                      THEN Taken.stage \in {"unrated", "normal"} /\ Taken.quality \notin {"stale", "suspect", "missing"}
                      ELSE LongWindows \subseteq Known(Taken.rain) /\ ~Fell(Taken.rain, "12h", 110)
                           /\ ~Fell(Taken.rain, "3h", 60) /\ ~Fell(Taken.rain, "1h", 15)
    BY DEF CalmIsSeen
  <2>1. case[1] \in Facilities /\ Taken \in RiskInputs /\ row = FacilityRow(case[1], Taken)
    BY TakenType DEF RowInv
  <2> DEFINE f == case[1]
             in == Taken
  <2>2. row.route = Route(f) /\ row.level = RiskLevel(f, in) /\ row.status = Status(f, in)
    BY <2>1, RowFields
  <2>3. ObservedLevel(f, in) = 0 /\ Floor(Issued(f, in)) = 0
    <3>1. ObservedLevel(f, in) \in Nat /\ Floor(Issued(f, in)) \in Nat /\ Floor(Weather(f, in)) \in Nat
      BY Levels DEF ObservedLevel
    <3>2. Max({ObservedLevel(f, in), Floor(Issued(f, in)), Floor(Weather(f, in))}) = 0
      BY <2>2 DEF RiskLevel
    <3> HIDE DEF f, in
    <3> QED BY <3>1, <3>2, MaxOfThree
  <2>4. CASE Route(f) = "river"
    <3>1. StageLevel(in.stage) = 0 /\ Status(f, in) = StatusByStage(f, in)
      BY <2>3, <2>4 DEF ObservedLevel, Status, ByRain
    <3>2. Issued(f, in) = NoData
      BY <2>1, <2>3 DEF Issued, Floor, RiskInputs, Warnings
    <3>3. in.stage # NoData /\ in.quality \notin {"stale", "suspect", "missing"}
      BY <2>2, <3>1, <3>2 DEF StatusByStage
    <3>4. in.stage \in {"unrated", "normal"}
      BY <2>1, <3>1, <3>3 DEF StageLevel, RiskInputs, StageNames
    <3> QED BY <2>2, <2>4, <3>3, <3>4
  <2>5. CASE Route(f) # "river"
    <3>1. PluvialLevel(in.rain) = 0 /\ Status(f, in) = StatusByRain(f, in)
      BY <2>3, <2>5 DEF ObservedLevel, Status, ByRain
    <3>2. LongWindows \subseteq Known(in.rain)
      BY <2>2, <3>1 DEF StatusByRain
    <3>3. ~Fell(in.rain, "12h", 110) /\ ~Fell(in.rain, "3h", 60) /\ ~Fell(in.rain, "1h", 15)
      BY <3>1 DEF PluvialLevel, Strong
    <3> QED BY <2>2, <2>5, <3>2, <3>3
  <2> QED BY <2>4, <2>5
<1> QED BY <1>1, Invariant, PTL

(* More rain never lowers a facility, whatever the windows and amounts.     *)
LEMMA PluvialRises ==
    ASSUME NEW rain \in [RainWindows -> Nat \cup {NoData}], NEW w \in RainWindows, NEW mm \in Nat,
           rain[w] # NoData => rain[w] <= mm
    PROVE  PluvialLevel(rain) <= PluvialLevel([rain EXCEPT ![w] = mm])
<1> DEFINE more == [rain EXCEPT ![w] = mm]
<1>1. rain # NoData /\ more # NoData /\ mm # NoData
  BY RiskAssumption
<1>2. ASSUME NEW v \in RainWindows, NEW bound \in Nat, Fell(rain, v, bound)
      PROVE  Fell(more, v, bound)
  BY <1>1, <1>2 DEF Fell, Known
<1>3. {"10m", "15m", "1h", "3h", "12h"} = RainWindows
  BY DEF RainWindows
<1>4. /\ Fell(rain, "12h", 180) => Fell(more, "12h", 180)
      /\ Fell(rain, "3h", 90) => Fell(more, "3h", 90)
      /\ Fell(rain, "12h", 110) => Fell(more, "12h", 110)
      /\ Fell(rain, "3h", 60) => Fell(more, "3h", 60)
      /\ Strong(rain) => Strong(more)
  BY <1>2, <1>3, ZenonT(30) DEF Strong
<1> HIDE DEF more
<1>5. PluvialLevel(rain) <= PluvialLevel(more)
  BY <1>4 DEF PluvialLevel
<1> QED BY <1>5 DEF more

THEOREM RainOnlyRaises == RiskSpec => []MoreRainNeverLowers
<1>1. RowInv => MoreRainNeverLowers
  BY TakenType, PluvialRises, RiskAssumption DEF MoreRainNeverLowers, RiskInputs, RainReadings
<1> QED BY <1>1, Invariant, PTL

(* A storm lifts the stage or leaves it.                                    *)
LEMMA StormLifts ==
    ASSUME NEW s \in {StageNames[k] : k \in 1 .. 6} \cup {NoData}, NEW mm \in Nat
    PROVE  StageLevel(LiftedStage(s, mm)) >= StageLevel(s)
<1>1. DOMAIN StageNames = 1 .. 6
  BY DEF StageNames
<1>2. \A i, j \in 1 .. 6 : StageNames[i] = StageNames[j] => i = j
  BY DEF StageNames
<1>3. \A k \in 1 .. 6 : Rank(StageNames[k]) = k
  BY <1>1, <1>2, RiskAssumption DEF Rank
<1>4. /\ Rank("unrated") = 1 /\ Rank("normal") = 2 /\ Rank("attention") = 3
      /\ Rank("advisory") = 4 /\ Rank("warning") = 5 /\ Rank("planned_flood") = 6
      /\ Rank(NoData) = 0
  BY <1>3 DEF StageNames, Rank
<1>5. s \in {"unrated", "normal", "attention", "advisory", "warning", "planned_flood", NoData}
  BY DEF StageNames
<1>6. StormStage(mm) \in {"attention", "advisory", "warning", "planned_flood", NoData}
  BY DEF StormStage
<1>7. \A a, b \in {"unrated", "normal", "attention", "advisory", "warning", "planned_flood", NoData} :
          Rank(a) <= Rank(b) => StageLevel(a) <= StageLevel(b)
  BY <1>4, RiskAssumption DEF StageLevel, StageNames
<1>8. \A a \in {"unrated", "normal", "attention", "advisory", "warning", "planned_flood", NoData} :
          Rank(a) \in Nat /\ StageLevel(a) \in Nat
  BY <1>4, Levels
<1> QED BY <1>5, <1>6, <1>7, <1>8 DEF LiftedStage

(* Under a storm no official input is used, and no river facility falls.    *)
THEOREM StormRaises == RiskSpec => []StormOnlyRaises
<1>1. RowInv => StormOnlyRaises
  <2> SUFFICES ASSUME RowInv, Judged, storm # NoData
               PROVE  /\ row.issued = NoData /\ row.weather = NoData
                      /\ row.route = "river" => row.level >= StageLevel(case[2].stage)
    BY DEF StormOnlyRaises
  <2> DEFINE f == case[1]
             in == Taken
  <2>1. f \in Facilities /\ in \in RiskInputs /\ row = FacilityRow(f, in)
    BY TakenType DEF RowInv
  <2>2. in = Simulated(f, case[2], storm) /\ storm \in Storms /\ case[2] \in RiskInputs
    BY RiskAssumption DEF RowInv, Taken
  <2>3. in.issued = NoData /\ in.weather = NoData
    BY <2>2 DEF Simulated
  <2>4. row.issued = NoData /\ row.weather = NoData
    BY <2>1, <2>3, RowFields DEF Issued, Weather
  <2>5. ASSUME row.route = "river" PROVE row.level >= StageLevel(case[2].stage)
    <3>1. Route(f) = "river"
      BY <2>1, <2>5, RowFields
    <3>2. in.stage = LiftedStage(case[2].stage, storm.station)
      BY <2>2, <3>1 DEF Simulated, Route
    <3>3. StageLevel(in.stage) >= StageLevel(case[2].stage)
      BY <2>2, <3>2, StormLifts, RiskAssumption DEF RiskInputs
    <3>4. ObservedLevel(f, in) = StageLevel(in.stage)
      BY <3>1 DEF ObservedLevel, ByRain
    <3>5. row.level = Max({ObservedLevel(f, in), Floor(Issued(f, in)), Floor(Weather(f, in))})
      BY <2>1, RowFields DEF RiskLevel
    <3> HIDE DEF f, in
    <3>6. StageLevel(in.stage) \in Nat /\ StageLevel(case[2].stage) \in Nat
          /\ Floor(Issued(f, in)) \in Nat /\ Floor(Weather(f, in)) \in Nat
      BY Levels
    <3>7. row.level \in Nat /\ row.level >= StageLevel(in.stage)
      BY <3>4, <3>5, <3>6, MaxOfThree
    <3> QED BY <3>3, <3>6, <3>7
  <2> QED BY <2>4, <2>5
<1> QED BY <1>1, Invariant, PTL

(* What a row says of its reasons is true, and inputs only raise it.        *)
THEOREM ReasonsAreTold == RiskSpec => []RowTellsItsReasons
BY EvidenceIsTheLevel, StatusIsTheEvidence, PTL DEF RowTellsItsReasons

(* Rain and storms of any size only raise a facility.                       *)
THEOREM OnlyRaised == RiskSpec => []InputsOnlyRaise
BY RainOnlyRaises, StormRaises, PTL DEF InputsOnlyRaise

-----------------------------------------------------------------------------
(***************************************************************************)
(* A total of rain is shown only for a whole window, however rows and      *)
(* requests interleave.                                                    *)
(*                                                                         *)
(* A window of slots is as large as the interval it lies in, so it is the  *)
(* interval; the hours of a total are as many as the hours it asks for,    *)
(* one reading each, so none is missing.  A total is made in one step from *)
(* one gauge's readings; RainInv only has to say which stamps those are.   *)
(***************************************************************************)

Hours == {k * HourSlots : k \in Nat} \cap Stamps

(* A whole window of L slots.                                               *)
Whole(total, L) == \E end \in Stamps : total = end - L + 1 .. end

LEMMA RainTyped ==
    /\ HourSlots \in Nat \ {0} /\ Short \in Nat \ {0} /\ Long \in Nat \ {0} /\ MaxTick \in Nat \ {0}
    /\ FreshSlots \in Nat /\ FreshHourly \in Nat /\ FreshSlots <= FreshHourly
    /\ Stamps \subseteq Nat /\ \A t \in Stamps : t >= 1
BY RainAssumption DEF Stamps

LEMMA NewestStamp ==
    ASSUME NEW T, T \subseteq Stamps, T # {}
    PROVE  Max(T) \in T /\ Max(T) \in Stamps /\ Max(T) \in Int /\ \A y \in T : y <= Max(T)
<1>1. Max(T) \in T /\ \A y \in T : y <= Max(T) BY RainTyped, GreatestBelow DEF Stamps
<1>2. Stamps \subseteq Int BY DEF Stamps
<1> QED BY <1>1, <1>2

(* A full window of slots has no hole.                                      *)
LEMMA RollingWhole ==
    ASSUME NEW T, T \subseteq Stamps, T # {}, NEW n \in Nat \ {0}, Rolling(T, n) # Nothing
    PROVE  Rolling(T, n) = Max(T) - n * HourSlots + 1 .. Max(T)
<1> DEFINE L == n * HourSlots
           M == Max(T)
           window == {t \in T : M - t < L}
           I == M - L + 1 .. M
<1>1. M \in Nat /\ M \in T /\ \A y \in T : y \in Nat /\ y <= M
  BY NewestStamp, RainTyped
<1>2. L \in Nat /\ L >= 1
  <2>1. HourSlots \in Nat \ {0} BY RainTyped
  <2> QED BY <2>1
<1> HIDE DEF M, L
<1>3. window \in SUBSET I
  <2> SUFFICES ASSUME NEW t \in window PROVE t \in I
    OBVIOUS
  <2>1. t \in T /\ M - t < L OBVIOUS
  <2>2. t \in Nat /\ t <= M BY <1>1, <2>1
  <2> QED BY <1>1, <1>2, <2>1, <2>2
<1>4. IsFiniteSet(I) /\ Cardinality(I) = L
  <2>1. M - L + 1 \in Int /\ M \in Int /\ ~(M - L + 1 > M) /\ M - (M - L + 1) + 1 = L BY <1>1, <1>2
  <2> QED BY <2>1, FS_Interval
<1>5. Cardinality(window) <= L /\ Cardinality(window) \in Nat
  <2>1. IsFiniteSet(window) /\ Cardinality(window) <= Cardinality(I) BY <1>3, <1>4, FS_Subset
  <2> QED BY <1>4, <2>1, FS_CardinalityType
<1>6. Rolling(T, n) = IF Cardinality(window) >= L THEN window ELSE Nothing
  BY DEF Rolling, M, L
<1>7. Cardinality(window) >= L /\ Rolling(T, n) = window BY <1>6
<1>8. Cardinality(window) = Cardinality(I) BY <1>2, <1>4, <1>5, <1>7
<1>9. window = I BY <1>3, <1>4, <1>8, FS_Subset
<1> QED BY <1>7, <1>9 DEF M, L

(* The readings of n hours back, one each, cover the hours.                 *)
LEMMA HourlyWhole ==
    ASSUME NEW T, T \subseteq Hours, T # {}, NEW n \in Nat \ {0}, HourlyTotal(T, n) # Nothing
    PROVE  HourlyTotal(T, n) = Max(T) - n * HourSlots + 1 .. Max(T)
<1> DEFINE H == HourSlots
           M == Max(T)
           m == M \div H
           Wanted == m - n + 1 .. m
           B == {h * H : h \in Wanted}
           found == Back(T, n)
<1>1. H \in Nat \ {0} BY RainTyped
<1>2. T \subseteq Stamps /\ T \subseteq Nat BY RainTyped DEF Hours
<1>3. M \in T /\ M \in Nat BY <1>2, NewestStamp
<1>4. \A t \in T : \E k \in Nat : t = k * H /\ t \div H = k
  <2>1. \A k \in Nat : (k * H) \div H = k BY <1>1
  <2> HIDE DEF H
  <2>2. \A t \in T : \E k \in Nat : t = k * H BY DEF Hours, H
  <2> QED BY <2>1, <2>2
<1> HIDE DEF M, H
<1>5. m \in Nat /\ M = m * H
  <2>1. PICK k \in Nat : M = k * H /\ M \div H = k BY <1>3, <1>4
  <2> QED BY <2>1
<1> HIDE DEF m
<1>6. found \in SUBSET B
  <2>1. ASSUME NEW t \in found PROVE t \in B
    <3>1. PICK h \in Wanted : t \in LastIn(T, h) BY DEF Back, HourOf, m, M, H
    <3>2. t \in T /\ t \div H = h BY <3>1 DEF LastIn, HourOf, H
    <3> QED BY <1>4, <3>2
  <2> QED BY <2>1
<1>7. IsFiniteSet(Wanted) /\ Cardinality(Wanted) = n
  <2>1. m - n + 1 \in Int /\ m \in Int /\ ~(m - n + 1 > m) /\ m - (m - n + 1) + 1 = n BY <1>5
  <2> QED BY <2>1, FS_Interval
<1>8. IsFiniteSet(B) /\ Cardinality(B) <= n /\ Cardinality(B) \in Nat
  <2> DEFINE f == [h \in Wanted |-> h * H]
  <2>1. f \in Surjection(Wanted, B) BY DEF Surjection
  <2> HIDE DEF f, B, Wanted
  <2> QED BY <1>7, <2>1, FS_Surjection, FS_CardinalityType
<1>9. HourlyTotal(T, n) = UNION {RainOfHour(t) : t \in found} /\ ~(Cardinality(found) < n)
  BY DEF HourlyTotal
<1>10. found = B
  <2> HIDE DEF found, B
  <2>1. IsFiniteSet(found) /\ Cardinality(found) <= Cardinality(B) BY <1>6, <1>8, FS_Subset
  <2>2. Cardinality(found) \in Nat BY <2>1, FS_CardinalityType
  <2>3. Cardinality(B) = Cardinality(found) BY <1>8, <1>9, <2>1, <2>2
  <2> QED BY <1>6, <1>8, <2>3, FS_Subset
<1>11. HourlyTotal(T, n) = UNION {h * H - H + 1 .. h * H : h \in Wanted}
  BY <1>9, <1>10 DEF RainOfHour, H
<1>12. (m - n) * H = M - n * H /\ n * H \in Nat /\ M - n * H \in Int BY <1>1, <1>5
<1>13. ASSUME NEW h \in Wanted, NEW x \in h * H - H + 1 .. h * H
       PROVE  x \in M - n * H + 1 .. M
  <2>1. h * H <= m * H BY <1>1, <1>5
  <2>2. (m - n) * H + H <= h * H BY <1>1, <1>5
  <2> QED BY <1>1, <1>5, <1>12, <2>1, <2>2
<1>14. ASSUME NEW x \in M - n * H + 1 .. M
       PROVE  \E h \in Wanted : x \in h * H - H + 1 .. h * H
  <2> DEFINE C == {d \in Nat : x <= (m - n + d) * H}
  <2>1. m - n + n = m /\ n \in C BY <1>5
  <2>2. PICK d \in C : \A y \in C : d <= y BY <2>1, LeastNat
  <2>3. d \in Nat /\ d <= n /\ x <= (m - n + d) * H BY <2>1, <2>2
  <2>4. d # 0
    <3>1. x > (m - n) * H BY <1>12
    <3> QED BY <1>1, <1>5, <2>3, <3>1
  <2>5. d - 1 \in Nat /\ d - 1 \notin C BY <2>2, <2>3, <2>4
  <2>6. x > (m - n + (d - 1)) * H BY <1>1, <1>5, <2>5
  <2>7. (m - n + (d - 1)) * H = (m - n + d) * H - H BY <1>1, <1>5, <2>3
  <2>8. m - n + d \in Wanted BY <1>5, <2>3, <2>4
  <2>9. (m - n + d) * H \in Int BY <1>1, <1>5, <2>3
  <2>10. x \in (m - n + d) * H - H + 1 .. (m - n + d) * H BY <1>1, <2>3, <2>6, <2>7, <2>9
  <2> QED BY <2>8, <2>10
<1>15. UNION {h * H - H + 1 .. h * H : h \in Wanted} = M - n * H + 1 .. M
  BY <1>13, <1>14
<1> QED BY <1>11, <1>15 DEF M, H

-----------------------------------------------------------------------------
Spans == {"10m", "1h", "3h", "12h"}

LEMMA Lengths ==
    /\ Length("10m") = 1 /\ Length("1h") = 1 * HourSlots
    /\ Length("3h") = Short * HourSlots /\ Length("12h") = Long * HourSlots
    /\ \A w \in Spans : w # "10m" => MaxAge(w) = FreshHourly
    /\ MaxAge("10m") = FreshSlots
BY RainTyped DEF Length, MaxAge, Spans

(* What _live_totals makes of a gauge's readings is whole and recent.       *)
LEMMA TotalsWhole ==
    ASSUME NEW ten, ten \subseteq Stamps, NEW hours, hours \subseteq Hours, NEW now
    PROVE  /\ DOMAIN Totals(ten, hours, now) = Spans
           /\ \A w \in Spans :
                 Totals(ten, hours, now)[w] # Nothing =>
                    \E end \in Stamps : /\ Totals(ten, hours, now)[w] = end - Length(w) + 1 .. end
                                        /\ now - end \in 0 .. MaxAge(w)
<1> DEFINE tenFresh == IsFresh(ten, now, FreshSlots)
           rolling(n) == IF tenFresh THEN Rolling(ten, n) ELSE Nothing
           byHours(n) == IF IsFresh(hours, now, FreshHourly) THEN HourlyTotal(hours, n) ELSE Nothing
           Good(total, L, age) == \E end \in Stamps : total = end - L + 1 .. end /\ now - end \in 0 .. age
<1>1. ASSUME NEW n \in Nat \ {0}, rolling(n) # Nothing PROVE Good(rolling(n), n * HourSlots, FreshHourly)
  <2>1. tenFresh /\ rolling(n) = Rolling(ten, n) BY <1>1
  <2>2. ten # {} /\ now - Max(ten) \in 0 .. FreshSlots BY <2>1 DEF IsFresh
  <2>3. Max(ten) \in Stamps BY <2>2, NewestStamp
  <2>4. rolling(n) = Max(ten) - n * HourSlots + 1 .. Max(ten) BY <1>1, <2>1, <2>2, RollingWhole
  <2>5. now - Max(ten) \in 0 .. FreshHourly BY <2>2, RainTyped
  <2> QED BY <2>3, <2>4, <2>5
<1>2. ASSUME NEW n \in Nat \ {0}, byHours(n) # Nothing PROVE Good(byHours(n), n * HourSlots, FreshHourly)
  <2>1. byHours(n) = HourlyTotal(hours, n) /\ hours # {} /\ now - Max(hours) \in 0 .. FreshHourly
    BY <1>2 DEF IsFresh
  <2>2. hours \subseteq Stamps BY DEF Hours
  <2>3. Max(hours) \in Stamps BY <2>1, <2>2, NewestStamp
  <2>4. byHours(n) = Max(hours) - n * HourSlots + 1 .. Max(hours) BY <1>2, <2>1, HourlyWhole
  <2> QED BY <2>1, <2>3, <2>4
<1>3. ASSUME NEW n \in Nat \ {0}, Or(rolling(n), byHours(n)) # Nothing
      PROVE  Good(Or(rolling(n), byHours(n)), n * HourSlots, FreshHourly)
  BY <1>1, <1>2, <1>3 DEF Or
<1>4. tenFresh => Good({Max(ten)}, 1, FreshSlots)
  <2> SUFFICES ASSUME tenFresh PROVE Good({Max(ten)}, 1, FreshSlots)
    OBVIOUS
  <2>1. ten # {} /\ now - Max(ten) \in 0 .. FreshSlots BY DEF IsFresh
  <2>2. Max(ten) \in Stamps BY <2>1, NewestStamp
  <2>3. Max(ten) \in Int BY <2>1, NewestStamp
  <2>4. Max(ten) - 1 + 1 .. Max(ten) = {Max(ten)}
    <3> DEFINE M == Max(ten)
    <3>1. M \in Int BY <2>3
    <3> HIDE DEF M
    <3>2. M - 1 + 1 .. M = {M} BY <3>1
    <3> QED BY <3>2 DEF M
  <2> QED BY <2>1, <2>2, <2>4
<1>5. Totals(ten, hours, now) =
        [NoTotals EXCEPT
          !["10m"] = IF tenFresh THEN {Max(ten)} ELSE Nothing,
          !["1h"]  = Or(rolling(1), byHours(1)),
          !["3h"]  = Or(rolling(Short), byHours(Short)),
          !["12h"] = byHours(Long)]
  BY DEF Totals
<1> DEFINE tt == Totals(ten, hours, now)
<1> HIDE DEF Good, tenFresh, rolling, byHours
<1>6. /\ DOMAIN tt = Spans
      /\ tt["10m"] = IF tenFresh THEN {Max(ten)} ELSE Nothing
      /\ tt["1h"] = Or(rolling(1), byHours(1))
      /\ tt["3h"] = Or(rolling(Short), byHours(Short))
      /\ tt["12h"] = byHours(Long)
  BY <1>5 DEF NoTotals, Spans
<1> HIDE DEF tt
<1>7. ASSUME NEW w \in Spans, tt[w] # Nothing PROVE Good(tt[w], Length(w), MaxAge(w))
  <2>1. CASE w = "10m" BY <1>4, <1>6, <1>7, <2>1, Lengths
  <2>2. CASE w = "1h"
    <3>1. 1 \in Nat \ {0} OBVIOUS
    <3> QED BY <1>3, <1>6, <1>7, <2>2, <3>1, Lengths
  <2>3. CASE w = "3h" BY <1>3, <1>6, <1>7, <2>3, Lengths, RainTyped
  <2>4. CASE w = "12h" BY <1>2, <1>6, <1>7, <2>4, Lengths, RainTyped
  <2> QED BY <2>1, <2>2, <2>3, <2>4 DEF Spans
<1> QED BY <1>6, <1>7 DEF tt, Good

(* And so is what rain_frame makes of them, but for its age.                *)
LEMMA FramedWhole ==
    ASSUME NEW ten, ten \subseteq Stamps, ten # {}, NEW hour \in Stamps \cup {Nothing}
    PROVE  /\ DOMAIN Framed(ten, hour) = Spans
           /\ \A w \in Spans :
                 Framed(ten, hour)[w] # Nothing => Whole(Framed(ten, hour)[w], Length(w))
<1> DEFINE fr == Framed(ten, hour)
           hourly1 == IF hour = Nothing THEN Nothing ELSE RainOfHour(hour)
<1>1. /\ DOMAIN fr = Spans
      /\ fr["10m"] = {Max(ten)}
      /\ fr["1h"] = Or(Rolling(ten, 1), hourly1)
      /\ fr["3h"] = Nothing /\ fr["12h"] = Nothing
  <2>1. fr = [NoTotals EXCEPT !["10m"] = {Max(ten)}, !["1h"] = Or(Rolling(ten, 1), hourly1)]
    BY DEF Framed
  <2> HIDE DEF fr, hourly1
  <2> QED BY <2>1 DEF NoTotals, Spans
<1>2. Max(ten) \in Stamps /\ Max(ten) \in Int BY NewestStamp
<1>3. {Max(ten)} = Max(ten) - 1 + 1 .. Max(ten)
  <2> DEFINE M == Max(ten)
  <2>1. M \in Int BY <1>2
  <2> HIDE DEF M
  <2>2. M - 1 + 1 .. M = {M} BY <2>1
  <2> QED BY <2>2 DEF M
<1>4. Rolling(ten, 1) # Nothing => Whole(Rolling(ten, 1), 1 * HourSlots)
  BY <1>2, RollingWhole DEF Whole
<1>5. hourly1 # Nothing => Whole(hourly1, 1 * HourSlots)
  <2> SUFFICES ASSUME hourly1 # Nothing PROVE Whole(hourly1, 1 * HourSlots)
    OBVIOUS
  <2>1. hour \in Stamps /\ hourly1 = hour - HourSlots + 1 .. hour BY DEF RainOfHour
  <2>2. 1 * HourSlots = HourSlots BY RainTyped
  <2> QED BY <2>1, <2>2 DEF Whole
<1> HIDE DEF fr, hourly1
<1>6. ASSUME NEW w \in Spans, fr[w] # Nothing PROVE Whole(fr[w], Length(w))
  <2>1. CASE w = "10m" BY <1>1, <1>2, <1>3, <2>1, Lengths DEF Whole
  <2>2. CASE w = "1h" BY <1>1, <1>4, <1>5, <1>6, <2>2, Lengths DEF Or
  <2>3. CASE w = "3h" \/ w = "12h" BY <1>1, <1>6, <2>3
  <2> QED BY <2>1, <2>2, <2>3 DEF Spans
<1> QED BY <1>1, <1>6 DEF fr

-----------------------------------------------------------------------------
(* Which stamps are where: hourly ones end an hour, and no reader holds     *)
(* totals before it sums.                                                   *)
CacheInv ==
    /\ tick \in Nat
    /\ slots \in [Gauges -> SUBSET Stamps] /\ mine \in [Gauges -> SUBSET Stamps]
    /\ hourly \in [Gauges -> SUBSET Hours] /\ saved \in [Gauges -> SUBSET Hours]
    /\ last \in [Gauges -> Stamps \cup {Nothing}]
RowsInv ==
    pull # Nothing =>
        /\ pull = [at |-> pull.at, rows |-> pull.rows, changed |-> pull.changed]
        /\ pull.at \in {"slots", "hourly"} /\ DOMAIN pull.rows \subseteq Gauges
        /\ \A g \in DOMAIN pull.rows : /\ pull.rows[g] \in Stamps
                                       /\ pull.at = "hourly" => pull.rows[g] \in Hours

IsReader(r) ==
    r = [at |-> r.at, keys |-> r.keys, left |-> r.left, now |-> r.now, latest |-> r.latest, totals |-> r.totals]
ReaderInv ==
    reader # Nothing =>
        /\ IsReader(reader)
        /\ reader.at \in {"merge", "sum", "frame"}
        /\ reader.left \subseteq Gauges
        /\ reader.at = "frame" => reader.left \subseteq reader.keys
        /\ reader.at = "merge" => reader.totals = NoTotals

RainInv == CacheInv /\ RowsInv /\ ReaderInv /\ WindowsAreWhole

LEMMA RainStart == RainInit => RainInv
<1> SUFFICES ASSUME RainInit PROVE RainInv
  OBVIOUS
<1> QED BY DEF RainInit, RainInv, CacheInv, RowsInv, ReaderInv, WindowsAreWhole

(* The rows of a pull.                                                      *)
LEMMA RowsOfPull ==
    ASSUME CacheInv
    PROVE  /\ \A rows \in Rows(tick) : /\ DOMAIN rows \subseteq Gauges
                                       /\ \A g \in DOMAIN rows : rows[g] \in Stamps
           /\ \A rows \in HourlyRows : /\ DOMAIN rows \subseteq Gauges
                                       /\ \A g \in DOMAIN rows : rows[g] \in Hours
<1>1. ASSUME NEW rows \in Rows(tick)
      PROVE  DOMAIN rows \subseteq Gauges /\ \A g \in DOMAIN rows : rows[g] \in Stamps
  BY <1>1 DEF Rows
<1>2. ASSUME NEW rows \in HourlyRows
      PROVE  DOMAIN rows \subseteq Gauges /\ \A g \in DOMAIN rows : rows[g] \in Hours
  <2> DEFINE k == tick \div HourSlots
             H == HourSlots
  <2>1. k \in Nat /\ H \in Nat \ {0} BY RainTyped DEF CacheInv
  <2>2. PICK G \in SUBSET Gauges : rows \in [G -> {k * H, k * H - H} \cap Stamps]
    BY <1>2 DEF HourlyRows
  <2>3. {k * H, k * H - H} \cap Stamps \subseteq Hours
    <3> HIDE DEF k, H
    <3>1. k * H \in Stamps => k * H \in {n * H : n \in Nat} BY <2>1
    <3>2. ASSUME k * H - H \in Stamps PROVE k * H - H \in {n * H : n \in Nat}
      <4>1. k * H - H = (k - 1) * H BY <2>1
      <4>2. k * H - H >= 1 BY <3>2, RainTyped
      <4>3. k # 0 BY <2>1, <4>2
      <4>4. k - 1 \in Nat BY <2>1, <4>3
      <4> QED BY <4>1, <4>4
    <3> QED BY <3>1, <3>2 DEF Hours, H
  <2> HIDE DEF k, H
  <2> QED BY <2>2, <2>3
<1> QED BY <1>1, <1>2

(* Totals that are not touched stay whole.                                  *)
LEMMA WindowsKept ==
    ASSUME WindowsAreWhole,
           \/ reader' = Nothing
           \/ /\ reader # Nothing /\ reader'.totals = reader.totals
              /\ reader'.at = reader.at /\ reader'.now = reader.now
           \/ reader'.totals = NoTotals
    PROVE  WindowsAreWhole'
<1>1. CASE reader' = Nothing BY <1>1 DEF WindowsAreWhole
<1>2. CASE reader'.totals = NoTotals BY <1>2 DEF WindowsAreWhole, NoTotals
<1>3. CASE /\ reader # Nothing /\ reader'.totals = reader.totals
           /\ reader'.at = reader.at /\ reader'.now = reader.now
  BY <1>3 DEF WindowsAreWhole
<1> QED BY <1>1, <1>2, <1>3

(* The steps of a pull leave the readers alone.                             *)
LEMMA PullKeepsRain ==
    ASSUME RainInv,
           \/ PullSlots \/ PullHourly \/ PullEnds
           \/ \E g \in Gauges : StoreSlot(g) \/ StoreHour(g)
    PROVE  RainInv'
<1>1. /\ tick \in Nat
      /\ slots \in [Gauges -> SUBSET Stamps] /\ mine \in [Gauges -> SUBSET Stamps]
      /\ hourly \in [Gauges -> SUBSET Hours] /\ saved \in [Gauges -> SUBSET Hours]
      /\ last \in [Gauges -> Stamps \cup {Nothing}]
  BY DEF RainInv, CacheInv
<1>2. Hours \subseteq Stamps BY DEF Hours
<1>3. reader' = reader /\ tick' = tick /\ mine' = mine
  BY DEF PullSlots, PullHourly, PullEnds, StoreSlot, StoreHour
<1>4. ReaderInv' /\ WindowsAreWhole'
  <2>1. ReaderInv' BY <1>3 DEF RainInv, ReaderInv, IsReader
  <2>2. WindowsAreWhole' BY <1>3 DEF RainInv, WindowsAreWhole
  <2> QED BY <2>1, <2>2
<1>5. CASE PullSlots
  <2>1. PICK rows \in Rows(tick) : pull' = [at |-> "slots", rows |-> rows, changed |-> FALSE]
    BY <1>5 DEF PullSlots
  <2>2. DOMAIN rows \subseteq Gauges /\ \A g \in DOMAIN rows : rows[g] \in Stamps
    BY RowsOfPull DEF RainInv
  <2>3. RowsInv' BY <2>1, <2>2 DEF RowsInv
  <2>4. CacheInv' BY <1>1, <1>5 DEF PullSlots, CacheInv
  <2> QED BY <1>4, <2>3, <2>4 DEF RainInv
<1>6. CASE PullHourly
  <2>1. CASE pull' = Nothing /\ UNCHANGED last
    <3>1. CacheInv' BY <1>1, <1>6, <2>1 DEF PullHourly, CacheInv
    <3>2. RowsInv' BY <2>1 DEF RowsInv
    <3> QED BY <1>4, <3>1, <3>2 DEF RainInv
  <2>2. ASSUME NEW rows \in HourlyRows,
               pull' = [at |-> "hourly", rows |-> rows, changed |-> FALSE],
               last' = [g \in Gauges |-> IF g \in DOMAIN rows THEN rows[g] ELSE Nothing]
        PROVE  RainInv'
    <3>1. DOMAIN rows \subseteq Gauges /\ \A g \in DOMAIN rows : rows[g] \in Hours
      BY RowsOfPull DEF RainInv
    <3>2. RowsInv' BY <1>2, <2>2, <3>1 DEF RowsInv
    <3>3. last' \in [Gauges -> Stamps \cup {Nothing}] BY <1>2, <2>2, <3>1
    <3>4. CacheInv' BY <1>1, <1>6, <3>3 DEF PullHourly, CacheInv
    <3> QED BY <1>4, <3>2, <3>4 DEF RainInv
  <2> QED BY <1>6, <2>1, <2>2 DEF PullHourly
<1>7. CASE PullEnds
  <2>1. saved' \in [Gauges -> SUBSET Hours]
    <3>1. saved' = saved \/ saved' = hourly BY <1>7 DEF PullEnds
    <3> QED BY <1>1, <3>1
  <2>2. CacheInv' BY <1>1, <1>7, <2>1 DEF PullEnds, CacheInv
  <2>3. RowsInv' BY <1>7 DEF PullEnds, RowsInv
  <2> QED BY <1>4, <2>2, <2>3 DEF RainInv
<1>8. ASSUME NEW g \in Gauges, NEW p, p = [pull EXCEPT !.rows = Without(@, g)] \/ p = [pull EXCEPT !.rows = Without(@, g), !.changed = @ \/ pull.rows[g] \notin hourly[g]],
             pull # Nothing, pull' = p
      PROVE  RowsInv'
  <2>1. /\ pull = [at |-> pull.at, rows |-> pull.rows, changed |-> pull.changed]
        /\ pull.at \in {"slots", "hourly"} /\ DOMAIN pull.rows \subseteq Gauges
        /\ \A h \in DOMAIN pull.rows : /\ pull.rows[h] \in Stamps
                                       /\ pull.at = "hourly" => pull.rows[h] \in Hours
    BY <1>8 DEF RainInv, RowsInv
  <2> DEFINE rest == Without(pull.rows, g)
  <2>2. \E c : p = [at |-> pull.at, rows |-> rest, changed |-> c]
    <3> HIDE DEF rest
    <3>1. CASE p = [pull EXCEPT !.rows = Without(@, g)]
      <4>1. p = [pull EXCEPT !.rows = rest] BY <3>1 DEF rest
      <4>2. p = [at |-> pull.at, rows |-> rest, changed |-> pull.changed] BY <2>1, <4>1
      <4> QED BY <4>2
    <3>2. CASE p = [pull EXCEPT !.rows = Without(@, g), !.changed = @ \/ pull.rows[g] \notin hourly[g]]
      <4> DEFINE c == pull.changed \/ pull.rows[g] \notin hourly[g]
      <4>1. p = [pull EXCEPT !.rows = rest, !.changed = c] BY <3>2 DEF rest
      <4> HIDE DEF c
      <4>2. p = [at |-> pull.at, rows |-> rest, changed |-> c] BY <2>1, <4>1
      <4> QED BY <4>2
    <3> QED BY <1>8, <3>1, <3>2
  <2>3. DOMAIN rest \subseteq DOMAIN pull.rows /\ \A h \in DOMAIN rest : rest[h] = pull.rows[h]
    BY DEF Without
  <2> HIDE DEF rest
  <2>4. PICK c : pull' = [at |-> pull.at, rows |-> rest, changed |-> c] BY <1>8, <2>2
  <2>5. pull'.at = pull.at /\ pull'.rows = rest /\ pull'.changed = c BY <2>4
  <2>6. (pull = [at |-> pull.at, rows |-> pull.rows, changed |-> pull.changed])' BY <2>4, <2>5
  <2> QED BY <2>1, <2>3, <2>5, <2>6 DEF RowsInv
<1>9. ASSUME NEW g \in Gauges, StoreSlot(g) PROVE RainInv'
  <2>1. pull # Nothing /\ pull.at = "slots" /\ g \in DOMAIN pull.rows BY <1>9 DEF StoreSlot
  <2>2. pull.rows[g] \in Stamps BY <2>1 DEF RainInv, RowsInv
  <2>3. slots' \in [Gauges -> SUBSET Stamps] BY <1>1, <1>9, <2>2 DEF StoreSlot
  <2>4. CacheInv' BY <1>1, <1>9, <2>3 DEF StoreSlot, CacheInv
  <2>5. RowsInv' BY <1>8, <1>9, <2>1 DEF StoreSlot
  <2> QED BY <1>4, <2>4, <2>5 DEF RainInv
<1>10. ASSUME NEW g \in Gauges, StoreHour(g) PROVE RainInv'
  <2>1. pull # Nothing /\ pull.at = "hourly" /\ g \in DOMAIN pull.rows BY <1>10 DEF StoreHour
  <2>2. pull.rows[g] \in Hours BY <2>1 DEF RainInv, RowsInv
  <2>3. hourly' \in [Gauges -> SUBSET Hours] BY <1>1, <1>10, <2>2 DEF StoreHour
  <2>4. CacheInv' BY <1>1, <1>10, <2>3 DEF StoreHour, CacheInv
  <2>5. RowsInv' BY <1>8, <1>10, <2>1 DEF StoreHour
  <2> QED BY <1>4, <2>4, <2>5 DEF RainInv
<1> QED BY <1>5, <1>6, <1>7, <1>9, <1>10

(* A reader that is done with one gauge.                                    *)
LEMMA LeftLess ==
    ASSUME NEW r, IsReader(r), NEW g, NEW n, n = [r EXCEPT !.left = @ \ {g}]
    PROVE  /\ IsReader(n) /\ n.at = r.at /\ n.keys = r.keys /\ n.left = r.left \ {g}
           /\ n.now = r.now /\ n.latest = r.latest /\ n.totals = r.totals
<1>1. n = [at |-> r.at, keys |-> r.keys, left |-> r.left \ {g}, now |-> r.now, latest |-> r.latest, totals |-> r.totals]
  BY DEF IsReader
<1> QED BY <1>1 DEF IsReader

LEMMA ReadKeepsRain ==
    ASSUME RainInv,
           \/ BeginTotals \/ Survey \/ BeginFrame \/ ReturnTotals \/ Raises
           \/ \E g \in Gauges : Merge(g) \/ Sum(g) \/ FrameGauge(g)
    PROVE  RainInv'
<1>1. /\ tick \in Nat
      /\ slots \in [Gauges -> SUBSET Stamps] /\ mine \in [Gauges -> SUBSET Stamps]
      /\ hourly \in [Gauges -> SUBSET Hours] /\ saved \in [Gauges -> SUBSET Hours]
      /\ last \in [Gauges -> Stamps \cup {Nothing}]
  BY DEF RainInv, CacheInv
<1>2. UNCHANGED <<tick, slots, hourly, saved, last, pull>>
  BY DEF BeginTotals, Survey, BeginFrame, ReturnTotals, Raises, Merge, Sum, FrameGauge
<1>3. RowsInv' BY <1>2 DEF RainInv, RowsInv
<1>4. \A of : Reporting(of) \subseteq Gauges BY DEF Reporting
<1>5. ASSUME mine' \in [Gauges -> SUBSET Stamps] PROVE CacheInv' BY <1>1, <1>2, <1>5 DEF CacheInv
<1>6. WindowsAreWhole BY DEF RainInv
<1>7. CASE Raises \/ ReturnTotals
  <2>1. mine' = mine /\ reader' = Nothing BY <1>7 DEF Raises, ReturnTotals
  <2>2. CacheInv' BY <1>1, <1>5, <2>1
  <2>3. ReaderInv' BY <2>1 DEF ReaderInv
  <2> QED BY <1>3, <1>6, <2>1, <2>2, <2>3, WindowsKept DEF RainInv
<1>8. CASE BeginTotals \/ BeginFrame
  <2>1. PICK place \in {"merge", "frame"} : \E now, latest :
           reader' = [at |-> place, keys |-> Reporting(slots), left |-> Reporting(slots),
                      now |-> now, latest |-> latest, totals |-> NoTotals]
    BY <1>8 DEF BeginTotals, BeginFrame, Begin
  <2>2. mine' = mine BY <1>8 DEF BeginTotals, BeginFrame
  <2>3. /\ IsReader(reader') /\ reader'.at = place /\ reader'.totals = NoTotals
        /\ reader'.left = Reporting(slots) /\ reader'.keys = Reporting(slots)
    BY <2>1 DEF IsReader
  <2>4. CacheInv' BY <1>1, <1>5, <2>2
  <2>5. ReaderInv' BY <1>4, <2>3 DEF ReaderInv, IsReader
  <2> QED BY <1>3, <1>6, <2>3, <2>4, <2>5, WindowsKept DEF RainInv
<1>9. ASSUME NEW g \in Gauges, Merge(g) PROVE RainInv'
  <2>1. /\ reader # Nothing /\ reader.at = "merge"
        /\ mine' = [mine EXCEPT ![g] = @ \cup slots[g]]
        /\ reader' = [reader EXCEPT !.left = @ \ {g}]
    BY <1>9 DEF Merge, Reads
  <2>2. IsReader(reader) /\ reader.left \subseteq Gauges /\ reader.totals = NoTotals
    BY <2>1 DEF RainInv, ReaderInv
  <2>3. /\ IsReader(reader') /\ reader'.at = "merge" /\ reader'.totals = NoTotals
        /\ reader'.left \subseteq Gauges
    BY <2>1, <2>2, LeftLess
  <2>4. CacheInv' BY <1>1, <1>5, <2>1
  <2>5. ReaderInv' BY <2>3 DEF ReaderInv, IsReader
  <2> QED BY <1>3, <1>6, <2>3, <2>4, <2>5, WindowsKept DEF RainInv
<1>10. CASE Survey
  <2>1. reader # Nothing /\ reader.at = "merge" /\ mine' = mine BY <1>10 DEF Survey, Reads
  <2> DEFINE known == Reporting(mine) \cup Reporting(hourly)
             newest == Newest([g \in Gauges |-> mine[g] \cup hourly[g]])
  <2>2. \/ reader' = Nothing
        \/ reader' = [reader EXCEPT !.at = "sum", !.left = known, !.now = tick, !.latest = newest]
    BY <1>10 DEF Survey
  <2>3. CacheInv' BY <1>1, <1>5, <2>1
  <2>4. CASE reader' = Nothing
    <3>1. ReaderInv' BY <2>4 DEF ReaderInv
    <3> QED BY <1>3, <1>6, <2>3, <2>4, <3>1, WindowsKept DEF RainInv
  <2>5. CASE reader' = [reader EXCEPT !.at = "sum", !.left = known, !.now = tick, !.latest = newest]
    <3>1. IsReader(reader) /\ reader.totals = NoTotals BY <2>1 DEF RainInv, ReaderInv
    <3>2. known \subseteq Gauges BY <1>4
    <3> HIDE DEF known, newest
    <3>3. reader' = [at |-> "sum", keys |-> reader.keys, left |-> known, now |-> tick,
                     latest |-> newest, totals |-> NoTotals]
      BY <2>5, <3>1 DEF IsReader
    <3>4. IsReader(reader') /\ reader'.at = "sum" /\ reader'.totals = NoTotals /\ reader'.left = known
      BY <3>3 DEF IsReader
    <3>5. ReaderInv' BY <3>2, <3>4 DEF ReaderInv, IsReader
    <3> QED BY <1>3, <1>6, <2>3, <3>4, <3>5, WindowsKept DEF RainInv
  <2> QED BY <2>2, <2>4, <2>5
<1>11. ASSUME NEW g \in Gauges, Sum(g) PROVE RainInv'
  <2> DEFINE tt == Totals(mine'[g], hourly[g], reader.now)
  <2>1. /\ reader # Nothing /\ reader.at = "sum"
        /\ mine' = [mine EXCEPT ![g] = {t \in @ : reader.latest - t <= Short * HourSlots}]
        /\ reader' = [reader EXCEPT !.left = @ \ {g}, !.totals = tt]
    BY <1>11 DEF Sum, Reads
  <2>2. mine' \in [Gauges -> SUBSET Stamps] BY <1>1, <2>1
  <2>3. mine'[g] \subseteq Stamps /\ hourly[g] \subseteq Hours BY <1>1, <2>2
  <2>4. /\ DOMAIN tt = Spans
        /\ \A w \in Spans : tt[w] # Nothing =>
              \E end \in Stamps : tt[w] = end - Length(w) + 1 .. end /\ reader.now - end \in 0 .. MaxAge(w)
    BY <2>3, TotalsWhole
  <2> HIDE DEF tt
  <2>5. IsReader(reader) /\ reader.left \subseteq Gauges BY <2>1 DEF RainInv, ReaderInv
  <2>6. /\ IsReader(reader') /\ reader'.at = "sum" /\ reader'.totals = tt
        /\ reader'.left \subseteq Gauges /\ reader'.now = reader.now
    <3>1. reader' = [at |-> "sum", keys |-> reader.keys, left |-> reader.left \ {g},
                     now |-> reader.now, latest |-> reader.latest, totals |-> tt]
      BY <2>1, <2>5 DEF IsReader
    <3> QED BY <2>5, <3>1 DEF IsReader
  <2>7. CacheInv' BY <1>5, <2>2
  <2>8. ReaderInv' BY <2>6 DEF ReaderInv, IsReader
  <2>9. WindowsAreWhole' BY <2>4, <2>6 DEF WindowsAreWhole, Length, MaxAge
  <2> QED BY <1>3, <2>7, <2>8, <2>9 DEF RainInv
<1>12. ASSUME NEW g \in Gauges, FrameGauge(g) PROVE RainInv'
  <2> DEFINE tt == IF reader.latest - Max(slots[g]) > FreshSlots THEN NoTotals ELSE Framed(slots[g], last[g])
  <2>1. /\ reader # Nothing /\ reader.at = "frame" /\ g \in reader.left /\ ~Grew /\ mine' = mine
        /\ reader' = [reader EXCEPT !.left = @ \ {g}, !.totals = tt]
    BY <1>12 DEF FrameGauge, Reads
  <2>2. IsReader(reader) /\ reader.left \subseteq Gauges /\ reader.left \subseteq reader.keys
    BY <2>1 DEF RainInv, ReaderInv
  <2>3. g \in Reporting(slots) BY <2>1, <2>2 DEF Grew
  <2>4. slots[g] \subseteq Stamps /\ slots[g] # {} /\ last[g] \in Stamps \cup {Nothing}
    BY <1>1, <2>3 DEF Reporting
  <2>5. /\ DOMAIN tt = Spans
        /\ \A w \in Spans : tt[w] # Nothing => Whole(tt[w], Length(w))
    <3>1. DOMAIN NoTotals = Spans /\ \A w \in Spans : NoTotals[w] = Nothing BY DEF NoTotals, Spans
    <3> QED BY <2>4, <3>1, FramedWhole
  <2> HIDE DEF tt
  <2>6. /\ IsReader(reader') /\ reader'.at = "frame" /\ reader'.totals = tt
        /\ reader'.left = reader.left \ {g} /\ reader'.keys = reader.keys
    <3>1. reader' = [at |-> "frame", keys |-> reader.keys, left |-> reader.left \ {g},
                     now |-> reader.now, latest |-> reader.latest, totals |-> tt]
      BY <2>1, <2>2 DEF IsReader
    <3> QED BY <3>1 DEF IsReader
  <2>7. CacheInv' BY <1>1, <1>5, <2>1
  <2>8. ReaderInv' BY <2>2, <2>6 DEF ReaderInv, IsReader
  <2>9. WindowsAreWhole' BY <2>5, <2>6 DEF WindowsAreWhole, Length, MaxAge, Whole
  <2> QED BY <1>3, <2>7, <2>8, <2>9 DEF RainInv
<1> QED BY <1>7, <1>8, <1>9, <1>10, <1>11, <1>12

LEMMA RainStep == RainInv /\ [RainNext]_rainVars => RainInv'
<1> SUFFICES ASSUME RainInv, [RainNext]_rainVars PROVE RainInv'
  OBVIOUS
<1>1. /\ tick \in Nat
      /\ slots \in [Gauges -> SUBSET Stamps] /\ mine \in [Gauges -> SUBSET Stamps]
      /\ hourly \in [Gauges -> SUBSET Hours] /\ saved \in [Gauges -> SUBSET Hours]
      /\ last \in [Gauges -> Stamps \cup {Nothing}]
  BY DEF RainInv, CacheInv
<1>2. CASE NextSlot \/ UNCHANGED rainVars
  <2>1. UNCHANGED <<slots, hourly, saved, last, mine, pull, reader>> /\ tick' \in Nat
    BY <1>1, <1>2 DEF NextSlot, rainVars
  <2>2. CacheInv' BY <1>1, <2>1 DEF CacheInv
  <2>3. RowsInv' BY <2>1 DEF RainInv, RowsInv
  <2>4. ReaderInv' BY <2>1 DEF RainInv, ReaderInv, IsReader
  <2>5. WindowsAreWhole' BY <2>1 DEF RainInv, WindowsAreWhole
  <2> QED BY <2>2, <2>3, <2>4, <2>5 DEF RainInv
<1>3. CASE RestartServer
  <2>1. CacheInv' BY <1>1, <1>3 DEF RestartServer, CacheInv
  <2>2. pull' = Nothing /\ reader' = Nothing BY <1>3 DEF RestartServer
  <2>3. RowsInv' /\ ReaderInv' /\ WindowsAreWhole' BY <2>2 DEF RowsInv, ReaderInv, WindowsAreWhole
  <2> QED BY <2>1, <2>3 DEF RainInv
<1> QED BY <1>2, <1>3, PullKeepsRain, ReadKeepsRain DEF RainNext

(* For any gauges, periods and interleavings of pulls, requests and         *)
(* restarts: a total of rain is of a whole window that ends with a recent   *)
(* reading of the gauge, or it is not shown.                                *)
THEOREM WindowsAreWholeHolds == RainSpec => []WindowsAreWhole
<1>1. RainInit => RainInv BY RainStart
<1>2. RainInv /\ [RainNext]_rainVars => RainInv' BY RainStep
<1>3. RainInv => WindowsAreWhole BY DEF RainInv
<1> QED BY <1>1, <1>2, <1>3, PTL DEF RainSpec

-----------------------------------------------------------------------------
(***************************************************************************)
(* An analysis runs on what the question states and keeps the record in    *)
(* order, whatever the model answers and whatever values are posted.       *)
(*                                                                         *)
(* The times of the record are concrete; all the what-ifs need of them is  *)
(* that the entries that are shifted come last, far enough behind those    *)
(* that stay.                                                              *)
(***************************************************************************)

LEMMA RecordAsItIs ==
    /\ DOMAIN Replay = {"warning", "hydraulic_warning", "overtopping", "levee_failure",
                        "underpass_inflow", "unsafe_driving", "full_inundation"}
    /\ Replay["warning"] = 250 /\ Replay["hydraulic_warning"] = 400 /\ Replay["overtopping"] = 470
    /\ Replay["levee_failure"] = 489 /\ Replay["underpass_inflow"] = 507
    /\ Replay["unsafe_driving"] = 515 /\ Replay["full_inundation"] = 520
BY DEF Replay, At

LEMMA RecordIsOrdered ==
    /\ Milestones \subseteq DOMAIN Replay /\ Shifted \subseteq Milestones
    /\ \A s \in DOMAIN Replay : Replay[s] \in Nat
    /\ \A s \in Shifted : \A q \in DOMAIN Replay \ Shifted : Replay[q] + 18 <= Replay[s]
    /\ \A s \in Milestones : \A q \in DOMAIN Replay \ Milestones : Replay[q] + 19 <= Replay[s]
    /\ \A s, q \in DOMAIN Replay : Replay[s] = Replay[q] => s = q
BY RecordAsItIs DEF Milestones, Shifted

(* A levee that fails up to 18 minutes earlier still fails behind what the  *)
(* record has before it.                                                    *)
LEMMA AdvanceOfRecord == MaxAdvance = 18
<1>1. Preceding = {"warning", "hydraulic_warning", "overtopping"} /\ Replay.levee_failure = 489
  BY RecordAsItIs DEF Preceding
<1>2. {Replay[s] : s \in Preceding} = {250, 400, 470} BY <1>1, RecordAsItIs
<1>3. ASSUME NEW T, T \subseteq Nat, NEW m \in T, \A y \in T : y <= m PROVE Max(T) = m
  <2>1. m \in Nat /\ \A y \in T : m >= y /\ y \in Nat BY <1>3
  <2>2. Max(T) \in T /\ \A y \in T : Max(T) >= y BY <2>1 DEF Max
  <2>3. Max(T) \in Nat /\ m >= Max(T) /\ Max(T) >= m BY <2>1, <2>2
  <2> QED BY <2>1, <2>3
<1>4. Max({250, 400, 470}) = 470 BY <1>3
<1>5. Min({180, 18}) = 18
  <2>1. \E x \in {180, 18} : \A y \in {180, 18} : x <= y OBVIOUS
  <2> QED BY <2>1 DEF Min
<1>6. Max({0, 18}) = 18 BY <1>3
<1>7. 489 - 470 - 1 = 18 OBVIOUS
<1>8. MaxAdvance = Max({0, Min({180, 489 - 470 - 1})})
  BY <1>1, <1>2, <1>4, SMTT(30) DEF MaxAdvance
<1> QED BY <1>5, <1>6, <1>7, <1>8

(* The entry that a minute is behind, if it is behind any.                  *)
LEMMA StateBehind ==
    ASSUME NEW t \in Nat
    PROVE  \/ StateAt(t) = Before /\ \A s \in DOMAIN Replay : Replay[s] > t
           \/ /\ StateAt(t) \in DOMAIN Replay /\ Replay[StateAt(t)] <= t
              /\ \A s \in DOMAIN Replay : Replay[s] <= t => Replay[s] <= Replay[StateAt(t)]
<1> DEFINE past == {s \in DOMAIN Replay : Replay[s] <= t}
           at == {Replay[s] : s \in past}
<1>1. \A s \in DOMAIN Replay : Replay[s] \in Nat /\ Replay[s] >= 1 BY RecordAsItIs
<1>2. CASE past = {} BY <1>1, <1>2 DEF StateAt
<1>3. CASE past # {}
  <2>1. at \subseteq 1 .. t /\ at # {} BY <1>1, <1>3
  <2>2. Max(at) \in at /\ \A y \in at : y <= Max(at) BY <2>1, GreatestBelow
  <2>3. \E s \in past : \A q \in past : Replay[q] <= Replay[s] BY <2>2
  <2>4. StateAt(t) = CHOOSE s \in past : \A q \in past : Replay[q] <= Replay[s] BY <1>3 DEF StateAt
  <2>5. StateAt(t) \in past /\ \A q \in past : Replay[q] <= Replay[StateAt(t)] BY <2>3, <2>4
  <2> QED BY <2>5
<1> QED BY <1>2, <1>3

LEMMA ClosureRowsAgree ==
    ASSUME NEW times, times \subseteq Nat, NEW r \in ClosureTiming(times)
    PROVE  RowAgrees(r)
<1>1. PICK t \in times :
        r = [at |-> t, state |-> StateAt(t), class |-> Class(t),
             blocked |-> t <= Replay.underpass_inflow,
             before |-> [s \in Shifted |-> Replay[s] - t],
             lead |-> Trigger - t]
  BY DEF ClosureTiming
<1>2. t \in Nat OBVIOUS
<1> DEFINE st == StateAt(t)
           cl == Class(t)
<1>3. /\ r.state = st /\ r.class = cl /\ r.blocked = (t <= 507)
      /\ \A s \in Shifted : r.before[s] = Replay[s] - t
  BY <1>1, RecordAsItIs
<1>4. "underpass_inflow" \in Shifted /\ "unsafe_driving" \in Shifted /\ "full_inundation" \in Shifted
      /\ \A s \in Shifted : s \in {"underpass_inflow", "unsafe_driving", "full_inundation"}
  BY DEF Shifted, Milestones
<1>5. cl = IF t <= 489 THEN "PREEMPTIVE_BEFORE_LEVEE_FAILURE"
           ELSE IF t <= 507 THEN "BEFORE_UNDERPASS_INFLOW"
           ELSE IF t < 515 THEN "AFTER_INFLOW_BEFORE_UNSAFE_DRIVING"
           ELSE IF t < 520 THEN "AFTER_UNSAFE_DRIVING"
           ELSE "AFTER_FULL_INUNDATION"
  BY RecordAsItIs DEF Class
<1>6. /\ st = "full_inundation" <=> t >= 520
      /\ st = "unsafe_driving" <=> t >= 515 /\ t < 520
      /\ st = "underpass_inflow" <=> t >= 507 /\ t < 515
  <2> HIDE DEF st
  <2>1. \/ st = Before /\ \A s \in DOMAIN Replay : Replay[s] > t
        \/ /\ st \in DOMAIN Replay /\ Replay[st] <= t
           /\ \A s \in DOMAIN Replay : Replay[s] <= t => Replay[s] <= Replay[st]
    BY <1>2, StateBehind DEF st
  <2>2. Before \notin DOMAIN Replay BY BeforeAssumption
  <2> QED BY <1>2, <2>1, <2>2, RecordAsItIs
<1> DEFINE after == {s \in Shifted : r.before[s] <= 0}
<1> HIDE DEF st, cl
<1>7. \A s \in Shifted : s \in after <=> Replay[s] <= t
  BY <1>2, <1>3, <1>4, RecordAsItIs
<1>8. r.blocked = (r.before["underpass_inflow"] >= 0)
  BY <1>2, <1>3, <1>4, RecordAsItIs
<1>9. r.class \in {"PREEMPTIVE_BEFORE_LEVEE_FAILURE", "BEFORE_UNDERPASS_INFLOW"} <=> r.blocked
  <2>1. cl \in {"PREEMPTIVE_BEFORE_LEVEE_FAILURE", "BEFORE_UNDERPASS_INFLOW"} <=> t <= 507
    BY <1>2, <1>5
  <2>2. r.blocked <=> t <= 507 BY <1>3
  <2> QED BY <1>3, <2>1, <2>2
<1>10. r.class = "AFTER_FULL_INUNDATION" <=> r.state = "full_inundation"
  BY <1>2, <1>3, <1>5, <1>6
<1>11. r.class = "AFTER_UNSAFE_DRIVING" <=> r.state = "unsafe_driving"
  BY <1>2, <1>3, <1>5, <1>6
<1>12. st \in Shifted <=> t >= 507 BY <1>2, <1>4, <1>6
<1>13. after # {} <=> t >= 507 
  <2>1. \A s \in Shifted : Replay[s] \in Nat /\ Replay[s] >= 507 BY <1>4, RecordAsItIs
  <2>2. Replay["underpass_inflow"] = 507 BY RecordAsItIs
  <2>3. ASSUME t >= 507 PROVE after # {} BY <1>4, <1>7, <2>2, <2>3
  <2>4. ASSUME NEW s \in after PROVE t >= 507 BY <1>2, <1>7, <2>1
  <2> QED BY <2>3, <2>4
<1>14. ASSUME st \in Shifted PROVE st \in after
  <2>1. Replay[st] <= t BY <1>2, <1>4, <1>6, <1>14, RecordAsItIs
  <2> QED BY <1>7, <1>14, <2>1
<1> QED BY <1>3, <1>8, <1>9, <1>10, <1>11, <1>12, <1>13, <1>14 DEF RowAgrees

LEMMA ReplayedTimes ==
    ASSUME NEW times, NEW s \in DOMAIN Replay
    PROVE  Replayed(times)[s] = IF s \in DOMAIN times THEN times[s] ELSE Replay[s]
BY DEF Replayed

LEMMA DelaysKeepTheOrder ==
    ASSUME NEW delays, InflowDelay(delays) # Rejected, NEW r \in InflowDelay(delays)
    PROVE  /\ RecordedOrder(r.times) /\ r.delay \in delays /\ r.delay \in Nat
           /\ r.times = [s \in Shifted |-> Replay[s] + r.delay]
<1>1. /\ \A d \in delays : d \in 0 .. 180
      /\ r \in DelayRows(delays)
  BY DEF InflowDelay
<1>2. PICK d \in delays : r = [delay |-> d, times |-> [s \in Shifted |-> Replay[s] + d]]
  BY <1>1 DEF DelayRows
<1>3. r.delay = d /\ r.times = [s \in Shifted |-> Replay[s] + d] /\ d \in Nat BY <1>1, <1>2
<1> DEFINE times == r.times
<1>4. DOMAIN times = Shifted /\ \A s \in Shifted : times[s] = Replay[s] + d BY <1>3
<1> HIDE DEF times
<1>5. \A s \in DOMAIN Replay : Replayed(times)[s] = IF s \in Shifted THEN Replay[s] + d ELSE Replay[s]
  BY <1>4, ReplayedTimes
<1>6. ASSUME NEW s \in DOMAIN Replay, NEW q \in DOMAIN Replay, Replay[s] < Replay[q]
      PROVE  Replayed(times)[s] < Replayed(times)[q]
  <2>1. Replay[s] \in Nat /\ Replay[q] \in Nat BY RecordIsOrdered
  <2>2. s \in Shifted /\ q \notin Shifted => Replay[q] + 18 <= Replay[s] BY RecordIsOrdered
  <2> QED BY <1>3, <1>5, <1>6, <2>1, <2>2
<1>7. RecordedOrder(times) BY <1>6 DEF RecordedOrder
<1> QED BY <1>3, <1>7 DEF times

LEMMA AdvancesKeepTheOrder ==
    ASSUME NEW advances, BreachAdvance(advances) # Rejected, NEW r \in BreachAdvance(advances)
    PROVE  RecordedOrder(r.times)
<1>1. /\ \A v \in advances : v \in 0 .. 18
      /\ r \in AdvanceRows(advances)
  BY AdvanceOfRecord DEF BreachAdvance
<1>2. PICK v \in advances : r = [advance |-> v, times |-> [s \in Milestones |-> Replay[s] - v]]
  BY <1>1 DEF AdvanceRows
<1>3. r.times = [s \in Milestones |-> Replay[s] - v] /\ v \in 0 .. 18 BY <1>1, <1>2
<1> DEFINE times == r.times
<1>4. DOMAIN times = Milestones /\ \A s \in Milestones : times[s] = Replay[s] - v BY <1>3
<1> HIDE DEF times
<1>5. \A s \in DOMAIN Replay : Replayed(times)[s] = IF s \in Milestones THEN Replay[s] - v ELSE Replay[s]
  BY <1>4, ReplayedTimes
<1>6. ASSUME NEW s \in DOMAIN Replay, NEW q \in DOMAIN Replay, Replay[s] < Replay[q]
      PROVE  Replayed(times)[s] < Replayed(times)[q]
  <2>1. Replay[s] \in Nat /\ Replay[q] \in Nat BY RecordIsOrdered
  <2>2. s \in Milestones /\ q \notin Milestones => Replay[q] + 19 <= Replay[s] BY RecordIsOrdered
  <2>3. q \in Milestones /\ s \notin Milestones => Replay[s] + 19 <= Replay[q] BY RecordIsOrdered
  <2> QED BY <1>3, <1>5, <1>6, <2>1, <2>2, <2>3
<1>7. RecordedOrder(times) BY <1>6 DEF RecordedOrder
<1> QED BY <1>7 DEF times

LEMMA DelaysKeepTheBaseline ==
    ASSUME NEW delays, CompareDelays(delays) # Rejected
    PROVE  /\ Replayed(CompareDelays(delays).baseline.times) = Replay
           /\ \A r \in CompareDelays(delays).rows :
                r.times # CompareDelays(delays).baseline.times /\ RecordedOrder(r.times)
<1> DEFINE all == {0} \cup OrDefault(delays, DefaultMinutes)
           rows == InflowDelay(all)
           base == CHOOSE r \in rows : r.delay = 0
<1>1. /\ rows # Rejected
      /\ CompareDelays(delays) = [baseline |-> base, rows |-> {r \in rows : r.delay # 0}]
  BY DEF CompareDelays
<1>2. CompareDelays(delays).baseline = base /\ CompareDelays(delays).rows = {r \in rows : r.delay # 0}
  BY <1>1
<1>3. \E r \in rows : r.delay = 0
  <2>1. 0 \in all /\ rows = DelayRows(all) BY <1>1 DEF InflowDelay
  <2>2. [delay |-> 0, times |-> [s \in Shifted |-> Replay[s] + 0]] \in rows BY <2>1 DEF DelayRows
  <2> QED BY <2>2
<1>4. base \in rows /\ base.delay = 0 BY <1>3
<1> HIDE DEF base, all, rows
<1>5. \A r \in rows :
        RecordedOrder(r.times) /\ r.delay \in Nat /\ r.times = [s \in Shifted |-> Replay[s] + r.delay]
  BY <1>1, DelaysKeepTheOrder DEF rows
<1> DEFINE times == base.times
<1>6. DOMAIN times = Shifted /\ \A s \in Shifted : times[s] = Replay[s]
  <2>1. \A s \in Shifted : Replay[s] \in Nat BY RecordIsOrdered
  <2>2. times = [s \in Shifted |-> Replay[s] + base.delay] BY <1>4, <1>5
  <2>3. \A s \in Shifted : Replay[s] + 0 = Replay[s] BY <2>1
  <2>4. DOMAIN times = Shifted /\ \A s \in Shifted : times[s] = Replay[s] + 0 BY <1>4, <2>2
  <2> HIDE DEF times
  <2> QED BY <2>3, <2>4
<1> HIDE DEF times
<1>7. Replayed(times) = Replay
  <2>1. Replayed(times) = [s \in DOMAIN Replay |-> Replay[s]] BY <1>6 DEF Replayed
  <2>2. Replay = [s \in DOMAIN Replay |-> Replay[s]] BY DEF Replay
  <2> QED BY <2>1, <2>2
<1>8. ASSUME NEW r \in rows, r.delay # 0 PROVE r.times # times
  <2>1. "full_inundation" \in Shifted /\ Replay["full_inundation"] = 520 BY RecordAsItIs DEF Shifted, Milestones
  <2> DEFINE late == r.times
  <2>4. late = [s \in Shifted |-> Replay[s] + r.delay] /\ r.delay \in Nat BY <1>5
  <2> HIDE DEF late
  <2>2. late["full_inundation"] = 520 + r.delay /\ r.delay \in Nat BY <2>1, <2>4
  <2>3. times["full_inundation"] = 520 BY <1>6, <2>1
  <2>5. late # times BY <1>8, <2>2, <2>3
  <2> QED BY <2>5 DEF late
<1> QED BY <1>2, <1>5, <1>7, <1>8 DEF times

(* Among the moments of a case is the one that happened, and a clock of a   *)
(* day is only out of bounds behind a case that stays within the day.       *)
LEMMA MomentsOfACase ==
    ASSUME NEW event \in TimelineCases, NEW i \in event.interventions,
           NEW clocks \in SUBSET (0 .. 1439)
    PROVE  /\ i.actual \in Moments(event, i, clocks)
           /\ \A t \in Moments(event, i, clocks) : t \in Nat
           /\ \/ \A t \in Moments(event, i, clocks) : t \in event.first - 720 .. event.last + 720
              \/ ~event.overnight /\ \E c \in clocks : c > event.last + 720
<1> DEFINE ms == Moments(event, i, clocks)
<1>1. ms = {Clock(event, c) : c \in clocks \cup {i.actual % 1440}} BY DEF Moments, At
<1>2. CASE event = Pohang
  <2>1. /\ event.overnight = FALSE /\ event.first = 290 /\ event.last = 460 /\ i.actual = 390
    BY <1>2 DEF Pohang, At
  <2>2. 390 % 1440 = 390 OBVIOUS
  <2>3. \A c \in 0 .. 1439 : Clock(event, c) = c BY <2>1 DEF Clock
  <2>4. ms = clocks \cup {390}
    <3>1. \A c \in clocks \cup {390} : Clock(event, c) = c BY <2>3
    <3>2. ms = {Clock(event, c) : c \in clocks \cup {390}} BY <1>1, <2>1, <2>2
    <3> DEFINE all == clocks \cup {390}
    <3> HIDE DEF ms, all
    <3>3. ms = {Clock(event, c) : c \in all} /\ \A c \in all : Clock(event, c) = c BY <3>1, <3>2 DEF all
    <3>4. ASSUME NEW x \in ms PROVE x \in all BY <3>3
    <3>5. ASSUME NEW x \in all PROVE x \in ms BY <3>3
    <3>6. ms = all BY <3>4, <3>5
    <3> QED BY <3>6 DEF all
  <2> HIDE DEF ms
  <2>5. i.actual \in ms /\ \A t \in ms : t \in Nat BY <2>1, <2>4
  <2>6. ASSUME ~\E c \in clocks : c > 460 + 720, NEW t \in ms
        PROVE  t \in 290 - 720 .. 460 + 720
    <3>1. CASE t = 390 BY <3>1
    <3>2. CASE t \in clocks
      <4>1. t \in 0 .. 1439 BY <3>2
      <4>2. ~(t > 460 + 720) BY <2>6, <3>2
      <4> QED BY <4>1, <4>2
    <3> QED BY <2>4, <3>1, <3>2
  <2> QED BY <2>1, <2>5, <2>6 DEF ms
<1>3. CASE event = Andong
  <2>1. /\ event.overnight = TRUE /\ event.first = 1379 /\ event.last = 1920
        /\ i.actual = 1440 \/ i.actual = 1920
    BY <1>3 DEF Andong, At
  <2>2. 1440 % 1440 = 0 /\ 1920 % 1440 = 480 OBVIOUS
  <2>3. \A c \in 0 .. 1439 : Clock(event, c) = IF c < 720 THEN c + 1440 ELSE c
    BY <2>1 DEF Clock, At
  <2>4. Clock(event, i.actual % 1440) = i.actual /\ i.actual % 1440 \in 0 .. 1439
    <3> DEFINE m == i.actual % 1440
    <3>1. i.actual = 1440 => m = 0 BY <2>2
    <3>2. i.actual = 1920 => m = 480 BY <2>2
    <3> HIDE DEF m, ms
    <3>3. Clock(event, m) = i.actual /\ m \in 0 .. 1439 BY <2>1, <2>3, <3>1, <3>2
    <3> QED BY <3>3 DEF m
  <2>5. i.actual \in ms BY <1>1, <2>4
  <2>6. \A t \in ms : t \in 720 .. 2159
    <3>1. \A c \in clocks \cup {i.actual % 1440} : c \in 0 .. 1439 BY <2>4
    <3> QED BY <1>1, <2>3, <3>1, SMTT(30)
  <2> HIDE DEF ms
  <2>7. \A t \in ms : t \in Nat /\ t \in 1379 - 720 .. 1920 + 720 BY <2>6, SMTT(30)
  <2> QED BY <2>1, <2>5, <2>7, SMTT(30) DEF ms
<1> QED BY <1>2, <1>3 DEF TimelineCases

LEMMA OneResponseHappened ==
    ASSUME NEW i, NEW moments, i.actual \in moments, i.actual \in Nat
    PROVE  Cardinality({r \in MomentRows(i, moments) : r.actual /\ r.earlier = 0}) = 1
<1> DEFINE answer(t) == [at |-> t, actual |-> t = i.actual, earlier |-> i.actual - t,
                      before |-> [s \in DOMAIN i.milestones |-> i.milestones[s] - t]]
           here == {r \in MomentRows(i, moments) : r.actual /\ r.earlier = 0}
<1>1. MomentRows(i, moments) = {answer(t) : t \in moments} BY DEF MomentRows
<1>2. \A t : (answer(t).actual <=> t = i.actual) /\ answer(t).earlier = i.actual - t OBVIOUS
<1> HIDE DEF answer
<1>3. answer(i.actual) \in here BY <1>1, <1>2
<1>4. ASSUME NEW r \in here PROVE r = answer(i.actual) BY <1>1, <1>2
<1> HIDE DEF here
<1>5. here = {answer(i.actual)} BY <1>3, <1>4
<1>6. Cardinality(here) = 1 BY <1>5, FS_Singleton
<1> QED BY <1>6 DEF here

-----------------------------------------------------------------------------
(* What a question states is a set of numbers, minutes at most three hours. *)
LEMMA StatedNumbers ==
    ASSUME NEW q \in Questions
    PROVE  /\ ClockTimes(q) \subseteq Nat /\ Minutes(q) \subseteq 0 .. 180
           /\ \A w : Literal(q, w) =
                CASE w = "closure_timing" -> ClockTimes(q)
                  [] w \in {"inflow_delay", "breach_advance"} -> Minutes(q)
                  [] w = "exposure_inventory" -> Radii(q)
                  [] OTHER -> {}
<1>1. q.said \subseteq Expressions BY PlanAssumption
<1>2. \A e \in q.said : e.value \in Nat BY <1>1 DEF Expressions
<1>3. \A kinds : Said(q, kinds) \subseteq Nat BY <1>2 DEF Said
<1>4. \A n \in Nat : n % 60 \in 0 .. 180 OBVIOUS
<1>5. Minutes(q) \subseteq 0 .. 180 BY <1>3, <1>4 DEF Minutes
<1> QED BY <1>3, <1>5 DEF ClockTimes, Literal

(* A plan that is READY is of a question the tools can answer, with the     *)
(* values it states.                                                        *)
ReadyIs(q, p) ==
    p.status = "READY" =>
        /\ "unsupported" \notin q.words
        /\ p.workflow \in Workflows /\ p.values = Literal(q, p.workflow)

LEMMA NotReadyIs ==
    ASSUME NEW q, NEW status, status # "READY" PROVE ReadyIs(q, NotReady(status))
BY DEF ReadyIs, NotReady

LEMMA RulesKeepToTheQuestion == ASSUME NEW q PROVE ReadyIs(q, PlanOfRules(q))
<1>1. ASSUME NEW w \in Workflows, "unsupported" \notin q.words PROVE ReadyIs(q, Ready(w, Literal(q, w)))
  BY <1>1 DEF ReadyIs, Ready
<1>2. Literal(q, "situation") = {} /\ "situation" \in Workflows BY DEF Literal, Workflows
<1>3. Actionable(q) \subseteq Workflows BY DEF Actionable
<1> DEFINE w == CHOOSE x \in Actionable(q) : TRUE
<1>4. Actionable(q) # {} => w \in Workflows BY <1>3
<1>5. PlanOfRules(q) =
        IF "unsupported" \in q.words THEN NotReady("UNSUPPORTED")
        ELSE IF Cardinality(Actionable(q)) > 1 THEN NotReady("NEEDS_CLARIFICATION")
        ELSE IF Actionable(q) # {}
             THEN IF w = "breach_advance" /\ Minutes(q) = {} THEN NotReady("NEEDS_CLARIFICATION")
                  ELSE Ready(w, Literal(q, w))
        ELSE IF "situation" \in q.words THEN Ready("situation", {})
        ELSE NotReady("UNSUPPORTED")
  BY DEF PlanOfRules
<1> HIDE DEF w
<1> QED BY <1>1, <1>2, <1>4, <1>5, NotReadyIs

LEMMA ModelKeepsToTheQuestion ==
    ASSUME NEW q, NEW answer \in Answers \cup {Unset}, PlanOfModel(q, answer) # Rejected
    PROVE  ReadyIs(q, PlanOfModel(q, answer))
<1>1. ASSUME answer \in Answers, answer.workflow # "unsupported",
             "unsupported" \notin q.words, Validated(q, answer) # Rejected
      PROVE  ReadyIs(q, Validated(q, answer))
  <2>1. answer.workflow \in Workflows BY <1>1, PlanAssumption
  <2> QED BY <1>1, <2>1 DEF Validated, ReadyIs, Ready
<1> QED BY <1>1, NotReadyIs DEF PlanOfModel

(* What WhatIfsKeepTheRecord says of an outcome.                            *)
OutcomeKeeps(o) ==
    /\ o.of = "response_timing" /\ o.rows = Rejected =>
          ~o.case.overnight /\ \E c \in o.clocks : c > o.case.last + At(12, 0)
    /\ o.rows # Rejected =>
        CASE o.of \in {"inflow_delay", "breach_advance"} -> \A r \in o.rows : RecordedOrder(r.times)
          [] o.of \in {"closure_timing", "compare_closures"} -> \A r \in o.rows : RowAgrees(r)
          [] o.of = "compare_delays" ->
                /\ Replayed(o.baseline.times) = Replay
                /\ \A r \in o.rows : r.times # o.baseline.times /\ RecordedOrder(r.times)
          [] o.of = "response_timing" ->
                Cardinality({r \in o.rows : r.actual /\ r.earlier = 0}) = 1
          [] OTHER -> TRUE

LEMMA DefaultsAreTimes == DefaultClosures \subseteq Nat /\ DefaultMinutes \subseteq 0 .. 18
BY DEF DefaultClosures, DefaultMinutes, At

LEMMA AnalysisKeeps ==
    ASSUME NEW q \in Questions, NEW w \in Workflows, NEW rows, rows = Analysis(w, Literal(q, w))
    PROVE  /\ OutcomeKeeps([of |-> w, rows |-> rows])
           /\ rows = Rejected => w = "breach_advance" /\ \E m \in Literal(q, w) : m > MaxAdvance
<1> DEFINE o == [of |-> w, rows |-> rows]
<1>1. o.of = w /\ o.rows = rows OBVIOUS
<1> HIDE DEF o
<1>2. CASE w = "closure_timing"
  <2> DEFINE times == OrDefault(ClockTimes(q), DefaultClosures)
  <2>1. rows = ClosureTiming(times) /\ rows # Rejected
    BY <1>2, StatedNumbers, RowsAssumption DEF Analysis
  <2>2. times \subseteq Nat BY StatedNumbers, DefaultsAreTimes DEF OrDefault
  <2>3. \A r \in rows : RowAgrees(r) BY <2>1, <2>2, ClosureRowsAgree
  <2> QED BY <1>1, <1>2, <2>1, <2>3 DEF OutcomeKeeps, o
<1>3. CASE w = "inflow_delay"
  <2> DEFINE delays == OrDefault(Minutes(q), DefaultMinutes)
  <2>1. rows = InflowDelay(delays) BY <1>3, StatedNumbers DEF Analysis
  <2>2. \A d \in delays : d \in 0 .. 180 BY StatedNumbers, DefaultsAreTimes DEF OrDefault
  <2>3. rows # Rejected BY <2>1, <2>2, RowsAssumption DEF InflowDelay
  <2>4. \A r \in rows : RecordedOrder(r.times) BY <2>1, <2>3, DelaysKeepTheOrder
  <2> QED BY <1>1, <1>3, <2>3, <2>4 DEF OutcomeKeeps, o
<1>4. CASE w = "breach_advance"
  <2> DEFINE advances == OrDefault(Minutes(q), DefaultMinutes)
  <2>1. rows = BreachAdvance(advances) /\ Literal(q, w) = Minutes(q)
    BY <1>4, StatedNumbers DEF Analysis
  <2>2. rows # Rejected => \A r \in rows : RecordedOrder(r.times) BY <2>1, AdvancesKeepTheOrder
  <2>3. ASSUME rows = Rejected, \A v \in advances : v \in 0 .. MaxAdvance PROVE FALSE
    BY <2>1, <2>3, RowsAssumption DEF BreachAdvance
  <2>4. rows = Rejected => \E m \in Minutes(q) : m > MaxAdvance
    <3>1. SUFFICES ASSUME rows = Rejected PROVE \E m \in Minutes(q) : m > MaxAdvance
      OBVIOUS
    <3>2. PICK v \in advances : v \notin 0 .. 18 BY <2>3, <3>1, AdvanceOfRecord
    <3>3. v \in Minutes(q) BY <3>2, DefaultsAreTimes DEF OrDefault
    <3>4. v \in 0 .. 180 BY <3>3, StatedNumbers
    <3> QED BY <3>2, <3>3, <3>4, AdvanceOfRecord
  <2> QED BY <1>1, <1>4, <2>1, <2>2, <2>4 DEF OutcomeKeeps, o
<1>5. CASE w = "exposure_inventory"
  <2>1. rows # Rejected BY <1>5, StatedNumbers, RowsAssumption DEF Analysis
  <2> QED BY <1>1, <1>5, <2>1 DEF OutcomeKeeps, o
<1>6. CASE w = "situation"
  <2>1. rows # Rejected BY <1>6, RowsAssumption DEF Analysis
  <2> QED BY <1>1, <1>6, <2>1 DEF OutcomeKeeps, o
<1> QED BY <1>2, <1>3, <1>4, <1>5, <1>6 DEF Workflows

-----------------------------------------------------------------------------
(* Nothing runs before a plan, and a plan is of the question.               *)
AskInv ==
    /\ question # Unset => question.asked \in Questions
    /\ plan # Unset => question # Unset
    /\ question # Unset /\ outcome # Unset => plan # Unset
    /\ plan # Unset => ReadyIs(question.asked, plan)

PlanInv == AskInv /\ AnalysesKeepToQuestionAndRecord

LEMMA RequestKeeps ==
    ASSUME PlanInv, NEW result, OutcomeKeeps(result), Request(result) PROVE PlanInv'
<1>1. /\ question = Unset /\ plan = Unset /\ outcome' = result
      /\ question' = Unset /\ plan' = Unset
  BY DEF PlanInv, AskInv, Request
<1>2. AskInv' BY <1>1 DEF AskInv
<1>3. PlanKeepsToTheQuestion' BY <1>1 DEF PlanKeepsToTheQuestion
<1>4. WhatIfsKeepTheRecord' BY <1>1 DEF WhatIfsKeepTheRecord, OutcomeKeeps
<1> QED BY <1>2, <1>3, <1>4 DEF PlanInv, AnalysesKeepToQuestionAndRecord

LEMMA PlanStep == PlanInv /\ [PlanNext]_planVars => PlanInv'
<1> SUFFICES ASSUME PlanInv, [PlanNext]_planVars PROVE PlanInv'
  OBVIOUS
<1>1. AskInv /\ PlanKeepsToTheQuestion /\ WhatIfsKeepTheRecord
  BY DEF PlanInv, AnalysesKeepToQuestionAndRecord
<1>2. CASE UNCHANGED planVars
  <2>1. question' = question /\ plan' = plan /\ outcome' = outcome BY <1>2 DEF planVars
  <2>2. AskInv' BY <1>1, <2>1 DEF AskInv
  <2>3. PlanKeepsToTheQuestion' BY <1>1, <2>1 DEF PlanKeepsToTheQuestion, Stated
  <2>4. WhatIfsKeepTheRecord' BY <1>1, <2>1 DEF WhatIfsKeepTheRecord
  <2> QED BY <2>2, <2>3, <2>4 DEF PlanInv, AnalysesKeepToQuestionAndRecord
<1>3. ASSUME NEW q \in Questions, NEW planner, Ask(q, planner) PROVE PlanInv'
  <2>1. /\ question = Unset /\ outcome = Unset /\ plan = Unset
        /\ question' = [asked |-> q, planner |-> planner] /\ plan' = Unset /\ outcome' = Unset
    BY <1>1, <1>3 DEF Ask, AskInv
  <2>2. AskInv' BY <2>1 DEF AskInv
  <2>3. PlanKeepsToTheQuestion' BY <2>1 DEF PlanKeepsToTheQuestion
  <2>4. WhatIfsKeepTheRecord' BY <2>1 DEF WhatIfsKeepTheRecord
  <2> QED BY <2>2, <2>3, <2>4 DEF PlanInv, AnalysesKeepToQuestionAndRecord
<1>4. CASE Plan
  <2> DEFINE q == question.asked
  <2>1. /\ question # Unset /\ plan = Unset /\ question' = question /\ outcome' = outcome
        /\ outcome = Unset
    BY <1>1, <1>4 DEF Plan, AskInv
  <2>2. \/ plan' = PlanOfRules(q) \/ plan' = NotReady("503") \/ plan' = NotReady("429")
        \/ \E answer \in Answers \cup {Unset} :
              PlanOfModel(q, answer) # Rejected /\ plan' = PlanOfModel(q, answer)
    BY <1>4 DEF Plan
  <2>3. ReadyIs(q, plan')
    BY <2>2, RulesKeepToTheQuestion, ModelKeepsToTheQuestion, NotReadyIs
  <2>4. AskInv' BY <1>1, <2>1, <2>3 DEF AskInv
  <2>5. PlanKeepsToTheQuestion' BY <2>1, <2>3 DEF PlanKeepsToTheQuestion, Stated, ReadyIs
  <2>6. WhatIfsKeepTheRecord' BY <2>1 DEF WhatIfsKeepTheRecord
  <2> QED BY <2>4, <2>5, <2>6 DEF PlanInv, AnalysesKeepToQuestionAndRecord
<1>5. CASE RunWorkflow
  <2> DEFINE q == question.asked
             w == plan.workflow
             rows == Analysis(w, Literal(q, w))
  <2>1. /\ plan # Unset /\ plan.status = "READY" /\ question' = question /\ plan' = plan
        /\ outcome' = [of |-> w, rows |-> Analysis(w, plan.values)]
    BY <1>5 DEF RunWorkflow
  <2>2. q \in Questions /\ w \in Workflows /\ plan.values = Literal(q, w)
    BY <1>1, <2>1 DEF AskInv, ReadyIs
  <2>3. outcome' = [of |-> w, rows |-> rows] BY <2>1, <2>2
  <2>4. /\ OutcomeKeeps([of |-> w, rows |-> rows])
        /\ rows = Rejected => w = "breach_advance" /\ \E m \in Literal(q, w) : m > MaxAdvance
    BY <2>2, AnalysisKeeps
  <2> HIDE DEF rows, w
  <2>5. outcome'.rows = rows BY <2>3
  <2>6. AskInv' BY <1>1, <2>1 DEF AskInv
  <2>7. PlanKeepsToTheQuestion'
    BY <1>1, <2>1, <2>4, <2>5 DEF PlanKeepsToTheQuestion, Stated, w
  <2>8. WhatIfsKeepTheRecord' BY <2>3, <2>4 DEF WhatIfsKeepTheRecord, OutcomeKeeps
  <2> QED BY <2>6, <2>7, <2>8 DEF PlanInv, AnalysesKeepToQuestionAndRecord
<1>6. ASSUME NEW times \in Closures, CompareTimes(times) PROVE PlanInv'
  <2> DEFINE all == OrDefault(times, DefaultClosures)
             o == [of |-> "compare_closures", baseline |-> Trigger, rows |-> ClosureTiming(all)]
  <2>1. Request(o) BY <1>6 DEF CompareTimes, CompareClosures
  <2>2. all \subseteq Nat BY PlanAssumption, DefaultsAreTimes DEF OrDefault
  <2>3. o.of = "compare_closures" /\ \A r \in o.rows : RowAgrees(r) BY <2>2, ClosureRowsAgree
  <2> HIDE DEF o
  <2>4. OutcomeKeeps(o) BY <2>3 DEF OutcomeKeeps
  <2> QED BY <2>1, <2>4, RequestKeeps
<1>7. ASSUME NEW delays \in Delays, CompareShifts(delays) PROVE PlanInv'
  <2> DEFINE compared == CompareDelays(delays)
             o == IF compared = Rejected THEN [of |-> "compare_delays", rows |-> Rejected]
                  ELSE [of |-> "compare_delays", baseline |-> compared.baseline, rows |-> compared.rows]
  <2>1. Request(o) BY <1>7 DEF CompareShifts
  <2>2. compared # Rejected =>
          /\ Replayed(compared.baseline.times) = Replay
          /\ \A r \in compared.rows : r.times # compared.baseline.times /\ RecordedOrder(r.times)
    BY DelaysKeepTheBaseline
  <2> HIDE DEF compared
  <2>3. /\ o.of = "compare_delays"
        /\ compared = Rejected => o.rows = Rejected
        /\ compared # Rejected => o.baseline = compared.baseline /\ o.rows = compared.rows
    OBVIOUS
  <2> HIDE DEF o
  <2>4. OutcomeKeeps(o) BY <2>2, <2>3 DEF OutcomeKeeps
  <2> QED BY <2>1, <2>4, RequestKeeps
<1>8. ASSUME NEW event \in TimelineCases, NEW clocks \in Clocks, NEW i \in event.interventions,
             TimeResponse(event, i, clocks)
      PROVE  PlanInv'
  <2> DEFINE ms == Moments(event, i, clocks)
             rows == ResponseTiming(event, i, clocks)
             o == [of |-> "response_timing", case |-> event, clocks |-> clocks, rows |-> rows]
  <2>1. Request(o) BY <1>8 DEF TimeResponse
  <2>2. clocks \in SUBSET (0 .. 1439) BY PlanAssumption DEF At
  <2>3. /\ i.actual \in ms /\ \A t \in ms : t \in Nat
        /\ \/ \A t \in ms : t \in event.first - 720 .. event.last + 720
           \/ ~event.overnight /\ \E c \in clocks : c > event.last + 720
    BY <2>2, MomentsOfACase
  <2>4. /\ (\A t \in ms : t \in event.first - 720 .. event.last + 720) => rows = MomentRows(i, ms)
        /\ rows # Rejected => rows = MomentRows(i, ms)
    BY DEF ResponseTiming, At
  <2>5. MomentRows(i, ms) # Rejected BY RowsAssumption
  <2>6. Cardinality({r \in MomentRows(i, ms) : r.actual /\ r.earlier = 0}) = 1
    BY <2>3, OneResponseHappened
  <2> HIDE DEF rows, ms
  <2>7. o.of = "response_timing" /\ o.case = event /\ o.clocks = clocks /\ o.rows = rows
    OBVIOUS
  <2> HIDE DEF o
  <2>8. rows = Rejected => ~event.overnight /\ \E c \in clocks : c > event.last + At(12, 0)
    BY <2>3, <2>4, <2>5 DEF At
  <2>9. rows # Rejected => Cardinality({r \in rows : r.actual /\ r.earlier = 0}) = 1
    BY <2>4, <2>6
  <2>10. OutcomeKeeps(o) BY <2>7, <2>8, <2>9 DEF OutcomeKeeps
  <2> QED BY <2>1, <2>10, RequestKeeps
<1> QED BY <1>2, <1>3, <1>4, <1>5, <1>6, <1>7, <1>8 DEF PlanNext

(* Whatever the model answers and whatever is posted, an analysis runs on   *)
(* what the question states or on the defaults, and no what-if turns the    *)
(* record around.                                                           *)
THEOREM AnalysesKeepHolds == PlanSpec => []AnalysesKeepToQuestionAndRecord
<1>1. PlanInit => PlanInv
  BY DEF PlanInit, PlanInv, AskInv, AnalysesKeepToQuestionAndRecord, PlanKeepsToTheQuestion,
         WhatIfsKeepTheRecord
<1>2. PlanInv /\ [PlanNext]_planVars => PlanInv' BY PlanStep
<1>3. PlanInv => AnalysesKeepToQuestionAndRecord BY DEF PlanInv
<1> QED BY <1>1, <1>2, <1>3, PTL DEF PlanSpec
=============================================================================
