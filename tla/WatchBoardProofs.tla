-------------------------- MODULE WatchBoardProofs --------------------------
(***************************************************************************)
(* The live board, for every number of callers, every length of the        *)
(* periods and every bound, however the calls of the board, of the         *)
(* recorder and the restarts interleave: each official feed is pulled at   *)
(* most once every Refresh; a facility stands under another warning than   *)
(* the one in force only for the listed reasons; and the season board      *)
(* tells what the recorder saw.                                            *)
(***************************************************************************)
EXTENDS WatchBoard, SieveProofs

(* Strengthening: a caller that pulls holds the feed's lock, and its time   *)
(* is Refresh past the feed's.  It was compared with the lock held, and     *)
(* nobody else writes the feed while the lock is held.                      *)
PullsForecast(c) ==
    pc[c] = "forecastPull" =>
        lock["forecast"] = c /\ (ff.at # None => now[c] - ff.at >= Refresh)
PullsAlert(c) ==
    pc[c] = "alertPull" =>
        lock["alert"] = c /\ (kw.at # None => now[c] - kw.at >= Refresh)

Timed ==
    /\ clock \in Nat /\ ff.at \in Nat \cup {None} /\ kw.at \in Nat \cup {None}
    /\ lock \in [Feeds -> Callers \cup {None}]
    /\ pc \in [Callers -> Places] /\ now \in [Callers -> Nat]

PullInv == Timed /\ \A c \in Callers : PullsForecast(c) /\ PullsAlert(c)

FeedStep == (\E c \in Callers : CallStep(c) \/ Judged(c)) \/ SourceStep \/ Tick

Spaced ==
    /\ ff.at # None /\ ff'.at \notin {ff.at, None} => ff'.at - ff.at >= Refresh
    /\ kw.at # None /\ kw'.at \notin {kw.at, None} => kw'.at - kw.at >= Refresh

-----------------------------------------------------------------------------
LEMMA Constants ==
    /\ None \notin Callers /\ None \notin Nat /\ Refresh \in Nat
    /\ FirstSleep \in Nat /\ Interval \in Nat
  BY FeedsAssumption, BoardAssumption, WatchLogAssumption

(* The steps that leave both feeds and the locks alone.                     *)
LEMMA QuietSteps ==
    ASSUME PullInv, NEW c \in Callers,
           AskForecast(c) \/ ForecastCached(c) \/ ReadForecast(c) \/ AlertCached(c) \/ Judged(c)
    PROVE  PullInv' /\ Spaced
<1>1. UNCHANGED <<clock, ff, kw, lock>>
  BY DEF AskForecast, ForecastCached, ReadForecast, AlertCached, Judged, caches
<1>2. /\ pc' \in [Callers -> Places] /\ pc'[c] \notin {"forecastPull", "alertPull"}
      /\ \A d \in Callers : d # c => pc'[d] = pc[d]
  BY DEF PullInv, Timed, AskForecast, ForecastCached, ReadForecast, AlertCached, Judged,
         HaveForecast, HaveAlert, Places
<1>3. now' \in [Callers -> Nat] /\ \A d \in Callers : d # c => now'[d] = now[d]
  BY DEF PullInv, Timed, AskForecast, ForecastCached, ReadForecast, AlertCached, Judged,
         HaveForecast, HaveAlert
<1>. QED
  BY <1>1, <1>2, <1>3 DEF PullInv, Timed, PullsForecast, PullsAlert, Spaced

LEMMA EnterSteps ==
    ASSUME PullInv, NEW c \in Callers, EnterForecast(c) \/ EnterAlert(c)
    PROVE  PullInv' /\ Spaced
<1>1. UNCHANGED <<clock, ff, kw, now>>
  BY DEF EnterForecast, EnterAlert, caches
<1>2. CASE EnterForecast(c)
  <2>1. /\ lock' = [lock EXCEPT !["forecast"] = c] /\ pc' = [pc EXCEPT ![c] = "forecastPull"]
        /\ lock["forecast"] = None /\ ~Throttled(c, ff)
    BY <1>2 DEF EnterForecast
  <2>2. ff.at # None => now[c] - ff.at >= Refresh
    BY <2>1, Constants DEF Throttled, PullInv, Timed
  <2>3. \A d \in Callers : pc[d] # "forecastPull"
    BY <2>1, Constants DEF PullInv, PullsForecast
  <2>4. Timed'
    BY <1>1, <2>1 DEF PullInv, Timed, Feeds, Places
  <2>. QED
    BY <1>1, <2>1, <2>2, <2>3, <2>4 DEF PullInv, Timed, PullsForecast, PullsAlert, Spaced, Feeds
<1>3. CASE EnterAlert(c)
  <2>1. /\ lock' = [lock EXCEPT !["alert"] = c] /\ pc' = [pc EXCEPT ![c] = "alertPull"]
        /\ lock["alert"] = None /\ ~Throttled(c, kw)
    BY <1>3 DEF EnterAlert
  <2>2. kw.at # None => now[c] - kw.at >= Refresh
    BY <2>1, Constants DEF Throttled, PullInv, Timed
  <2>3. \A d \in Callers : pc[d] # "alertPull"
    BY <2>1, Constants DEF PullInv, PullsAlert
  <2>4. Timed'
    BY <1>1, <2>1 DEF PullInv, Timed, Feeds, Places
  <2>. QED
    BY <1>1, <2>1, <2>2, <2>3, <2>4 DEF PullInv, Timed, PullsForecast, PullsAlert, Spaced, Feeds
<1>. QED
  BY <1>2, <1>3

(* A pull ends, or a call finds no key: the feed gets the caller's time.    *)
LEMMA ForecastAnswered ==
    ASSUME PullInv, NEW c \in Callers, PullForecast(c) \/ ForecastWithoutKey(c)
    PROVE  PullInv' /\ Spaced
<1>1. /\ ff'.at = now[c] /\ UNCHANGED <<clock, kw>>
      /\ ff.at # None => now[c] - ff.at >= Refresh
  <2>1. CASE PullForecast(c)
    <3>1. AnswerForecast(c) /\ pc[c] = "forecastPull" /\ UNCHANGED <<clock, kw>>
      BY <2>1 DEF PullForecast, LeaveForecast
    <3>2. \E rows : ff' = [at |-> now[c], rows |-> rows]
      BY <3>1 DEF AnswerForecast
    <3>. QED
      BY <3>1, <3>2 DEF PullInv, PullsForecast
  <2>2. CASE ForecastWithoutKey(c)
    BY <2>2, Constants DEF ForecastWithoutKey, Throttled, PullInv, Timed
  <2>. QED
    BY <2>1, <2>2
<1>2. \A d \in Callers : d # c => pc[d] # "forecastPull"
  BY Constants DEF PullForecast, LeaveForecast, ForecastWithoutKey, PullInv, PullsForecast
<1>3. /\ pc' \in [Callers -> Places] /\ pc'[c] \notin {"forecastPull", "alertPull"}
      /\ \A d \in Callers : d # c => pc'[d] = pc[d]
      /\ now' \in [Callers -> Nat] /\ \A d \in Callers : d # c => now'[d] = now[d]
  <2>1. CASE PullForecast(c)
    BY <2>1 DEF PullInv, Timed, PullForecast, LeaveForecast, Places
  <2>2. CASE ForecastWithoutKey(c)
    <3>1. /\ pc' = [pc EXCEPT ![c] = "idle"] /\ now' = [now EXCEPT ![c] = 0]
      BY <2>2 DEF ForecastWithoutKey, HaveForecast
    <3>. QED
      BY <3>1 DEF PullInv, Timed, Places
  <2>. QED
    BY <2>1, <2>2
<1>4. lock' \in [Feeds -> Callers \cup {None}] /\ lock'["alert"] = lock["alert"]
  BY DEF PullInv, Timed, PullForecast, ForecastWithoutKey, Feeds
<1>. QED
  BY <1>1, <1>2, <1>3, <1>4 DEF PullInv, Timed, PullsForecast, PullsAlert, Spaced

LEMMA AlertAnswered ==
    ASSUME PullInv, NEW c \in Callers, PullAlert(c) \/ AlertWithoutKey(c)
    PROVE  PullInv' /\ Spaced
<1>1. /\ kw'.at = now[c] /\ UNCHANGED <<clock, ff, now>>
      /\ kw.at # None => now[c] - kw.at >= Refresh
  <2>1. CASE PullAlert(c)
    BY <2>1 DEF PullAlert, PullInv, PullsAlert
  <2>2. CASE AlertWithoutKey(c)
    BY <2>2, Constants DEF AlertWithoutKey, Throttled, PullInv, Timed
  <2>. QED
    BY <2>1, <2>2
<1>2. \A d \in Callers : d # c => pc[d] # "alertPull"
  BY Constants DEF PullAlert, AlertWithoutKey, PullInv, PullsAlert
<1>3. /\ pc' \in [Callers -> Places] /\ pc'[c] \notin {"forecastPull", "alertPull"}
      /\ \A d \in Callers : d # c => pc'[d] = pc[d]
  BY DEF PullInv, Timed, PullAlert, AlertWithoutKey, HaveAlert, Places
<1>4. lock' \in [Feeds -> Callers \cup {None}] /\ lock'["forecast"] = lock["forecast"]
  BY DEF PullInv, Timed, PullAlert, AlertWithoutKey, Feeds
<1>. QED
  BY <1>1, <1>2, <1>3, <1>4 DEF PullInv, Timed, PullsForecast, PullsAlert, Spaced

LEMMA FeedStepKeeps ==
    ASSUME PullInv, FeedStep
    PROVE  PullInv' /\ Spaced
<1>1. CASE \E c \in Callers : CallStep(c) \/ Judged(c)
  BY <1>1, QuietSteps, EnterSteps, ForecastAnswered, AlertAnswered DEF CallStep
<1>2. CASE SourceStep \/ Tick
  <2>1. UNCHANGED <<ff, kw, lock, pc, now>> /\ (clock' = clock \/ clock' = clock + 1)
    BY <1>2 DEF SourceStep, Issue, Announce, Tick, caches, calls
  <2>. QED
    BY <2>1 DEF PullInv, Timed, PullsForecast, PullsAlert, Spaced
<1>. QED
  BY <1>1, <1>2 DEF FeedStep

(* After a restart nobody pulls and no feed has a time.                     *)
LEMMA RestartKeeps ==
    ASSUME PullInv, Restart
    PROVE  PullInv' /\ Spaced
<1>1. /\ ff'.at = None /\ kw'.at = None /\ clock' = clock
      /\ lock' = [f \in Feeds |-> None]
      /\ pc' = [c \in Callers |-> "idle"] /\ now' = [c \in Callers |-> 0]
  BY DEF Restart
<1>. QED
  BY <1>1 DEF PullInv, Timed, PullsForecast, PullsAlert, Spaced, Places

-----------------------------------------------------------------------------
LEMMA InitPull == BoardInit => PullInv
  BY DEF BoardInit, FeedsInit, PullInv, Timed, PullsForecast, PullsAlert, Feeds, Places

LEMMA StepPull ==
    ASSUME PullInv, [BoardNext]_boardVars
    PROVE  PullInv' /\ Spaced
<1>1. CASE UNCHANGED <<clock, ff, kw, lock, pc, now>>
  BY <1>1 DEF PullInv, Timed, PullsForecast, PullsAlert, Spaced
<1>2. CASE \E c \in Callers : Assess(c) \/ AskFeeds(c) \/ Judge(c)
  BY <1>2, FeedStepKeeps DEF Assess, AskFeeds, Judge, FeedStep, CallStep
<1>3. CASE RecordNothing \/ Record \/ UNCHANGED boardVars
  BY <1>3, <1>1 DEF RecordNothing, Record, Write, boardVars, feedVars, caches, calls
<1>4. CASE SnapshotFails
  <2>1. Judged(Recorder) \/ UNCHANGED feedVars
    BY <1>4 DEF SnapshotFails, Fail
  <2>. QED
    BY <2>1, <1>1, FeedStepKeeps, BoardAssumption DEF FeedStep, feedVars, caches, calls
<1>5. CASE BoardTick \/ SourceStep
  BY <1>5, FeedStepKeeps DEF BoardTick, FeedStep
<1>. QED
  BY <1>2, <1>3, <1>4, <1>5, RestartKeeps DEF BoardNext

(* Between two pulls of the forecasts, or of the alerts, Refresh passes     *)
(* (REFRESH_SECONDS of live_issuances and of kma_weather_warning), also     *)
(* when callers wait for the lock with a time they read before.             *)
THEOREM FeedsPulledOncePerRefresh == BoardSpec => PulledOncePerRefresh
<1>1. PullInv /\ [BoardNext]_boardVars => PullInv' /\ Spaced
  BY StepPull
<1>2. Spaced => [/\ ff.at # None /\ ff'.at \notin {ff.at, None} => ff'.at - ff.at >= Refresh
                 /\ kw.at # None /\ kw'.at \notin {kw.at, None} => kw'.at - kw.at >= Refresh]_feedVars
  BY DEF Spaced
<1>. QED
  BY <1>1, <1>2, InitPull, PTL DEF BoardSpec, PulledOncePerRefresh

-----------------------------------------------------------------------------
(* What the feeds hold and what the callers were told.                      *)
Command == [at : Time, level : Levels \cup {None}]
Alert == [at : Time, from : Nat, level : Levels \cup {None}]

FeedTypes ==
    /\ clock \in Time /\ keys \subseteq {"HRFCO", "KMA"}
    /\ commands \in Seq(Command) /\ alerts \in Seq(Alert)
    /\ ff.at \in Time \cup {None} /\ ff.rows \in Seq(Command)
    /\ kw.at \in Time \cup {None} /\ kw.ok \in BOOLEAN
    /\ lock \in [Feeds -> Callers \cup {None}]
    /\ pc \in [Callers -> Places] /\ now \in [Callers -> Time]
    /\ official \in [Callers -> Levels \cup {None}]

HolderPulls == \A f \in Feeds : lock[f] = None \/ pc[lock[f]] = PullOf[f]

LEMMA TimeIsNat == Time \subseteq Nat /\ Time \subseteq Int /\ 0 \in Time /\ MaxClock \in Nat
  BY FeedsAssumption DEF Time, FeedsAssumption

LEMMA SieveDrawn ==
    ASSUME NEW S, NEW s \in Seq(S), NEW T
    PROVE  Sieve(s, T) \in Seq(S)
  BY SieveKeeps

LEMMA LastIsDrawn ==
    ASSUME NEW S, NEW s \in Seq(S), s # <<>>
    PROVE  Last(s) \in S
<1>1. Len(s) \in 1 .. Len(s)
  OBVIOUS
<1>. QED
  BY <1>1 DEF Last

LEMMA ActiveTyped ==
    ASSUME NEW rows \in Seq(Command), NEW t
    PROVE  Active(rows, t) \in Levels \cup {None}
<1>. DEFINE past == Until(rows, t)
<1>1. past \in Seq(Command)
  BY SieveDrawn DEF Until
<1>. HIDE DEF past
<1>2. CASE past # <<>>
  <2>1. Last(past) \in Command
    BY <1>1, <1>2, LastIsDrawn
  <2>. QED
    BY <2>1 DEF Active, Command, past
<1>3. CASE past = <<>>
  BY <1>3 DEF Active, past
<1>. QED
  BY <1>2, <1>3

LEMMA HaveForecastTyped ==
    ASSUME FeedTypes, NEW c \in Callers, NEW rows \in Seq(Command), HaveForecast(c, rows)
    PROVE  /\ pc' \in [Callers -> Places] /\ now' \in [Callers -> Time]
           /\ official' \in [Callers -> Levels \cup {None}]
           /\ pc'[c] \in {"alert", "idle"} /\ \A d \in Callers : d # c => pc'[d] = pc[d]
<1>1. Active(rows, clock) \in Levels \cup {None}
  BY ActiveTyped
<1>2. official' \in [Callers -> Levels \cup {None}]
  BY <1>1 DEF HaveForecast, FeedTypes
<1>3. now' \in [Callers -> Time]
  BY TimeIsNat DEF HaveForecast, FeedTypes
<1>4. pc' \in [Callers -> Places] /\ pc'[c] \in {"alert", "idle"} /\ \A d \in Callers : d # c => pc'[d] = pc[d]
  BY DEF HaveForecast, FeedTypes, Places
<1>. QED
  BY <1>2, <1>3, <1>4

LEMMA ForecastRowsTyped ==
    ASSUME FeedTypes, NEW good \in BOOLEAN
    PROVE  ForecastRows(good) \in Seq(Command)
<1>1. ForecastList \in Seq(Command)
  BY SieveDrawn DEF ForecastList, FeedTypes
<1>. QED
  BY <1>1 DEF ForecastRows

(* A caller that does not hold a lock may go on; the one that does pulls.   *)
LEMMA OthersPull ==
    ASSUME FeedTypes, HolderPulls, NEW c \in Callers,
           pc[c] \notin {"forecastPull", "alertPull"}, lock' = lock,
           \A d \in Callers : d # c => pc'[d] = pc[d]
    PROVE  HolderPulls'
<1>1. \A f \in Feeds : PullOf[f] \in {"forecastPull", "alertPull"}
  BY DEF Feeds, PullOf
<1>2. \A f \in Feeds : lock[f] \in Callers \cup {None}
  BY DEF FeedTypes
<1>. QED
  BY <1>1, <1>2 DEF HolderPulls

LEMMA ForecastCallTyped ==
    ASSUME FeedTypes, HolderPulls, NEW c \in Callers,
           AskForecast(c) \/ ForecastCached(c) \/ ForecastWithoutKey(c) \/ ReadForecast(c)
    PROVE  FeedTypes' /\ HolderPulls'
<1>0. /\ pc[c] \notin {"forecastPull", "alertPull"}
      /\ UNCHANGED <<clock, sources, kw, lock>>
  BY DEF AskForecast, ForecastCached, ForecastWithoutKey, ReadForecast, caches
<1>1. /\ pc' \in [Callers -> Places] /\ now' \in [Callers -> Time]
      /\ official' \in [Callers -> Levels \cup {None}]
      /\ \A d \in Callers : d # c => pc'[d] = pc[d]
  <2>1. CASE AskForecast(c)
    BY <2>1 DEF AskForecast, FeedTypes, Places
  <2>2. CASE ForecastCached(c) \/ ReadForecast(c)
    <3>1. HaveForecast(c, ff.rows) /\ ff.rows \in Seq(Command)
      BY <2>2 DEF ForecastCached, ReadForecast, FeedTypes
    <3>. QED
      BY <3>1, HaveForecastTyped
  <2>3. CASE ForecastWithoutKey(c)
    <3>1. HaveForecast(c, <<>>) /\ <<>> \in Seq(Command)
      BY <2>3 DEF ForecastWithoutKey
    <3>. QED
      BY <3>1, HaveForecastTyped
  <2>. QED
    BY <2>1, <2>2, <2>3
<1>2. ff'.at \in Time \cup {None} /\ ff'.rows \in Seq(Command)
  <2>1. CASE ff' = ff
    BY <2>1 DEF FeedTypes
  <2>2. CASE ff' = [at |-> now[c], rows |-> <<>>]
    BY <2>2 DEF FeedTypes
  <2>. QED
    BY <2>1, <2>2 DEF AskForecast, ForecastCached, ForecastWithoutKey, ReadForecast, caches
<1>3. HolderPulls'
  BY <1>0, <1>1, OthersPull
<1>4. FeedTypes'
  BY <1>0, <1>1, <1>2 DEF FeedTypes, sources, Command, Alert, Time
<1>. QED
  BY <1>3, <1>4

LEMMA AlertCallTyped ==
    ASSUME FeedTypes, HolderPulls, NEW c \in Callers,
           AlertCached(c) \/ AlertWithoutKey(c) \/ Judged(c)
    PROVE  FeedTypes' /\ HolderPulls'
<1>0. /\ pc[c] \notin {"forecastPull", "alertPull"}
      /\ UNCHANGED <<clock, sources, ff, lock>>
  BY DEF AlertCached, AlertWithoutKey, Judged, caches
<1>1. /\ pc' \in [Callers -> Places]
      /\ \A d \in Callers : d # c => pc'[d] = pc[d]
  BY DEF AlertCached, AlertWithoutKey, Judged, HaveAlert, FeedTypes, Places
<1>2. now' \in [Callers -> Time] /\ official' \in [Callers -> Levels \cup {None}]
  BY TimeIsNat DEF AlertCached, AlertWithoutKey, Judged, FeedTypes
<1>3. kw'.at \in Time \cup {None} /\ kw'.ok \in BOOLEAN
  <2>1. CASE kw' = kw
    BY <2>1 DEF FeedTypes
  <2>2. CASE kw' = [at |-> now[c], ok |-> FALSE, active |-> None]
    BY <2>2 DEF FeedTypes
  <2>. QED
    BY <2>1, <2>2 DEF AlertCached, AlertWithoutKey, Judged, caches
<1>4. HolderPulls'
  BY <1>0, <1>1, OthersPull
<1>5. FeedTypes'
  BY <1>0, <1>1, <1>2, <1>3 DEF FeedTypes, sources, Command, Alert, Time
<1>. QED
  BY <1>4, <1>5

LEMMA EnterTyped ==
    ASSUME FeedTypes, HolderPulls, NEW c \in Callers, EnterForecast(c) \/ EnterAlert(c)
    PROVE  FeedTypes' /\ HolderPulls'
<1>. DEFINE f == IF EnterForecast(c) THEN "forecast" ELSE "alert"
<1>1. /\ f \in Feeds /\ lock[f] = None
      /\ lock' = [lock EXCEPT ![f] = c] /\ pc' = [pc EXCEPT ![c] = PullOf[f]]
      /\ pc[c] = f
      /\ UNCHANGED <<clock, sources, caches, now, official>>
  BY DEF EnterForecast, EnterAlert, Feeds, PullOf
<1>2. PullOf[f] \in Places /\ \A g \in Feeds : PullOf[g] # f
  BY <1>1 DEF Feeds, PullOf, Places
<1>. HIDE DEF f
<1>3. FeedTypes'
  BY <1>1, <1>2 DEF FeedTypes, sources, caches, Command, Alert, Time
<1>4. HolderPulls'
  <2>. SUFFICES ASSUME NEW g \in Feeds PROVE (lock[g] = None \/ pc[lock[g]] = PullOf[g])'
    BY DEF HolderPulls
  <2>1. CASE g = f
    BY <1>1, <2>1 DEF FeedTypes, PullOf
  <2>2. CASE g # f
    <3>1. lock'[g] = lock[g] /\ lock[g] \in Callers \cup {None}
      BY <1>1, <2>2 DEF FeedTypes
    <3>2. lock[g] = None \/ pc[lock[g]] = PullOf[g]
      BY DEF HolderPulls
    <3>3. lock[g] = None \/ lock[g] # c
      BY <1>1, <1>2, <3>2
    <3>4. lock[g] = None \/ pc'[lock[g]] = pc[lock[g]]
      BY <1>1, <3>1, <3>3 DEF FeedTypes
    <3>. QED
      BY <3>1, <3>2, <3>4 DEF PullOf
  <2>. QED
    BY <2>1, <2>2
<1>. QED
  BY <1>3, <1>4

LEMMA LeaveKeepsHolders ==
    ASSUME FeedTypes, HolderPulls, NEW c \in Callers, NEW f \in Feeds,
           pc[c] = PullOf[f], lock' = [lock EXCEPT ![f] = None],
           \A d \in Callers : d # c => pc'[d] = pc[d]
    PROVE  HolderPulls'
<1>. SUFFICES ASSUME NEW g \in Feeds PROVE (lock[g] = None \/ pc[lock[g]] = PullOf[g])'
  BY DEF HolderPulls
<1>1. CASE g = f
  BY <1>1 DEF FeedTypes
<1>2. CASE g # f
  <2>1. lock'[g] = lock[g] /\ lock[g] \in Callers \cup {None}
    BY <1>2 DEF FeedTypes
  <2>2. lock[g] = None \/ pc[lock[g]] = PullOf[g]
    BY DEF HolderPulls
  <2>3. PullOf[g] # PullOf[f]
    BY <1>2 DEF Feeds, PullOf
  <2>. QED
    BY <2>1, <2>2, <2>3 DEF PullOf
<1>. QED
  BY <1>1, <1>2

LEMMA PullTyped ==
    ASSUME FeedTypes, HolderPulls, NEW c \in Callers, PullForecast(c) \/ PullAlert(c)
    PROVE  FeedTypes' /\ HolderPulls'
<1>1. CASE PullForecast(c)
  <2>1. /\ pc[c] = "forecastPull" /\ lock' = [lock EXCEPT !["forecast"] = None]
        /\ pc' = [pc EXCEPT ![c] = "forecastRead"]
        /\ UNCHANGED <<clock, sources, kw, now, official>>
    BY <1>1 DEF PullForecast, LeaveForecast
  <2>2. \E rows \in Seq(Command) : ff' = [at |-> now[c], rows |-> rows]
    <3>1. AnswerForecast(c)
      BY <1>1 DEF PullForecast
    <3>2. ff.rows \in Seq(Command)
      BY DEF FeedTypes
    <3>. QED
      BY <3>1, <3>2, ForecastRowsTyped DEF AnswerForecast
  <2>3. ff'.at \in Time \cup {None} /\ ff'.rows \in Seq(Command)
    BY <2>2 DEF FeedTypes
  <2>4. FeedTypes'
    BY <2>1, <2>3 DEF FeedTypes, sources, Command, Alert, Time, Places, Feeds
  <2>5. "forecast" \in Feeds /\ PullOf["forecast"] = "forecastPull"
    BY DEF Feeds, PullOf
  <2>6. \A d \in Callers : d # c => pc'[d] = pc[d]
    BY <2>1 DEF FeedTypes
  <2>. QED
    BY <2>1, <2>4, <2>5, <2>6, LeaveKeepsHolders
<1>2. CASE PullAlert(c)
  <2>1. /\ pc[c] = "alertPull" /\ lock' = [lock EXCEPT !["alert"] = None]
        /\ pc' = [pc EXCEPT ![c] = "judge"]
        /\ UNCHANGED <<clock, sources, ff, now, official>>
    BY <1>2 DEF PullAlert, HaveAlert
  <2>2. kw'.at = now[c] /\ kw'.ok \in BOOLEAN
    <3>1. \/ kw' = [at |-> now[c], ok |-> TRUE, active |-> One(AlertRows(c))]
          \/ kw' = [at |-> now[c], ok |-> FALSE, active |-> None]
      BY <1>2 DEF PullAlert
    <3>2. \A a : kw' = [at |-> now[c], ok |-> TRUE, active |-> a] => kw'.at = now[c] /\ kw'.ok = TRUE
      OBVIOUS
    <3>3. kw' = [at |-> now[c], ok |-> FALSE, active |-> None] => kw'.at = now[c] /\ kw'.ok = FALSE
      OBVIOUS
    <3>. QED
      BY <3>1, <3>2, <3>3
  <2>3. kw'.at \in Time \cup {None}
    BY <2>2 DEF FeedTypes
  <2>4. FeedTypes'
    BY <2>1, <2>2, <2>3 DEF FeedTypes, sources, Command, Alert, Time, Places, Feeds
  <2>5. "alert" \in Feeds /\ PullOf["alert"] = "alertPull"
    BY DEF Feeds, PullOf
  <2>6. \A d \in Callers : d # c => pc'[d] = pc[d]
    BY <2>1 DEF FeedTypes
  <2>. QED
    BY <2>1, <2>4, <2>5, <2>6, LeaveKeepsHolders
<1>. QED
  BY <1>1, <1>2

LEMMA SourcesTyped ==
    ASSUME FeedTypes, HolderPulls, SourceStep \/ Tick
    PROVE  FeedTypes' /\ HolderPulls'
<1>1. UNCHANGED <<keys, ff, kw, lock, pc, now, official>>
  BY DEF SourceStep, Issue, Announce, Tick, caches, calls, sources
<1>2. clock' \in Time
  <2>1. CASE Tick
    <3>1. clock' = clock + 1 /\ clock < MaxClock
      BY <2>1 DEF Tick
    <3>. QED
      BY <3>1, TimeIsNat DEF FeedTypes, Time
  <2>2. CASE SourceStep
    BY <2>2 DEF SourceStep, Issue, Announce, FeedTypes
  <2>. QED
    BY <2>1, <2>2
<1>3. commands' \in Seq(Command) /\ alerts' \in Seq(Alert)
  <2>1. CASE Tick
    BY <2>1 DEF Tick, sources, FeedTypes
  <2>2. CASE SourceStep
    <3>1. PICK level \in Levels \cup {None} :
             Issue(level) \/ \E from \in {clock, clock + 1} : Announce(level, from)
      BY <2>2 DEF SourceStep
    <3>2. CASE Issue(level)
      <4>1. [at |-> clock, level |-> level] \in Command
        BY DEF Command, FeedTypes
      <4>. QED
        BY <3>2, <4>1 DEF Issue, FeedTypes
    <3>3. ASSUME NEW from \in {clock, clock + 1}, Announce(level, from)
          PROVE  commands' \in Seq(Command) /\ alerts' \in Seq(Alert)
      <4>1. from \in Nat
        BY TimeIsNat DEF FeedTypes
      <4>2. [at |-> clock, from |-> from, level |-> level] \in Alert
        BY <4>1 DEF Alert, FeedTypes
      <4>. QED
        BY <3>3, <4>2 DEF Announce, FeedTypes
    <3>. QED
      BY <3>1, <3>2, <3>3
  <2>. QED
    BY <2>1, <2>2
<1>4. FeedTypes'
  BY <1>1, <1>2, <1>3 DEF FeedTypes, Command, Alert, Time
<1>. QED
  BY <1>1, <1>4 DEF HolderPulls, PullOf

LEMMA FeedStepTyped ==
    ASSUME FeedTypes, HolderPulls, FeedStep
    PROVE  FeedTypes' /\ HolderPulls'
  BY ForecastCallTyped, AlertCallTyped, EnterTyped, PullTyped, SourcesTyped DEF FeedStep, CallStep

LEMMA RestartTyped ==
    ASSUME FeedTypes, Restart
    PROVE  FeedTypes' /\ HolderPulls'
<1>1. /\ ff' = [at |-> None, rows |-> <<>>] /\ kw' = [at |-> None, ok |-> FALSE, active |-> None]
      /\ lock' = [f \in Feeds |-> None]
      /\ pc' = [c \in Callers |-> "idle"] /\ now' = [c \in Callers |-> 0]
      /\ official' = [c \in Callers |-> None]
      /\ UNCHANGED <<clock, sources>>
  BY DEF Restart
<1>2. ff'.at \in Time \cup {None} /\ ff'.rows \in Seq(Command) /\ kw'.at \in Time \cup {None} /\ kw'.ok \in BOOLEAN
  BY <1>1
<1>. QED
  BY <1>1, <1>2, TimeIsNat DEF FeedTypes, HolderPulls, sources, Command, Alert, Time, Places

-----------------------------------------------------------------------------
(* What the recorder writes is a snapshot: the levels are levels.           *)
LEMMA MaxOfThree ==
    ASSUME NEW n \in Nat, NEW a \in 0 .. n, NEW b \in 0 .. n, NEW d \in 0 .. n
    PROVE  Max({a, b, d}) \in 0 .. n
<1>1. \E x \in {a, b, d} : \A y \in {a, b, d} : x >= y
  <2>1. CASE a >= b /\ a >= d
    BY <2>1
  <2>2. CASE b >= a /\ b >= d
    BY <2>2
  <2>3. CASE d >= a /\ d >= b
    BY <2>3
  <2>. QED
    BY <2>1, <2>2, <2>3
<1>2. Max({a, b, d}) \in {a, b, d}
  BY <1>1 DEF Max
<1>. QED
  BY <1>2

LEMMA LevelsAreLevels == ASSUME NEW f, NEW in PROVE RiskLevel(f, in) \in 0 .. 4
<1>1. PluvialLevel(in.rain) \in 0 .. 4
  BY DEF PluvialLevel
<1>2. \A s : StageLevel(s) \in 0 .. 4
  BY DEF StageLevel
<1>3. \A w : Floor(w) \in 0 .. 4
  BY DEF Floor
<1>4. ObservedLevel(f, in) \in 0 .. 4
  BY <1>1, <1>2 DEF ObservedLevel
<1>. QED
  BY <1>3, <1>4, MaxOfThree DEF RiskLevel

LEMMA LineIsSnapshot ==
    ASSUME NEW c, NEW r, at[c] \in Int
    PROVE  LineOf(c, r) \in Snapshot
<1>. DEFINE level == [f \in Recorded |-> FacilityRow(f, InputsOf(c, r)).level]
            shown == [f \in Recorded |-> FacilityRow(f, InputsOf(c, r)).issued # NoData
                                         /\ FacilityRow(f, InputsOf(c, r)).level >= 1]
<1>1. \A f \in Recorded : FacilityRow(f, InputsOf(c, r)).level \in 0 .. 4
  BY LevelsAreLevels DEF FacilityRow
<1>2. level \in [Recorded -> 0 .. 4]
  BY <1>1
<1>3. shown \in [Recorded -> BOOLEAN]
  BY Zenon
<1>4. LineOf(c, r) = [at |-> at[c], level |-> level, official |-> shown]
  BY DEF LineOf
<1>. HIDE DEF level, shown
<1>. QED
  BY <1>2, <1>3, <1>4 DEF Snapshot

RecordTypes ==
    /\ at \in [Callers -> Time]
    /\ lines \in Seq(Snapshot \cup {Torn}) /\ openEnd \in BOOLEAN
    /\ snap \in Snapshot \cup {None} /\ wakeAt \in Nat \cup {None}
    /\ restarts \in 0 .. MaxRestarts /\ requests \in 0 .. MaxRequests
    /\ skipped \in 0 .. 2 /\ missed \in Seq(0 .. 2)

TypesInv == FeedTypes /\ HolderPulls /\ RecordTypes

LEMMA TypesAreTypes == TypesInv <=> BoardTypeOK
  BY DEF TypesInv, FeedTypes, HolderPulls, RecordTypes, BoardTypeOK, Command, Alert

LEMMA MoreTyped == RecordTypes => More \in 0 .. 2
  BY DEF RecordTypes, More

LEMMA AppendTyped ==
    ASSUME RecordTypes, snap # None, AppendLine(snap)
    PROVE  lines' \in Seq(Snapshot \cup {Torn}) /\ openEnd' \in BOOLEAN
<1>. DEFINE L == Snapshot \cup {Torn}
<1>1. snap \in L /\ lines \in Seq(L)
  BY DEF RecordTypes
<1>2. lines' = lines \/ lines' = Append(lines, snap)
  BY DEF AppendLine
<1>3. openEnd' \in BOOLEAN
  BY DEF AppendLine
<1>. HIDE DEF L
<1>4. lines' \in Seq(L)
  BY <1>1, <1>2
<1>. QED
  BY <1>3, <1>4 DEF L

LEMMA AssessTyped ==
    ASSUME TypesInv, NEW c \in Callers, Assess(c)
    PROVE  TypesInv'
<1>1. FeedTypes' /\ HolderPulls'
  BY FeedStepTyped DEF TypesInv, FeedStep, CallStep, Assess
<1>2. at' \in [Callers -> Time] /\ wakeAt' \in Nat \cup {None}
  BY TimeIsNat DEF Assess, TypesInv, RecordTypes, FeedTypes
<1>3. requests' \in 0 .. MaxRequests
  BY BoardAssumption DEF Assess, TypesInv, RecordTypes, BoardAssumption
<1>4. UNCHANGED <<lines, openEnd, snap, restarts, skipped, missed>>
  BY DEF Assess, logVars
<1>. QED
  BY <1>1, <1>2, <1>3, <1>4 DEF TypesInv, RecordTypes, Snapshot, Time

LEMMA JudgeTyped ==
    ASSUME TypesInv, NEW c \in Callers, Judge(c)
    PROVE  TypesInv'
<1>1. FeedTypes' /\ HolderPulls'
  BY FeedStepTyped DEF TypesInv, FeedStep, Judge
<1>2. at' \in [Callers -> Time]
  BY TimeIsNat DEF Judge, TypesInv, RecordTypes
<1>3. snap' \in Snapshot \cup {None}
  <2>1. CASE snap' = snap
    BY <2>1 DEF TypesInv, RecordTypes
  <2>2. CASE \E r \in Readings : snap' = LineOf(c, r)
    BY <2>2, LineIsSnapshot, TimeIsNat DEF TypesInv, RecordTypes
  <2>. QED
    BY <2>1, <2>2 DEF Judge
<1>4. UNCHANGED <<lines, openEnd, wakeAt, restarts, requests, skipped, missed>>
  BY DEF Judge, logVars
<1>. QED
  BY <1>1, <1>2, <1>3, <1>4 DEF TypesInv, RecordTypes, Snapshot, Time

LEMMA RecordTyped ==
    ASSUME TypesInv, Record
    PROVE  TypesInv'
<1>1. UNCHANGED <<feedVars, at, restarts, requests>> /\ snap # None /\ AppendLine(snap)
  BY DEF Record, Write
<1>2. FeedTypes' /\ HolderPulls'
  BY <1>1 DEF TypesInv, FeedTypes, HolderPulls, feedVars, sources, caches, calls, Command, Alert, Time, PullOf
<1>3. lines' \in Seq(Snapshot \cup {Torn}) /\ openEnd' \in BOOLEAN
  BY <1>1, AppendTyped DEF TypesInv
<1>4. wakeAt' \in Nat
  BY Constants, TimeIsNat DEF Record, TypesInv, FeedTypes
<1>5. missed' \in Seq(0 .. 2)
  BY DEF Record, Write, TypesInv, RecordTypes
<1>6. snap' = None /\ skipped' = 0
  BY DEF Record, Write
<1>. QED
  BY <1>1, <1>2, <1>3, <1>4, <1>5, <1>6 DEF TypesInv, RecordTypes, Snapshot, Time

LEMMA FailTyped ==
    ASSUME TypesInv, SnapshotFails
    PROVE  TypesInv'
<1>1. FeedTypes' /\ HolderPulls'
  <2>1. CASE Judged(Recorder)
    BY <2>1, FeedStepTyped, BoardAssumption DEF TypesInv, FeedStep, BoardAssumption
  <2>2. CASE UNCHANGED feedVars
    BY <2>2 DEF TypesInv, FeedTypes, HolderPulls, feedVars, sources, caches, calls, Command, Alert, Time, PullOf
  <2>. QED
    BY <2>1, <2>2 DEF SnapshotFails, Fail
<1>2. at' \in [Callers -> Time]
  BY TimeIsNat DEF SnapshotFails, Fail, TypesInv, RecordTypes
<1>3. wakeAt' \in Nat
  <2>1. clock' = clock
    BY DEF SnapshotFails, Fail, Judged, feedVars
  <2>. QED
    BY Constants, TimeIsNat DEF SnapshotFails, TypesInv, FeedTypes
<1>4. snap' = None /\ skipped' \in 0 .. 2 /\ UNCHANGED <<lines, openEnd, restarts, requests, missed>>
  BY MoreTyped DEF SnapshotFails, Fail, TypesInv, logVars
<1>. QED
  BY <1>1, <1>2, <1>3, <1>4 DEF TypesInv, RecordTypes, Snapshot, Time

LEMMA RestartBoardTyped ==
    ASSUME TypesInv, Restart
    PROVE  TypesInv'
<1>1. FeedTypes' /\ HolderPulls'
  BY RestartTyped DEF TypesInv
<1>2. /\ at' = [c \in Callers |-> 0] /\ snap' = None /\ skipped' = More
      /\ restarts < MaxRestarts /\ restarts' = restarts + 1 /\ UNCHANGED <<clock, requests>>
      /\ wakeAt' = IF On THEN clock + FirstSleep ELSE None
  BY DEF Restart
<1>3. lines' \in Seq(Snapshot \cup {Torn}) /\ openEnd' \in BOOLEAN /\ missed' \in Seq(0 .. 2)
  <2>1. CASE UNCHANGED <<logVars, missed>>
    BY <2>1 DEF TypesInv, RecordTypes, logVars, Snapshot
  <2>2. CASE snap # None /\ AppendLine(snap) /\ missed' = Append(missed, skipped)
    BY <2>2, AppendTyped DEF TypesInv, RecordTypes
  <2>3. CASE TearLine /\ missed' = Append(missed, skipped)
    BY <2>3 DEF TypesInv, RecordTypes, TearLine
  <2>. QED
    BY <2>1, <2>2, <2>3 DEF Restart
<1>4. at' \in [Callers -> Time] /\ skipped' \in 0 .. 2
  BY <1>2, MoreTyped, TimeIsNat DEF TypesInv
<1>5. wakeAt' \in Nat \cup {None}
  BY <1>2, Constants, TimeIsNat DEF TypesInv, FeedTypes
<1>6. restarts' \in 0 .. MaxRestarts
  BY <1>2, BoardAssumption DEF TypesInv, RecordTypes, BoardAssumption
<1>. QED
  BY <1>1, <1>2, <1>3, <1>4, <1>5, <1>6 DEF TypesInv, RecordTypes, Snapshot, Time

LEMMA StepTyped ==
    ASSUME TypesInv, [BoardNext]_boardVars
    PROVE  TypesInv'
<1>1. ASSUME UNCHANGED <<logVars, at, recorder>>, FeedTypes', HolderPulls' PROVE TypesInv'
  BY <1>1 DEF TypesInv, RecordTypes, logVars, recorder, Snapshot, Time
<1>2. CASE \E c \in Callers : Assess(c) \/ Judge(c)
  BY <1>2, AssessTyped, JudgeTyped
<1>3. CASE \E c \in Callers : AskFeeds(c)
  BY <1>3, <1>1, FeedStepTyped DEF TypesInv, FeedStep, AskFeeds
<1>4. CASE RecordNothing
  <2>1. UNCHANGED <<feedVars, logVars, at, snap, restarts, requests, skipped, missed>> /\ wakeAt' = clock + Interval
    BY <1>4 DEF RecordNothing
  <2>2. FeedTypes' /\ HolderPulls'
    BY <2>1 DEF TypesInv, FeedTypes, HolderPulls, feedVars, sources, caches, calls, Command, Alert, Time, PullOf
  <2>3. wakeAt' \in Nat
    BY <2>1, Constants, TimeIsNat DEF TypesInv, FeedTypes
  <2>. QED
    BY <2>1, <2>2, <2>3 DEF TypesInv, RecordTypes, logVars, Snapshot, Time
<1>5. CASE BoardTick \/ (SourceStep /\ UNCHANGED <<logVars, at, recorder>>)
  BY <1>5, <1>1, SourcesTyped DEF TypesInv, BoardTick
<1>6. CASE UNCHANGED boardVars
  <2>1. FeedTypes' /\ HolderPulls'
    BY <1>6 DEF TypesInv, FeedTypes, HolderPulls, boardVars, feedVars, sources, caches, calls, Command, Alert, Time, PullOf
  <2>. QED
    BY <1>6, <1>1, <2>1 DEF boardVars
<1>7. CASE Record \/ SnapshotFails \/ Restart
  BY <1>7, RecordTyped, FailTyped, RestartBoardTyped
<1>8. CASE BoardNext
  <2>1. \/ \E c \in Callers : Assess(c) \/ Judge(c)
        \/ \E c \in Callers : AskFeeds(c)
        \/ RecordNothing
        \/ BoardTick \/ (SourceStep /\ UNCHANGED <<logVars, at, recorder>>)
        \/ Record \/ SnapshotFails \/ Restart
    BY <1>8, Zenon DEF BoardNext
  <2>. QED
    BY <2>1, <1>2, <1>3, <1>4, <1>5, <1>7
<1>. QED
  BY <1>6, <1>8

LEMMA StartTyped == BoardInit => TypesInv
<1>. SUFFICES ASSUME BoardInit PROVE TypesInv
  OBVIOUS
<1>1. FeedsInit /\ LogInit
  BY DEF BoardInit
<1>2. FeedTypes /\ HolderPulls
  <2>1. ff.at = None /\ ff.rows = <<>> /\ kw.at = None /\ kw.ok = FALSE
    BY <1>1 DEF FeedsInit
  <2>2. <<>> \in Seq(Command) /\ <<>> \in Seq(Alert)
    OBVIOUS
  <2>. QED
    BY <1>1, <2>1, <2>2, TimeIsNat DEF FeedsInit, FeedTypes, HolderPulls, Places
<1>3. RecordTypes
  <2>1. lines = <<>> /\ openEnd = FALSE /\ <<>> \in Seq(Snapshot \cup {Torn}) /\ <<>> \in Seq(0 .. 2)
    BY <1>1 DEF LogInit
  <2>2. wakeAt \in Nat \cup {None}
    BY Constants DEF BoardInit
  <2>3. 0 \in 0 .. MaxRestarts /\ 0 \in 0 .. MaxRequests
    BY BoardAssumption DEF BoardAssumption
  <2>4. at \in [Callers -> Time]
    BY TimeIsNat DEF BoardInit
  <2>5. /\ lines \in Seq(Snapshot \cup {Torn}) /\ openEnd \in BOOLEAN
        /\ snap \in Snapshot \cup {None} /\ missed \in Seq(0 .. 2)
    BY <2>1 DEF BoardInit
  <2>6. restarts \in 0 .. MaxRestarts /\ requests \in 0 .. MaxRequests /\ skipped \in 0 .. 2
    BY <2>3 DEF BoardInit
  <2>. QED
    BY <2>2, <2>4, <2>5, <2>6 DEF RecordTypes
<1>. QED
  BY <1>2, <1>3 DEF TypesInv

(* The board's state has its types at every moment of every interleaving,   *)
(* and whoever holds a feed's lock is the caller that pulls that feed: no   *)
(* answer, error or restart leaves a lock behind.                           *)
THEOREM BoardTypeOKHolds == BoardSpec => []BoardTypeOK
<1>1. TypesInv /\ [BoardNext]_boardVars => TypesInv'
  BY StepTyped
<1>2. TypesInv => BoardTypeOK
  BY TypesAreTypes
<1>. QED
  BY <1>1, <1>2, StartTyped, PTL DEF BoardSpec

-----------------------------------------------------------------------------
(* Why the board shows another warning than the one in force.               *)

LEMMA LastStays ==
    ASSUME NEW S, NEW s \in Seq(S), NEW T, s # <<>>, Last(s) \in T
    PROVE  Sieve(s, T) # <<>> /\ Last(Sieve(s, T)) = Last(s)
  BY SieveKeepsLast DEF Last

LEMMA LastIsOne ==
    ASSUME NEW S, NEW s \in Seq(S), s # <<>>
    PROVE  Last(s) \in ToSet(s) /\ \E i \in DOMAIN s : s[i] = Last(s)
<1>1. Len(s) \in DOMAIN s
  OBVIOUS
<1>. QED
  BY <1>1 DEF Last, ToSet

LEMMA NothingOfNothing ==
    ASSUME NEW S, NEW s \in Seq(S), s = <<>>, NEW T
    PROVE  Sieve(s, T) = <<>>
<1>1. Sieve(s, T) \in Seq(S) /\ Len(Sieve(s, T)) <= Len(s)
  BY SieveKeeps
<1>. DEFINE q == Sieve(s, T)
<1>. HIDE DEF q
<1>2. q = <<>>
  BY <1>1 DEF q
<1>. QED
  BY <1>2 DEF q

(* What is in force by rows that lie in the past is their last row.         *)
LEMMA ActiveIsTheLast ==
    ASSUME NEW rows \in Seq(Command), rows # <<>>, NEW t, Last(rows).at <= t
    PROVE  Active(rows, t) = IF t - Last(rows).at > ActiveFor THEN None ELSE Last(rows).level
<1>. DEFINE T == {r \in ToSet(rows) : r.at <= t}
<1>1. Last(rows) \in T
  BY LastIsOne
<1>. HIDE DEF T
<1>2. Sieve(rows, T) # <<>> /\ Last(Sieve(rows, T)) = Last(rows)
  BY <1>1, LastStays
<1>3. Until(rows, t) = Sieve(rows, T)
  BY DEF Until, T
<1>. QED
  BY <1>2, <1>3 DEF Active

Hearing == [listed : Time \cup {None}, wiped : BOOLEAN, failed : BOOLEAN]

Past ==
    /\ \A i \in DOMAIN commands : commands[i].at <= clock
    /\ \A i \in DOMAIN ff.rows : ff.rows[i].at <= clock
    /\ \A c \in Callers : now[c] <= clock
    /\ kw.ok => kw.at # None /\ kw.at <= clock

(* Without its key the forecasts are never read.                            *)
Keyless ==
    "HRFCO" \notin keys =>
        since.forecast.listed = None /\ \A c \in Callers : pc[c] # "forecastPull"

(* A list that was read after the last command, and early enough to carry   *)
(* it, ends with it for as long as the rows are not wiped.                  *)
ListCarries(h) ==
    commands # <<>> /\ h.listed # None /\ h.listed - Last(commands).at < Listed /\ h.wiped = FALSE =>
        ff.rows # <<>> /\ Last(ff.rows) = Last(commands)

(* The alerts of a list that came after the zone's last command are that    *)
(* command, if it was in effect when the pull began.                        *)
InEffect(t) ==
    IF alerts = <<>> THEN None
    ELSE IF Last(alerts).level = None \/ Last(alerts).from > t THEN None ELSE Last(alerts)
AlertCarries == kw.ok /\ since.alertRead = TRUE => kw.active = InEffect(kw.at)

ExplainInv ==
    /\ since \in [forecast : Hearing, alertRead : BOOLEAN]
    /\ Past /\ Keyless /\ ListCarries(since.forecast) /\ AlertCarries

LEMMA ForecastExplained == FeedTypes /\ ExplainInv => ForecastMissExplained
<1>. SUFFICES ASSUME FeedTypes, ExplainInv, commands # <<>>,
                     Active(ff.rows, clock) # Active(commands, clock),
                     since.forecast.listed # None,
                     ~(since.forecast.listed - Last(commands).at >= Listed),
                     ~since.forecast.wiped
              PROVE  FALSE
  BY DEF ForecastMissExplained
<1>1. commands \in Seq(Command) /\ ff.rows \in Seq(Command) /\ clock \in Int
  BY TimeIsNat DEF FeedTypes
<1>2. Last(commands).at \in Int /\ since.forecast.listed \in Int
  <2>1. Last(commands) \in Command
    BY <1>1, LastIsDrawn
  <2>2. since.forecast.listed \in Time \cup {None}
    BY DEF ExplainInv, Hearing
  <2>. QED
    BY <2>1, <2>2, TimeIsNat DEF Command
<1>3. Listed \in Int
  BY FeedsAssumption DEF FeedsAssumption
<1>4. since.forecast.wiped = FALSE
  <2>1. since.forecast.wiped \in BOOLEAN
    BY DEF ExplainInv, Hearing
  <2>. QED
    BY <2>1, Zenon
<1>5. ff.rows # <<>> /\ Last(ff.rows) = Last(commands)
  BY <1>2, <1>3, <1>4 DEF ExplainInv, ListCarries
<1>6. Last(commands).at <= clock
  BY <1>1, LastIsOne DEF ExplainInv, Past
<1>. QED
  BY <1>1, <1>5, <1>6, ActiveIsTheLast

LEMMA AlertExplained == FeedTypes /\ ExplainInv => AlertMissExplained
<1>. SUFFICES ASSUME FeedTypes, ExplainInv, kw.ok, kw.active # AlertAt(clock), since.alertRead
              PROVE  Last(alerts).from > kw.at /\ kw.active = None
  BY DEF AlertMissExplained
<1>. DEFINE T == {a \in ToSet(alerts) : a.from <= clock}
            due == Sieve(alerts, T)
<1>1. alerts \in Seq(Alert) /\ clock \in Int /\ kw.at \in Int /\ kw.at <= clock
  BY TimeIsNat DEF FeedTypes, ExplainInv, Past
<1>2. since.alertRead = TRUE
  <2>1. since.alertRead \in BOOLEAN
    BY DEF ExplainInv
  <2>. QED
    BY <2>1, Zenon
<1>3. kw.active = InEffect(kw.at)
  BY <1>2 DEF ExplainInv, AlertCarries
<1>4. AlertAt(clock) = IF due = <<>> \/ Last(due).level = None THEN None ELSE Last(due)
  BY DEF AlertAt
<1>5. CASE alerts = <<>>
  <2>. HIDE DEF T
  <2>1. due = <<>>
    BY <1>1, <1>5, NothingOfNothing
  <2>. QED
    BY <1>3, <1>4, <1>5, <2>1 DEF InEffect
<1>6. CASE alerts # <<>>
  <2>1. Last(alerts) \in Alert /\ Last(alerts) \in ToSet(alerts)
    BY <1>1, <1>6, LastIsDrawn, LastIsOne
  <2>2. Last(alerts).from \in Int
    BY <2>1 DEF Alert
  <2>3. CASE Last(alerts).from <= clock
    <3>1. Last(alerts) \in T
      BY <2>1, <2>3
    <3>. HIDE DEF T
    <3>2. due # <<>> /\ Last(due) = Last(alerts)
      BY <1>1, <1>6, <3>1, LastStays
    <3>3. AlertAt(clock) = IF Last(alerts).level = None THEN None ELSE Last(alerts)
      BY <1>4, <3>2
    <3>4. ~(Last(alerts).from > kw.at) => kw.active = AlertAt(clock)
      BY <1>3, <1>6, <3>3 DEF InEffect
    <3>. QED
      BY <1>1, <1>3, <1>6, <2>2, <3>4 DEF InEffect
  <2>4. CASE ~(Last(alerts).from <= clock)
    BY <1>1, <1>3, <1>6, <2>2, <2>4 DEF InEffect
  <2>. QED
    BY <2>3, <2>4
<1>. QED
  BY <1>5, <1>6

LEMMA QuietExplains ==
    ASSUME ExplainInv, UNCHANGED <<clock, sources, ff, kw, since>>,
           \A c \in Callers : now'[c] <= clock,
           "HRFCO" \notin keys => \A c \in Callers : pc'[c] # "forecastPull"
    PROVE  ExplainInv'
<1>1. Past' /\ Keyless'
  BY DEF ExplainInv, Past, Keyless, sources
<1>2. ListCarries(since.forecast)' /\ AlertCarries'
  BY DEF ExplainInv, ListCarries, AlertCarries, InEffect, sources
<1>. QED
  BY <1>1, <1>2 DEF ExplainInv, Hearing, Time

(* The steps of a call that leave both feeds alone.                         *)
LEMMA CallExplains ==
    ASSUME FeedTypes, ExplainInv, NEW c \in Callers,
           \/ AskForecast(c) \/ ForecastCached(c) \/ ReadForecast(c) \/ EnterForecast(c)
           \/ AlertCached(c) \/ EnterAlert(c) \/ Judged(c)
    PROVE  ExplainInv'
<1>1. UNCHANGED <<clock, sources, ff, kw, since>>
  BY DEF AskForecast, ForecastCached, ReadForecast, EnterForecast, AlertCached, EnterAlert,
         Judged, caches
<1>2. clock \in Nat /\ 0 <= clock
  BY TimeIsNat DEF FeedTypes
<1>3. now' = now \/ now' = [now EXCEPT ![c] = clock] \/ now' = [now EXCEPT ![c] = 0]
  BY DEF AskForecast, ForecastCached, ReadForecast, EnterForecast, AlertCached, EnterAlert,
         Judged, HaveForecast
<1>4. \A d \in Callers : now'[d] <= clock
  BY <1>2, <1>3 DEF FeedTypes, ExplainInv, Past
<1>5. "HRFCO" \notin keys => \A d \in Callers : pc'[d] # "forecastPull"
  <2>. SUFFICES ASSUME "HRFCO" \notin keys PROVE \A d \in Callers : pc'[d] # "forecastPull"
    OBVIOUS
  <2>1. \A d \in Callers : pc[d] # "forecastPull"
    BY DEF ExplainInv, Keyless
  <2>2. \E p \in Places \ {"forecastPull"} : pc' = [pc EXCEPT ![c] = p]
    BY DEF AskForecast, ForecastCached, ReadForecast, EnterForecast, AlertCached, EnterAlert,
           Judged, HaveForecast, HaveAlert, Places
  <2>. QED
    BY <2>1, <2>2 DEF FeedTypes
<1>. QED
  BY <1>1, <1>4, <1>5, QuietExplains

LEMMA ListEndsWithTheLast ==
    ASSUME FeedTypes, commands # <<>>, clock - Last(commands).at < Listed
    PROVE  ForecastList # <<>> /\ Last(ForecastList) = Last(commands)
<1>. DEFINE T == {r \in ToSet(commands) : clock - r.at < Listed}
<1>1. commands \in Seq(Command) /\ Last(commands) \in T
  BY LastIsOne DEF FeedTypes
<1>2. ForecastList = Sieve(commands, T)
  BY DEF ForecastList
<1>. HIDE DEF T
<1>. QED
  BY <1>1, <1>2, LastStays

LEMMA ListIsPast ==
    ASSUME FeedTypes, ExplainInv, NEW i \in DOMAIN ForecastList
    PROVE  ForecastList[i].at <= clock
<1>. DEFINE T == {r \in ToSet(commands) : clock - r.at < Listed}
<1>1. ForecastList = Sieve(commands, T) /\ commands \in Seq(Command)
  BY DEF ForecastList, FeedTypes
<1>. HIDE DEF T
<1>2. i \in DOMAIN Sieve(commands, T)
  BY <1>1
<1>3. \E j \in DOMAIN commands : commands[j] = Sieve(commands, T)[i]
  BY <1>1, <1>2, SieveDraws
<1>. QED
  BY <1>1, <1>3 DEF ExplainInv, Past

(* What a pull of the forecasts leaves behind, by how it went.              *)
LEMMA PullForecastExplains ==
    ASSUME FeedTypes, ExplainInv, NEW c \in Callers, PullForecast(c)
    PROVE  ExplainInv'
<1>. DEFINE h == since.forecast
            Told(l, w, f) == [listed |-> l, wiped |-> w, failed |-> f]
<1>1. /\ UNCHANGED <<clock, keys, commands, alerts, kw, now>>
      /\ pc[c] = "forecastPull" /\ pc' = [pc EXCEPT ![c] = "forecastRead"] /\ AnswerForecast(c)
  BY DEF PullForecast, LeaveForecast, sources
<1>2. h \in Hearing /\ since.alertRead \in BOOLEAN /\ clock \in Time
  BY DEF ExplainInv, FeedTypes
<1>3. PICK r, heard :
         /\ ff' = [at |-> now[c], rows |-> r]
         /\ since' = [forecast |-> heard, alertRead |-> since.alertRead]
         /\ heard \in Hearing
         /\ \/ commands = <<>>
            \/ r = ForecastList /\ heard.listed = clock
            \/ heard.wiped = TRUE
            \/ r = ff.rows /\ heard.listed = h.listed /\ heard.wiped = h.wiped
         /\ \A i \in DOMAIN r : r[i].at <= clock
  <2>1. /\ Told(clock, FALSE, h.failed) \in Hearing /\ Told(h.listed, TRUE, TRUE) \in Hearing
        /\ Told(h.listed, h.wiped, TRUE) \in Hearing /\ Unheard \in Hearing
    BY <1>2 DEF Hearing, Unheard
  <2>2. /\ Told(clock, FALSE, h.failed).listed = clock /\ Told(h.listed, TRUE, TRUE).wiped = TRUE
        /\ Told(h.listed, h.wiped, TRUE).listed = h.listed
        /\ Told(h.listed, h.wiped, TRUE).wiped = h.wiped
    OBVIOUS
  <2>. DEFINE To(told) == [forecast |-> IF commands = <<>> THEN Unheard ELSE told,
                           alertRead |-> since.alertRead]
  <2>3. \/ ff' = [at |-> now[c], rows |-> ForecastList] /\ since' = To(Told(clock, FALSE, h.failed))
        \/ ff' = [at |-> now[c], rows |-> <<>>] /\ since' = To(Told(h.listed, TRUE, TRUE))
        \/ ff' = [at |-> now[c], rows |-> ff.rows] /\ since' = To(Told(h.listed, h.wiped, TRUE))
    BY <1>1 DEF AnswerForecast, ForecastRows, Heard
  <2>4. /\ \A i \in DOMAIN ForecastList : ForecastList[i].at <= clock
        /\ \A i \in DOMAIN ff.rows : ff.rows[i].at <= clock
        /\ DOMAIN <<>> = {}
    BY ListIsPast DEF ExplainInv, Past
  <2>. HIDE DEF h, Told
  <2>5. CASE ff' = [at |-> now[c], rows |-> ForecastList] /\ since' = To(Told(clock, FALSE, h.failed))
    BY <2>1, <2>2, <2>4, <2>5
  <2>6. CASE ff' = [at |-> now[c], rows |-> <<>>] /\ since' = To(Told(h.listed, TRUE, TRUE))
    BY <2>1, <2>2, <2>4, <2>6
  <2>7. CASE ff' = [at |-> now[c], rows |-> ff.rows] /\ since' = To(Told(h.listed, h.wiped, TRUE))
    BY <2>1, <2>2, <2>4, <2>7
  <2>. QED
    BY <2>3, <2>5, <2>6, <2>7
<1>4. ff'.rows = r /\ since'.forecast = heard /\ since'.alertRead = since.alertRead
  BY <1>3
<1>5. Past'
  BY <1>1, <1>3, <1>4 DEF ExplainInv, Past
<1>6. Keyless'
  BY <1>1 DEF ExplainInv, Keyless
<1>7. AlertCarries'
  BY <1>1, <1>4 DEF ExplainInv, AlertCarries, InEffect
<1>8. ListCarries(since.forecast)'
  <2>. SUFFICES ASSUME commands # <<>>, heard.listed # None,
                       heard.listed - Last(commands).at < Listed, heard.wiped = FALSE
                PROVE  r # <<>> /\ Last(r) = Last(commands)
    BY <1>1, <1>4 DEF ListCarries
  <2>1. CASE r = ForecastList /\ heard.listed = clock
    BY <2>1, ListEndsWithTheLast
  <2>2. CASE r = ff.rows /\ heard.listed = h.listed /\ heard.wiped = h.wiped
    BY <2>2 DEF ExplainInv, ListCarries
  <2>. QED
    BY <1>3, <2>1, <2>2
<1>9. since' \in [forecast : Hearing, alertRead : BOOLEAN]
  BY <1>2, <1>3
<1>. QED
  BY <1>5, <1>6, <1>7, <1>8, <1>9 DEF ExplainInv, Hearing, Time

LEMMA ForecastKeylessExplains ==
    ASSUME FeedTypes, ExplainInv, NEW c \in Callers, ForecastWithoutKey(c)
    PROVE  ExplainInv'
<1>1. /\ UNCHANGED <<clock, keys, commands, alerts, kw, since>> /\ "HRFCO" \notin keys
      /\ ff' = [at |-> now[c], rows |-> <<>>]
      /\ pc' = [pc EXCEPT ![c] = "idle"] /\ now' = [now EXCEPT ![c] = 0]
  BY DEF ForecastWithoutKey, HaveForecast, sources
<1>2. since.forecast.listed = None /\ \A d \in Callers : pc[d] # "forecastPull"
  BY <1>1 DEF ExplainInv, Keyless
<1>3. Past'
  <2>1. ff'.rows = <<>> /\ DOMAIN <<>> = {}
    BY <1>1
  <2>2. 0 <= clock
    BY TimeIsNat DEF FeedTypes
  <2>. QED
    BY <1>1, <2>1, <2>2 DEF ExplainInv, Past, FeedTypes
<1>4. Keyless'
  BY <1>1, <1>2 DEF Keyless, FeedTypes
<1>5. ListCarries(since.forecast)' /\ AlertCarries'
  BY <1>1, <1>2 DEF ExplainInv, ListCarries, AlertCarries, InEffect
<1>. QED
  BY <1>1, <1>3, <1>4, <1>5 DEF ExplainInv, Hearing, Time

LEMMA AlertsInEffect ==
    ASSUME FeedTypes, NEW c \in Callers
    PROVE  One(AlertRows(c)) = InEffect(now[c])
<1>1. One({}) = None /\ \A a : One({a}) = a
  BY DEF One
<1>2. CASE alerts = <<>> \/ Last(alerts).level = None
  BY <1>1, <1>2 DEF AlertRows, AlertList, InEffect
<1>3. CASE ~(alerts = <<>> \/ Last(alerts).level = None)
  <2>1. AlertRows(c) = {a \in {Last(alerts)} : a.from <= now[c]}
    BY <1>3 DEF AlertRows, AlertList
  <2>2. Last(alerts).from \in Int /\ now[c] \in Int
    <3>1. Last(alerts) \in Alert
      BY <1>3, LastIsDrawn DEF FeedTypes
    <3>2. Last(alerts).from \in Nat
      BY <3>1 DEF Alert
    <3>3. now[c] \in Time
      BY DEF FeedTypes
    <3>4. now[c] \in Int
      BY <3>3, TimeIsNat, Zenon
    <3>5. \A n \in Nat : n \in Int
      OBVIOUS
    <3>. QED
      BY <3>2, <3>4, <3>5, Zenon
  <2>3. CASE Last(alerts).from <= now[c]
    <3>1. AlertRows(c) = {Last(alerts)}
      BY <2>1, <2>3
    <3>2. ~(Last(alerts).from > now[c])
      BY <2>2, <2>3
    <3>3. InEffect(now[c]) = Last(alerts)
      BY <1>3, <3>2 DEF InEffect
    <3>. QED
      BY <1>1, <3>1, <3>3
  <2>4. CASE ~(Last(alerts).from <= now[c])
    <3>1. AlertRows(c) = {}
      BY <2>1, <2>4
    <3>. QED
      BY <1>1, <1>3, <2>2, <2>4, <3>1 DEF InEffect
  <2>. QED
    BY <2>3, <2>4
<1>. QED
  BY <1>2, <1>3

LEMMA AlertFeedExplains ==
    ASSUME FeedTypes, ExplainInv, NEW c \in Callers, PullAlert(c) \/ AlertWithoutKey(c)
    PROVE  ExplainInv'
<1>1. /\ UNCHANGED <<clock, keys, commands, alerts, ff, now>>
      /\ pc' = [pc EXCEPT ![c] = "judge"]
  BY DEF PullAlert, AlertWithoutKey, HaveAlert, sources
<1>2. \/ /\ kw' = [at |-> now[c], ok |-> TRUE, active |-> One(AlertRows(c))]
         /\ since' = [since EXCEPT !.alertRead = TRUE]
      \/ kw' = [at |-> now[c], ok |-> FALSE, active |-> None] /\ since' = since
  BY DEF PullAlert, AlertWithoutKey
<1>3. since \in [forecast : Hearing, alertRead : BOOLEAN]
  BY DEF ExplainInv
<1>4. since' \in [forecast : Hearing, alertRead : BOOLEAN] /\ since'.forecast = since.forecast
  BY <1>2, <1>3
<1>5. now[c] # None /\ now[c] <= clock
  BY TimeIsNat, Constants DEF FeedTypes, ExplainInv, Past
<1>6. kw'.at = now[c]
  <2>. DEFINE a == One(AlertRows(c))
  <2>1. kw' = [at |-> now[c], ok |-> TRUE, active |-> a] \/ kw' = [at |-> now[c], ok |-> FALSE, active |-> None]
    BY <1>2
  <2>. HIDE DEF a
  <2>. QED
    BY <2>1
<1>7. Past' /\ Keyless'
  BY <1>1, <1>4, <1>5, <1>6 DEF ExplainInv, Past, Keyless, FeedTypes
<1>8. ListCarries(since.forecast)'
  BY <1>1, <1>4 DEF ExplainInv, ListCarries
<1>9. AlertCarries'
  <2>1. CASE kw' = [at |-> now[c], ok |-> TRUE, active |-> One(AlertRows(c))]
    <3>1. kw'.active = One(AlertRows(c)) /\ InEffect(kw.at)' = InEffect(now[c])
      BY <1>1, <1>6, <2>1 DEF InEffect
    <3>. QED
      BY <3>1, AlertsInEffect DEF AlertCarries
  <2>2. CASE kw' = [at |-> now[c], ok |-> FALSE, active |-> None]
    <3>1. kw'.ok = FALSE
      BY <2>2
    <3>. QED
      BY <3>1 DEF AlertCarries
  <2>. QED
    BY <1>2, <2>1, <2>2
<1>. QED
  BY <1>4, <1>7, <1>8, <1>9 DEF ExplainInv, Hearing, Time

LEMMA SourcesExplain ==
    ASSUME FeedTypes, ExplainInv, SourceStep
    PROVE  ExplainInv'
<1>1. PICK level \in Levels \cup {None} :
         Issue(level) \/ \E from \in {clock, clock + 1} : Announce(level, from)
  BY DEF SourceStep
<1>2. /\ UNCHANGED <<clock, keys, ff, kw, pc, now>>
      /\ since \in [forecast : Hearing, alertRead : BOOLEAN] /\ clock \in Int
  BY <1>1, TimeIsNat DEF Issue, Announce, calls, ExplainInv, FeedTypes
<1>3. CASE Issue(level)
  <2>1. /\ commands' = Append(commands, [at |-> clock, level |-> level]) /\ alerts' = alerts
        /\ since' = [since EXCEPT !.forecast = Unheard]
    BY <1>3 DEF Issue
  <2>2. /\ since' \in [forecast : Hearing, alertRead : BOOLEAN]
        /\ since'.forecast.listed = None /\ since'.alertRead = since.alertRead
    BY <1>2, <2>1 DEF Unheard, Hearing
  <2>3. \A i \in DOMAIN commands' : commands'[i].at <= clock
    <3>. DEFINE new == [at |-> clock, level |-> level]
    <3>1. commands \in Seq(Command) /\ new.at = clock
      BY DEF FeedTypes
    <3>. HIDE DEF new
    <3>2. \A i \in DOMAIN commands' : (i \in DOMAIN commands /\ commands'[i] = commands[i]) \/ commands'[i] = new
      BY <2>1, <3>1 DEF new
    <3>. QED
      BY <1>2, <3>1, <3>2 DEF ExplainInv, Past
  <2>4. Past' /\ Keyless'
    BY <1>2, <2>2, <2>3 DEF ExplainInv, Past, Keyless
  <2>5. ListCarries(since.forecast)' /\ AlertCarries'
    BY <1>2, <2>1, <2>2 DEF ExplainInv, ListCarries, AlertCarries, InEffect
  <2>. QED
    BY <2>2, <2>4, <2>5 DEF ExplainInv, Hearing, Time
<1>4. CASE \E from \in {clock, clock + 1} : Announce(level, from)
  <2>1. commands' = commands /\ since' = [since EXCEPT !.alertRead = FALSE]
    BY <1>4 DEF Announce
  <2>2. /\ since' \in [forecast : Hearing, alertRead : BOOLEAN]
        /\ since'.forecast = since.forecast /\ since'.alertRead = FALSE
    BY <1>2, <2>1
  <2>3. Past' /\ Keyless' /\ ListCarries(since.forecast)' /\ AlertCarries'
    BY <1>2, <2>1, <2>2 DEF ExplainInv, Past, Keyless, ListCarries, AlertCarries
  <2>. QED
    BY <2>2, <2>3 DEF ExplainInv, Hearing, Time
<1>. QED
  BY <1>1, <1>3, <1>4

LEMMA TickExplains ==
    ASSUME FeedTypes, ExplainInv, Tick
    PROVE  ExplainInv'
<1>1. clock' = clock + 1 /\ UNCHANGED <<sources, ff, kw, since, pc, now>> /\ clock \in Int
  BY TimeIsNat DEF Tick, caches, calls, FeedTypes
<1>2. Past'
  <2>1. /\ \A i \in DOMAIN commands : commands[i].at \in Int
        /\ \A i \in DOMAIN ff.rows : ff.rows[i].at \in Int
        /\ \A c \in Callers : now[c] \in Int
    <3>1. /\ \A i \in DOMAIN commands : commands[i] \in Command
          /\ \A i \in DOMAIN ff.rows : ff.rows[i] \in Command
          /\ \A c \in Callers : now[c] \in Time
      BY DEF FeedTypes
    <3>2. \A r \in Command : r.at \in Int
      BY TimeIsNat DEF Command
    <3>. QED
      BY <3>1, <3>2, TimeIsNat
  <2>2. kw.ok => kw.at \in Int
    BY TimeIsNat DEF FeedTypes, ExplainInv, Past
  <2>. QED
    BY <1>1, <2>1, <2>2 DEF ExplainInv, Past, sources
<1>3. Keyless' /\ ListCarries(since.forecast)' /\ AlertCarries'
  BY <1>1 DEF ExplainInv, Keyless, ListCarries, AlertCarries, InEffect, sources
<1>. QED
  BY <1>1, <1>2, <1>3 DEF ExplainInv, Hearing, Time

LEMMA RestartExplains ==
    ASSUME FeedTypes, ExplainInv, Restart
    PROVE  ExplainInv'
<1>1. /\ ff' = [at |-> None, rows |-> <<>>] /\ kw' = [at |-> None, ok |-> FALSE, active |-> None]
      /\ since' = [forecast |-> [since.forecast EXCEPT !.listed = None, !.wiped = FALSE], alertRead |-> FALSE]
      /\ pc' = [c \in Callers |-> "idle"] /\ now' = [c \in Callers |-> 0]
      /\ UNCHANGED <<clock, sources>>
  BY DEF Restart
<1>2. since \in [forecast : Hearing, alertRead : BOOLEAN]
  BY DEF ExplainInv
<1>3. /\ since' \in [forecast : Hearing, alertRead : BOOLEAN]
      /\ since'.forecast.listed = None /\ since'.alertRead = FALSE
  <2>. DEFINE h == [since.forecast EXCEPT !.listed = None, !.wiped = FALSE]
  <2>1. h \in Hearing /\ h.listed = None
    BY <1>2 DEF Hearing
  <2>. HIDE DEF h
  <2>2. since' = [forecast |-> h, alertRead |-> FALSE]
    BY <1>1 DEF h
  <2>. QED
    BY <2>1, <2>2
<1>4. ff'.rows = <<>> /\ kw'.ok = FALSE /\ DOMAIN <<>> = {} /\ 0 <= clock
  BY <1>1, TimeIsNat DEF FeedTypes
<1>5. Past' /\ Keyless' /\ ListCarries(since.forecast)' /\ AlertCarries'
  BY <1>1, <1>3, <1>4 DEF ExplainInv, Past, Keyless, ListCarries, AlertCarries, sources
<1>. QED
  BY <1>3, <1>5 DEF ExplainInv, Hearing, Time

LEMMA StepExplains ==
    ASSUME FeedTypes, ExplainInv, [BoardNext]_boardVars
    PROVE  ExplainInv'
<1>1. ASSUME FeedStep PROVE ExplainInv'
  BY <1>1, CallExplains, PullForecastExplains, ForecastKeylessExplains, AlertFeedExplains,
     SourcesExplain, TickExplains DEF FeedStep, CallStep
<1>2. ASSUME UNCHANGED feedVars PROVE ExplainInv'
  BY <1>2, QuietExplains DEF feedVars, caches, calls, ExplainInv, Past, Keyless
<1>3. CASE \E c \in Callers : Assess(c) \/ AskFeeds(c) \/ Judge(c)
  BY <1>1, <1>3 DEF Assess, AskFeeds, Judge, FeedStep, CallStep
<1>4. CASE RecordNothing \/ Record \/ UNCHANGED boardVars
  BY <1>2, <1>4 DEF RecordNothing, Record, Write, boardVars
<1>5. CASE SnapshotFails
  <2>1. Judged(Recorder) \/ UNCHANGED feedVars
    BY <1>5 DEF SnapshotFails, Fail
  <2>. QED
    BY <1>1, <1>2, <2>1, BoardAssumption DEF FeedStep, BoardAssumption
<1>6. CASE BoardTick \/ SourceStep
  BY <1>1, <1>6 DEF BoardTick, FeedStep
<1>. QED
  BY <1>3, <1>4, <1>5, <1>6, RestartExplains DEF BoardNext

LEMMA StartExplains == BoardInit => ExplainInv
<1>. SUFFICES ASSUME BoardInit PROVE ExplainInv
  OBVIOUS
<1>1. FeedsInit
  BY DEF BoardInit
<1>2. /\ commands = <<>> /\ ff.rows = <<>> /\ kw.ok = FALSE /\ DOMAIN <<>> = {}
      /\ clock = 0 /\ now = [c \in Callers |-> 0] /\ pc = [c \in Callers |-> "idle"]
      /\ since = [forecast |-> Unheard, alertRead |-> FALSE]
  BY <1>1 DEF FeedsInit
<1>3. since \in [forecast : Hearing, alertRead : BOOLEAN] /\ since.forecast.listed = None
  BY <1>2 DEF Unheard, Hearing
<1>. QED
  BY <1>2, <1>3 DEF ExplainInv, Past, Keyless, ListCarries, AlertCarries

(* A facility is shown under another warning than the official one in       *)
(* force only for the listed reasons: for the forecasts, the list was not   *)
(* read since the last command, no longer carried it, or was wiped by an    *)
(* error body; for the alerts, not read since, or announced for later.      *)
THEOREM WarningMissesExplainedHolds == BoardSpec => []WarningMissesExplained
<1>. DEFINE Inv == TypesInv /\ ExplainInv
<1>1. BoardInit => Inv
  BY StartTyped, StartExplains
<1>2. Inv /\ [BoardNext]_boardVars => Inv'
  BY StepTyped, StepExplains DEF TypesInv
<1>3. Inv => WarningMissesExplained
  BY ForecastExplained, AlertExplained DEF TypesInv, WarningMissesExplained
<1>. QED
  BY <1>1, <1>2, <1>3, PTL DEF BoardSpec

-----------------------------------------------------------------------------
(* The season board, line by line: the recursive function of SeasonOf, and  *)
(* what one more snapshot does to the row of a facility.                    *)
IsRow(r, s, f, n) == r = [i \in 0 .. n |-> IF i = 0 THEN Calm ELSE Counted(r[i - 1], s[i], f)]
RowsOf(s, f) == CHOOSE r : IsRow(r, s, f, Len(s))

LEMMA RowExists == ASSUME NEW s, NEW f, NEW n \in Nat PROVE \E r : IsRow(r, s, f, n)
<1>. DEFINE Upto(m, r) == IsRow(r, s, f, m)
            C == {m \in Nat : ~\E r : Upto(m, r)}
<1>1. SUFFICES ASSUME C # {} PROVE FALSE
  OBVIOUS
<1>2. PICK m \in C : \A y \in C : m <= y
  <2>1. C \subseteq Nat
    OBVIOUS
  <2>. QED
    BY <1>1, <2>1, LeastNat
<1>3. m \in Nat /\ ~\E r : Upto(m, r)
  BY <1>2
<1>4. m # 0
  <2>1. Upto(0, [i \in 0 .. 0 |-> Calm])
    BY DEF IsRow
  <2>. QED
    BY <1>3, <2>1
<1>5. m - 1 \in Nat /\ m - 1 \notin C
  <2>1. m - 1 \in Nat /\ ~(m <= m - 1)
    BY <1>3, <1>4
  <2>. HIDE DEF C
  <2>. QED
    BY <1>2, <2>1
<1>6. PICK g : Upto(m - 1, g)
  BY <1>5
<1>. DEFINE r == [i \in 0 .. m |-> IF i < m THEN g[i] ELSE Counted(g[m - 1], s[m], f)]
<1>7. \A i \in 0 .. m - 1 : r[i] = g[i]
  BY <1>3
<1>8. ASSUME NEW i \in 0 .. m
      PROVE  r[i] = IF i = 0 THEN Calm ELSE Counted(r[i - 1], s[i], f)
  <2>1. CASE i = 0
    BY <1>3, <1>4, <1>6, <2>1 DEF IsRow
  <2>2. CASE i # 0 /\ i < m
    <3>1. i \in 0 .. m - 1 /\ i - 1 \in 0 .. m - 1
      BY <1>3, <2>2
    <3>2. g[i] = Counted(g[i - 1], s[i], f)
      BY <1>6, <2>2, <3>1 DEF IsRow
    <3>. QED
      BY <1>7, <2>2, <3>1, <3>2
  <2>3. CASE i = m
    <3>1. m - 1 \in 0 .. m - 1 /\ r[m - 1] = g[m - 1]
      BY <1>3, <1>4, <1>7
    <3>. QED
      BY <1>3, <1>4, <2>3, <3>1
  <2>. QED
    BY <1>3, <2>1, <2>2, <2>3
<1>9. Upto(m, r)
  BY <1>8 DEF IsRow
<1>. QED
  BY <1>3, <1>9

LEMMA RowSteps ==
    ASSUME NEW s, NEW f, Len(s) \in Nat
    PROVE  /\ RowsOf(s, f)[0] = Calm
           /\ \A i \in 1 .. Len(s) : RowsOf(s, f)[i] = Counted(RowsOf(s, f)[i - 1], s[i], f)
           /\ SeasonOf(s, f) = RowsOf(s, f)[Len(s)]
<1>. DEFINE k == RowsOf(s, f)
<1>1. IsRow(k, s, f, Len(s))
  BY RowExists DEF RowsOf
<1>. HIDE DEF k
<1>2. k[0] = Calm
  BY <1>1 DEF IsRow
<1>3. ASSUME NEW i \in 1 .. Len(s) PROVE k[i] = Counted(k[i - 1], s[i], f)
  <2>1. i \in 0 .. Len(s) /\ i # 0
    OBVIOUS
  <2>. QED
    BY <1>1, <2>1 DEF IsRow
<1>4. SeasonOf(s, f) = RowsOf(s, f)[Len(s)]
  BY DEF SeasonOf, RowsOf, IsRow
<1>. QED
  BY <1>2, <1>3, <1>4 DEF k

LEMMA RowOfNothing == ASSUME NEW f PROVE SeasonOf(<<>>, f) = Calm
<1>1. Len(<<>>) = 0
  OBVIOUS
<1>. QED
  BY <1>1, RowSteps

(* The rows of a sequence and of one that continues it are the same so far. *)
LEMMA RowsAgree ==
    ASSUME NEW S, NEW s \in Seq(S), NEW x \in S, NEW f, NEW i \in Nat, i <= Len(s)
    PROVE  RowsOf(Append(s, x), f)[i] = RowsOf(s, f)[i]
<1>. DEFINE k == RowsOf(s, f)
            q == RowsOf(Append(s, x), f)
            n == Len(s)
            C == {m \in Nat : m <= n /\ q[m] # k[m]}
<1>1. /\ n \in Nat /\ Len(Append(s, x)) = n + 1
      /\ \A m \in 1 .. n : Append(s, x)[m] = s[m]
  OBVIOUS
<1>2. /\ k[0] = Calm /\ q[0] = Calm
      /\ \A m \in 1 .. n : k[m] = Counted(k[m - 1], s[m], f)
      /\ \A m \in 1 .. n : q[m] = Counted(q[m - 1], s[m], f)
  <2>1. \A m \in 1 .. n : m \in 1 .. n + 1
    BY <1>1
  <2>2. \A m \in 1 .. n + 1 : q[m] = Counted(q[m - 1], Append(s, x)[m], f)
    <3>. DEFINE a == Append(s, x)
    <3>1. Len(a) = n + 1 /\ Len(a) \in Nat
      BY <1>1
    <3>. HIDE DEF a
    <3>2. \A m \in 1 .. Len(a) : RowsOf(a, f)[m] = Counted(RowsOf(a, f)[m - 1], a[m], f)
      BY <3>1, RowSteps
    <3>. QED
      BY <3>1, <3>2 DEF a
  <2>3. Len(Append(s, x)) \in Nat
    BY <1>1
  <2>. QED
    BY <1>1, <2>1, <2>2, <2>3, RowSteps
<1>. HIDE DEF k, q, n
<1>3. C = {}
  <2>1. SUFFICES ASSUME C # {} PROVE FALSE
    OBVIOUS
  <2>2. PICK m \in C : \A y \in C : m <= y
    <3>1. C \subseteq Nat
      OBVIOUS
    <3>. QED
      BY <2>1, <3>1, LeastNat
  <2>3. m \in Nat /\ m <= n /\ q[m] # k[m]
    BY <2>2
  <2>4. m - 1 \in Nat /\ m \in 1 .. n /\ ~(m <= m - 1) /\ m - 1 <= n
    BY <1>1, <1>2, <2>3
  <2>5. m - 1 \notin C
    <3>. HIDE DEF C
    <3>. QED
      BY <2>2, <2>4
  <2>. QED
    BY <1>2, <2>3, <2>4, <2>5
<1>. QED
  BY <1>3 DEF k, q, n

LEMMA SeasonGrows ==
    ASSUME NEW S, NEW s \in Seq(S), NEW x \in S, NEW f
    PROVE  SeasonOf(Append(s, x), f) = Counted(SeasonOf(s, f), x, f)
<1>. DEFINE n == Len(s)
<1>1. n \in Nat /\ Len(Append(s, x)) = n + 1 /\ Append(s, x)[n + 1] = x /\ n + 1 \in 1 .. n + 1
      /\ (n + 1) - 1 = n
  OBVIOUS
<1>2. RowsOf(Append(s, x), f)[n + 1] = Counted(RowsOf(Append(s, x), f)[n], x, f)
  <2>1. Append(s, x)[n + 1] = x /\ n + 1 \in 1 .. Len(Append(s, x)) /\ Len(Append(s, x)) \in Nat
    BY <1>1
  <2>2. RowsOf(Append(s, x), f)[n + 1] = Counted(RowsOf(Append(s, x), f)[(n + 1) - 1], Append(s, x)[n + 1], f)
    BY <2>1, RowSteps
  <2>. QED
    BY <1>1, <2>2
<1>3. RowsOf(Append(s, x), f)[n] = RowsOf(s, f)[n]
  BY <1>1, RowsAgree
<1>4. /\ SeasonOf(Append(s, x), f) = RowsOf(Append(s, x), f)[n + 1]
      /\ SeasonOf(s, f) = RowsOf(s, f)[n]
  <2>. DEFINE a == Append(s, x)
  <2>1. Len(a) = n + 1 /\ Len(a) \in Nat /\ Len(s) \in Nat
    BY <1>1
  <2>. HIDE DEF a
  <2>2. SeasonOf(a, f) = RowsOf(a, f)[Len(a)] /\ SeasonOf(s, f) = RowsOf(s, f)[Len(s)]
    BY <2>1, RowSteps
  <2>. QED
    BY <2>1, <2>2 DEF a
<1>. QED
  BY <1>2, <1>3, <1>4

-----------------------------------------------------------------------------
Episode == [start : Int, end : Int, official : BOOLEAN]
Row == [minutes : Int, episodes : Seq(Episode)]
Alarms(s, f) == s.level[f] >= 2

(* A snapshot in alarm extends the last episode, or opens one.              *)
Joined(eps, new, x, f) ==
    LET n == Len(eps)
    IN /\ n # 0 /\ x.at - eps[n].end <= Gap /\ Len(new) = n
       /\ \A k \in 1 .. n - 1 : new[k] = eps[k]
       /\ new[n].start = eps[n].start /\ new[n].end = x.at
       /\ new[n].official <=> (eps[n].official \/ x.official[f])
Opened(eps, new, x, f) ==
    LET n == Len(eps)
    IN /\ n # 0 => x.at - eps[n].end > Gap
       /\ Len(new) = n + 1
       /\ \A k \in 1 .. n : new[k] = eps[k]
       /\ new[n + 1].start = x.at /\ new[n + 1].end = x.at
       /\ new[n + 1].official <=> x.official[f]

LEMMA ExtendJoins ==
    ASSUME NEW row \in Row, NEW x \in Snapshot, NEW f \in Recorded, Joins(row, x)
    PROVE  /\ Extend(row, x, f) \in Row /\ Extend(row, x, f).minutes = row.minutes
           /\ Joined(row.episodes, Extend(row, x, f).episodes, x, f)
<1>. DEFINE eps == row.episodes
            n == Len(eps)
            e == [start |-> eps[n].start, end |-> x.at, official |-> eps[n].official \/ x.official[f]]
            new == Front(eps) \o <<e>>
<1>1. /\ eps \in Seq(Episode) /\ n \in Nat /\ n # 0 /\ Last(eps) = eps[n] /\ eps[n] \in Episode
      /\ x.at \in Int /\ x.official[f] \in BOOLEAN
  BY DEF Row, Joins, Last, Snapshot
<1>2. /\ Front(eps) \in Seq(Episode) /\ Len(Front(eps)) = n - 1
      /\ \A k \in 1 .. n - 1 : Front(eps)[k] = eps[k]
  <2>1. Front(eps) = [k \in 1 .. n - 1 |-> eps[k]]
    BY <1>1 DEF Front
  <2>2. \A k \in 1 .. n - 1 : eps[k] \in Episode
    BY <1>1
  <2>3. n - 1 \in Nat
    BY <1>1
  <2>. QED
    BY <2>1, <2>2, <2>3
<1>3. e \in Episode /\ e.start = eps[n].start /\ e.end = x.at
      /\ (e.official <=> (eps[n].official \/ x.official[f]))
  BY <1>1 DEF Episode
<1>4. Extend(row, x, f) = [row EXCEPT !.episodes = new]
  BY <1>1 DEF Extend
<1>5. row = [minutes |-> row.minutes, episodes |-> eps] /\ row.minutes \in Int
  BY DEF Row
<1>. HIDE DEF e, n
<1>6. /\ new \in Seq(Episode) /\ Len(new) = n /\ new[n] = e
      /\ \A k \in 1 .. n - 1 : new[k] = eps[k]
  <2>. DEFINE q == Front(eps)
  <2>1. q \in Seq(Episode) /\ Len(q) = n - 1 /\ n \in Nat /\ n # 0 /\ e \in Episode
    BY <1>1, <1>2, <1>3
  <2>. HIDE DEF q
  <2>2. /\ q \o <<e>> \in Seq(Episode) /\ Len(q \o <<e>>) = n /\ (q \o <<e>>)[n] = e
        /\ \A k \in 1 .. n - 1 : (q \o <<e>>)[k] = q[k]
    BY <2>1
  <2>. QED
    BY <1>2, <2>2 DEF q
<1>. HIDE DEF new
<1>7. Extend(row, x, f).episodes = new /\ Extend(row, x, f).minutes = row.minutes
      /\ Extend(row, x, f) \in Row
  BY <1>4, <1>5, <1>6 DEF Row
<1>8. x.at - eps[n].end <= Gap
  BY <1>1 DEF Joins, n
<1>. QED
  BY <1>1, <1>3, <1>6, <1>7, <1>8 DEF Joined, n

LEMMA OpenOpens ==
    ASSUME NEW row \in Row, NEW x \in Snapshot, NEW f \in Recorded, ~Joins(row, x)
    PROVE  /\ OpenEpisode(row, x, f) \in Row /\ OpenEpisode(row, x, f).minutes = row.minutes
           /\ Opened(row.episodes, OpenEpisode(row, x, f).episodes, x, f)
<1>. DEFINE eps == row.episodes
            n == Len(eps)
            e == [start |-> x.at, end |-> x.at, official |-> x.official[f]]
            new == Append(eps, e)
<1>1. /\ eps \in Seq(Episode) /\ n \in Nat /\ x.at \in Int /\ x.official[f] \in BOOLEAN
      /\ row = [minutes |-> row.minutes, episodes |-> eps] /\ row.minutes \in Int
  BY DEF Row, Snapshot
<1>2. n # 0 => eps # <<>> /\ Last(eps) = eps[n] /\ eps[n].end \in Int
  <2>. HIDE DEF eps
  <2>1. n # 0 => eps # <<>> /\ eps[n] \in Episode
    BY <1>1
  <2>. QED
    BY <2>1 DEF Last, Episode
<1>3. n # 0 => x.at - eps[n].end > Gap
  BY <1>1, <1>2, WatchLogAssumption DEF Joins, WatchLogAssumption
<1>4. OpenEpisode(row, x, f) = [row EXCEPT !.episodes = new]
  BY DEF OpenEpisode
<1>5. e \in Episode /\ e.start = x.at /\ e.end = x.at /\ e.official = x.official[f]
  BY <1>1 DEF Episode
<1>. HIDE DEF e
<1>6. /\ new \in Seq(Episode) /\ Len(new) = n + 1 /\ new[n + 1] = e
      /\ \A k \in 1 .. n : new[k] = eps[k]
  BY <1>1, <1>5
<1>. HIDE DEF new
<1>7. OpenEpisode(row, x, f).episodes = new /\ OpenEpisode(row, x, f).minutes = row.minutes
      /\ OpenEpisode(row, x, f) \in Row
  BY <1>1, <1>4, <1>6 DEF Row
<1>. QED
  BY <1>1, <1>3, <1>5, <1>6, <1>7 DEF Opened

(* What a snapshot adds to the row of a facility.                           *)
LEMMA CountedRow ==
    ASSUME NEW row \in Row, NEW x \in Snapshot, NEW f \in Recorded
    PROVE  LET new == Counted(row, x, f)
           IN /\ new \in Row /\ new.minutes <= row.minutes + Interval
              /\ ~Alarms(x, f) => new.episodes = row.episodes
              /\ Alarms(x, f) => \/ Joined(row.episodes, new.episodes, x, f)
                                 \/ Opened(row.episodes, new.episodes, x, f)
<1>. DEFINE timed == Clocked(row)
<1>1. x.level[f] \in 0 .. 4 /\ Interval \in Nat /\ row.minutes \in Int /\ row.episodes \in Seq(Episode)
      /\ row = [minutes |-> row.minutes, episodes |-> row.episodes]
  BY Constants DEF Snapshot, Row
<1>2. timed \in Row /\ timed.episodes = row.episodes /\ timed.minutes = row.minutes + Interval
  <2>. DEFINE m == row.minutes + Interval
  <2>1. m \in Int
    BY <1>1
  <2>2. timed = [minutes |-> m, episodes |-> row.episodes]
    BY <1>1 DEF Clocked
  <2>. HIDE DEF timed, m
  <2>3. timed \in Row /\ timed.episodes = row.episodes /\ timed.minutes = m
    BY <1>1, <2>1, <2>2 DEF Row
  <2>. QED
    BY <1>1, <2>3 DEF m
<1>. HIDE DEF timed
<1>3. Joins(timed, x) <=> Joins(row, x)
  BY <1>2 DEF Joins
<1>4. Counted(row, x, f) =
         IF x.level[f] = 0 THEN row ELSE IF x.level[f] = 1 THEN timed
         ELSE IF Joins(timed, x) THEN Extend(timed, x, f) ELSE OpenEpisode(timed, x, f)
  BY <1>3 DEF Counted, timed
<1>5. CASE x.level[f] = 0 \/ x.level[f] = 1
  BY <1>1, <1>2, <1>4, <1>5 DEF Alarms
<1>6. CASE x.level[f] \notin {0, 1} /\ Joins(timed, x)
  BY <1>1, <1>2, <1>4, <1>6, ExtendJoins DEF Alarms
<1>7. CASE x.level[f] \notin {0, 1} /\ ~Joins(timed, x)
  BY <1>1, <1>2, <1>4, <1>7, OpenOpens DEF Alarms
<1>. QED
  BY <1>5, <1>6, <1>7

-----------------------------------------------------------------------------
(* What the episodes of a facility tell of its snapshots: they are more     *)
(* than Gap apart, each alarm is in one, whose flag knows its forecast, and *)
(* two alarms in a row at most Gap apart are in the same.                   *)
Covers(e, t) == e.start <= t /\ t <= e.end
Alarmed(s, f) == {i \in DOMAIN s : Alarms(s[i], f)}

Apart(eps) ==
    /\ \A k \in DOMAIN eps : eps[k].start <= eps[k].end
    /\ \A j, k \in DOMAIN eps : j < k => eps[k].start - eps[j].end > Gap
Ended(eps, s) ==
    /\ s = <<>> => eps = <<>>
    /\ \A k \in DOMAIN eps : eps[k].end <= s[Len(s)].at
Counting(eps, s, f) == \A i \in Alarmed(s, f) : \E k \in DOMAIN eps : Covers(eps[k], s[i].at)
Flagged(eps, s, f) ==
    \A i \in Alarmed(s, f) : \A k \in DOMAIN eps :
        Covers(eps[k], s[i].at) /\ s[i].official[f] => eps[k].official
Together(eps, s, f) ==
    \A i \in Alarmed(s, f) : i + 1 \in Alarmed(s, f) /\ s[i + 1].at - s[i].at <= Gap =>
        \E k \in DOMAIN eps : Covers(eps[k], s[i].at) /\ Covers(eps[k], s[i + 1].at)
Told(eps, s, f) ==
    /\ eps \in Seq(Episode)
    /\ Apart(eps) /\ Ended(eps, s) /\ Counting(eps, s, f) /\ Flagged(eps, s, f) /\ Together(eps, s, f)

Later(s, x) == s # <<>> => s[Len(s)].at <= x.at

LEMMA OneMoreSnapshot ==
    ASSUME NEW s \in Seq(Snapshot), NEW x \in Snapshot, NEW f
    PROVE  LET q == Append(s, x)
               n == Len(s)
           IN /\ q \in Seq(Snapshot) /\ Len(q) = n + 1 /\ DOMAIN q = 1 .. n + 1 /\ q # <<>>
              /\ q[n + 1] = x /\ \A i \in 1 .. n : q[i] = s[i]
              /\ Alarmed(q, f) = Alarmed(s, f) \cup (IF Alarms(x, f) THEN {n + 1} ELSE {})
              /\ n \in Nat /\ DOMAIN s = 1 .. n /\ Alarmed(s, f) \subseteq 1 .. n
<1>. DEFINE q == Append(s, x)
            n == Len(s)
<1>1. /\ q \in Seq(Snapshot) /\ Len(q) = n + 1 /\ DOMAIN q = 1 .. n + 1 /\ q # <<>>
      /\ q[n + 1] = x /\ \A i \in 1 .. n : q[i] = s[i]
      /\ n \in Nat /\ DOMAIN s = 1 .. n
  OBVIOUS
<1>. HIDE DEF q, n
<1>2. Alarmed(q, f) = Alarmed(s, f) \cup (IF Alarms(x, f) THEN {n + 1} ELSE {})
  BY <1>1 DEF Alarmed
<1>3. Alarmed(s, f) \subseteq 1 .. n
  BY <1>1 DEF Alarmed
<1>. QED
  BY <1>1, <1>2, <1>3 DEF q, n

LEMMA EpisodeTypes ==
    ASSUME NEW eps \in Seq(Episode), NEW k \in DOMAIN eps
    PROVE  eps[k].start \in Int /\ eps[k].end \in Int /\ eps[k].official \in BOOLEAN
<1>1. eps[k] \in Episode
  OBVIOUS
<1>. QED
  BY <1>1 DEF Episode

LEMMA SnapshotTypes ==
    ASSUME NEW s \in Seq(Snapshot), NEW i \in DOMAIN s, NEW f \in Recorded
    PROVE  s[i].at \in Int /\ s[i].official[f] \in BOOLEAN
<1>1. s[i] \in Snapshot
  OBVIOUS
<1>. QED
  BY <1>1 DEF Snapshot

(* A snapshot without an alarm.                                             *)
LEMMA QuietTold ==
    ASSUME NEW s \in Seq(Snapshot), NEW x \in Snapshot, NEW f \in Recorded, NEW eps,
           Told(eps, s, f), Later(s, x), ~Alarms(x, f)
    PROVE  Told(eps, Append(s, x), f)
<1>. DEFINE q == Append(s, x)
            n == Len(s)
<1>1. /\ q \in Seq(Snapshot) /\ Len(q) = n + 1 /\ q # <<>>
      /\ q[n + 1] = x /\ \A i \in 1 .. n : q[i] = s[i]
      /\ Alarmed(q, f) = Alarmed(s, f)
      /\ n \in Nat /\ DOMAIN s = 1 .. n /\ Alarmed(s, f) \subseteq 1 .. n
  BY OneMoreSnapshot
<1>. HIDE DEF q
<1>2. Ended(eps, q)
  <2>. SUFFICES ASSUME NEW k \in DOMAIN eps PROVE eps[k].end <= x.at
    BY <1>1 DEF Ended
  <2>1. s # <<>> /\ eps[k].end <= s[n].at
    BY DEF Told, Ended
  <2>2. eps[k].end \in Int /\ s[n].at \in Int /\ x.at \in Int
    <3>1. n \in DOMAIN s /\ eps \in Seq(Episode)
      BY <2>1 DEF Told
    <3>2. x.at \in Int
      BY DEF Snapshot
    <3>. QED
      BY <3>1, <3>2, EpisodeTypes, SnapshotTypes
  <2>. QED
    BY <2>1, <2>2 DEF Later
<1>3. Counting(eps, q, f) /\ Flagged(eps, q, f)
  <2>1. \A i \in Alarmed(s, f) : q[i] = s[i]
    BY <1>1
  <2>2. ASSUME NEW i \in Alarmed(q, f) PROVE \E k \in DOMAIN eps : Covers(eps[k], q[i].at)
    <3>1. i \in Alarmed(s, f) /\ q[i] = s[i]
      BY <1>1, <2>1
    <3>. QED
      BY <3>1 DEF Told, Counting
  <2>3. ASSUME NEW i \in Alarmed(q, f), NEW k \in DOMAIN eps, Covers(eps[k], q[i].at), q[i].official[f]
        PROVE  eps[k].official
    <3>1. i \in Alarmed(s, f) /\ q[i] = s[i]
      BY <1>1, <2>1
    <3>. QED
      BY <2>3, <3>1 DEF Told, Flagged
  <2>. QED
    BY <2>2, <2>3 DEF Counting, Flagged
<1>4. Together(eps, q, f)
  <2>. SUFFICES ASSUME NEW i \in Alarmed(s, f), i + 1 \in Alarmed(s, f), q[i + 1].at - q[i].at <= Gap
                PROVE  \E k \in DOMAIN eps : Covers(eps[k], q[i].at) /\ Covers(eps[k], q[i + 1].at)
    BY <1>1 DEF Together
  <2>1. q[i] = s[i] /\ q[i + 1] = s[i + 1]
    BY <1>1
  <2>. QED
    BY <2>1 DEF Told, Together
<1>. QED
  BY <1>2, <1>3, <1>4 DEF Told, q

(* Times of the last episode, and of the alarms it does not hold.           *)
LEMMA LastEpisode ==
    ASSUME NEW s \in Seq(Snapshot), NEW x \in Snapshot, NEW f \in Recorded, NEW eps,
           Told(eps, s, f), Later(s, x), Len(eps) # 0
    PROVE  LET m == Len(eps)
           IN /\ m \in Nat /\ m \in DOMAIN eps /\ DOMAIN eps = 1 .. m
              /\ eps[m].start <= eps[m].end /\ eps[m].end <= s[Len(s)].at /\ eps[m].end <= x.at
              /\ \A k \in DOMAIN eps : eps[k].end <= eps[m].end
              /\ \A k \in 1 .. m - 1 : eps[m].start - eps[k].end > Gap
              /\ s # <<>> /\ Len(s) \in DOMAIN s
<1>. DEFINE m == Len(eps)
<1>1. m \in Nat /\ m \in DOMAIN eps /\ DOMAIN eps = 1 .. m /\ eps \in Seq(Episode)
  BY DEF Told
<1>. HIDE DEF m
<1>2. s # <<>> /\ Len(s) \in DOMAIN s
  <2>1. s # <<>>
    BY <1>1 DEF Told, Ended
  <2>. QED
    BY <2>1
<1>3. eps[m].start <= eps[m].end /\ eps[m].end <= s[Len(s)].at
  BY <1>1 DEF Told, Apart, Ended
<1>4. s[Len(s)].at <= x.at /\ s[Len(s)].at \in Int /\ x.at \in Int
  BY <1>2, SnapshotTypes DEF Later, Snapshot
<1>5. \A k \in DOMAIN eps : eps[k].start \in Int /\ eps[k].end \in Int
  BY <1>1, EpisodeTypes
<1>6. \A k \in 1 .. m - 1 : eps[m].start - eps[k].end > Gap
  <2>. SUFFICES ASSUME NEW k \in 1 .. m - 1 PROVE eps[m].start - eps[k].end > Gap
    OBVIOUS
  <2>1. k \in DOMAIN eps /\ m \in DOMAIN eps /\ k < m
    BY <1>1
  <2>. QED
    BY <2>1 DEF Told, Apart
<1>7. \A k \in DOMAIN eps : eps[k].end <= eps[m].end
  <2>. SUFFICES ASSUME NEW k \in DOMAIN eps PROVE eps[k].end <= eps[m].end
    OBVIOUS
  <2>1. CASE k = m
    BY <1>1, <1>5, <2>1
  <2>2. CASE k # m
    <3>1. k \in 1 .. m - 1
      BY <1>1, <2>2
    <3>2. eps[m].start - eps[k].end > Gap
      BY <1>6, <3>1
    <3>. QED
      BY <1>1, <1>3, <1>5, <3>2, WatchLogAssumption DEF WatchLogAssumption
  <2>. QED
    BY <2>1, <2>2
<1>. QED
  BY <1>1, <1>2, <1>3, <1>4, <1>5, <1>6, <1>7 DEF m

LEMMA JoinTold ==
    ASSUME NEW s \in Seq(Snapshot), NEW x \in Snapshot, NEW f \in Recorded, NEW eps,
           NEW new \in Seq(Episode),
           Told(eps, s, f), Later(s, x), Alarms(x, f), Joined(eps, new, x, f)
    PROVE  Told(new, Append(s, x), f)
<1>. DEFINE q == Append(s, x)
            n == Len(s)
            m == Len(eps)
<1>1. /\ q \in Seq(Snapshot) /\ Len(q) = n + 1 /\ q # <<>>
      /\ q[n + 1] = x /\ \A i \in 1 .. n : q[i] = s[i]
      /\ Alarmed(q, f) = Alarmed(s, f) \cup {n + 1}
      /\ n \in Nat /\ DOMAIN s = 1 .. n /\ Alarmed(s, f) \subseteq 1 .. n
  BY OneMoreSnapshot
<1>2. /\ m # 0 /\ Len(new) = m /\ \A k \in 1 .. m - 1 : new[k] = eps[k]
      /\ new[m].start = eps[m].start /\ new[m].end = x.at
      /\ new[m].official <=> (eps[m].official \/ x.official[f])
  BY DEF Joined
<1>3. /\ m \in Nat /\ m \in DOMAIN eps /\ DOMAIN eps = 1 .. m
      /\ eps[m].start <= eps[m].end /\ eps[m].end <= s[n].at /\ eps[m].end <= x.at
      /\ \A k \in DOMAIN eps : eps[k].end <= eps[m].end
      /\ \A k \in 1 .. m - 1 : eps[m].start - eps[k].end > Gap
      /\ s # <<>> /\ n \in DOMAIN s
  BY <1>2, LastEpisode
<1>4. /\ \A k \in 1 .. m : eps[k].start \in Int /\ eps[k].end \in Int
      /\ \A i \in 1 .. n : s[i].at \in Int
      /\ x.at \in Int /\ Gap \in Nat
  <2>1. \A k \in DOMAIN eps : eps[k].start \in Int /\ eps[k].end \in Int
    BY EpisodeTypes DEF Told
  <2>2. \A i \in DOMAIN s : s[i].at \in Int
    BY SnapshotTypes
  <2>3. x.at \in Int
    BY DEF Snapshot
  <2>. QED
    BY <1>1, <1>3, <2>1, <2>2, <2>3, WatchLogAssumption DEF WatchLogAssumption
<1>5. DOMAIN new = 1 .. m
  BY <1>2
<1>. HIDE DEF q, n, m
<1>6. ASSUME NEW k \in 1 .. m, NEW t \in Int, Covers(eps[k], t), t <= x.at PROVE Covers(new[k], t)
  BY <1>2, <1>3, <1>4, <1>6, SMTT(30) DEF Covers
<1>7. \A i \in 1 .. n : i \in Alarmed(s, f) => s[i].at <= x.at
  <2>. SUFFICES ASSUME NEW i \in 1 .. n, i \in Alarmed(s, f) PROVE s[i].at <= x.at
    OBVIOUS
  <2>1. PICK k \in 1 .. m : Covers(eps[k], s[i].at)
    BY <1>3 DEF Told, Counting
  <2>. QED
    BY <1>3, <1>4, <2>1 DEF Covers
<1>8. Covers(new[m], x.at)
  BY <1>2, <1>3, <1>4 DEF Covers
<1>9. Apart(new)
  <2>1. ASSUME NEW k \in 1 .. m PROVE new[k].start <= new[k].end
    <3>1. CASE k = m
      BY <1>2, <1>3, <1>4, <3>1
    <3>2. CASE k # m
      <4>1. k \in 1 .. m - 1 /\ k \in DOMAIN eps
        BY <1>3, <3>2
      <4>. QED
        BY <1>2, <4>1 DEF Told, Apart
    <3>. QED
      BY <3>1, <3>2
  <2>2. ASSUME NEW j \in 1 .. m, NEW k \in 1 .. m, j < k PROVE new[k].start - new[j].end > Gap
    <3>0. j \in 1 .. m - 1 /\ new[j] = eps[j] /\ j \in DOMAIN eps /\ k \in DOMAIN eps
      BY <1>2, <1>3, <2>2
    <3>1. CASE k = m
      BY <1>2, <1>3, <3>0, <3>1
    <3>2. CASE k # m
      <4>1. k \in 1 .. m - 1
        BY <1>3, <3>2
      <4>. QED
        BY <1>2, <2>2, <3>0, <4>1 DEF Told, Apart
    <3>. QED
      BY <3>1, <3>2
  <2>. QED
    BY <1>5, <2>1, <2>2 DEF Apart
<1>10. Ended(new, q)
  <2>. SUFFICES ASSUME NEW k \in 1 .. m PROVE new[k].end <= x.at
    BY <1>1, <1>5 DEF Ended
  <2>1. CASE k = m
    BY <1>2, <1>4, <2>1
  <2>2. CASE k # m
    <3>1. k \in 1 .. m - 1 /\ k \in DOMAIN eps
      BY <1>3, <2>2
    <3>. QED
      BY <1>2, <1>3, <1>4, <3>1
  <2>. QED
    BY <2>1, <2>2
<1>11. Counting(new, q, f)
  <2>. SUFFICES ASSUME NEW i \in Alarmed(s, f) \cup {n + 1} PROVE \E k \in 1 .. m : Covers(new[k], q[i].at)
    BY <1>1, <1>5 DEF Counting
  <2>1. CASE i = n + 1
    BY <1>1, <1>3, <1>8, <2>1
  <2>2. CASE i # n + 1
    <3>1. i \in Alarmed(s, f) /\ i \in 1 .. n /\ q[i] = s[i]
      BY <1>1, <2>2
    <3>2. PICK k \in 1 .. m : Covers(eps[k], s[i].at)
      BY <1>3, <3>1 DEF Told, Counting
    <3>3. Covers(new[k], s[i].at)
      BY <1>4, <1>6, <1>7, <3>1, <3>2
    <3>. QED
      BY <3>1, <3>3
  <2>. QED
    BY <2>1, <2>2
<1>12. Flagged(new, q, f)
  <2>. SUFFICES ASSUME NEW i \in Alarmed(s, f) \cup {n + 1}, NEW k \in 1 .. m,
                       Covers(new[k], q[i].at), q[i].official[f]
                PROVE  new[k].official
    BY <1>1, <1>5 DEF Flagged
  <2>0. k # m => k \in 1 .. m - 1 /\ new[k] = eps[k] /\ k \in DOMAIN eps
    BY <1>2, <1>3
  <2>1. CASE i = n + 1
    <3>1. k = m
      <4>. SUFFICES ASSUME k # m PROVE FALSE
        OBVIOUS
      <4>1. x.at <= eps[k].end
        BY <1>1, <2>0, <2>1 DEF Covers
      <4>. QED
        BY <1>3, <1>4, <2>0, <4>1
    <3>. QED
      BY <1>1, <1>2, <2>1, <3>1
  <2>2. CASE i # n + 1
    <3>1. i \in Alarmed(s, f) /\ i \in 1 .. n /\ q[i] = s[i]
      BY <1>1, <2>2
    <3>2. CASE k # m
      BY <2>0, <3>1, <3>2 DEF Told, Flagged
    <3>3. CASE k = m
      <4>1. PICK j \in 1 .. m : Covers(eps[j], s[i].at)
        BY <1>3, <3>1 DEF Told, Counting
      <4>2. j = m
        <5>. SUFFICES ASSUME j # m PROVE FALSE
          OBVIOUS
        <5>1. j \in 1 .. m - 1
          BY <1>3
        <5>2. eps[m].start <= s[i].at /\ s[i].at <= eps[j].end
          BY <1>2, <3>1, <3>3, <4>1 DEF Covers
        <5>. QED
          BY <1>3, <1>4, <3>1, <5>1, <5>2
      <4>3. eps[m].official
        BY <1>3, <3>1, <4>1, <4>2 DEF Told, Flagged
      <4>. QED
        BY <1>2, <3>3, <4>3
    <3>. QED
      BY <3>2, <3>3
  <2>. QED
    BY <2>1, <2>2
<1>13. Together(new, q, f)
  <2>. SUFFICES ASSUME NEW i \in Alarmed(s, f) \cup {n + 1}, i + 1 \in Alarmed(s, f) \cup {n + 1},
                       q[i + 1].at - q[i].at <= Gap
                PROVE  \E k \in 1 .. m : Covers(new[k], q[i].at) /\ Covers(new[k], q[i + 1].at)
    BY <1>1, <1>5 DEF Together
  <2>0. i \in Alarmed(s, f) /\ i \in 1 .. n /\ q[i] = s[i]
    BY <1>1
  <2>1. CASE i + 1 \in Alarmed(s, f)
    <3>1. i + 1 \in 1 .. n /\ q[i + 1] = s[i + 1]
      BY <1>1, <2>1
    <3>2. PICK k \in 1 .. m : Covers(eps[k], s[i].at) /\ Covers(eps[k], s[i + 1].at)
      BY <1>3, <2>0, <2>1, <3>1 DEF Told, Together
    <3>3. Covers(new[k], s[i].at)
      BY <1>4, <1>6, <1>7, <2>0, <3>2
    <3>4. Covers(new[k], s[i + 1].at)
      BY <1>4, <1>6, <1>7, <2>1, <3>1, <3>2
    <3>. QED
      BY <2>0, <3>1, <3>3, <3>4
  <2>2. CASE i + 1 = n + 1
    <3>1. i = n
      BY <1>1, <2>0, <2>2
    <3>2. PICK k \in 1 .. m : Covers(eps[k], s[n].at)
      BY <1>3, <2>0, <3>1 DEF Told, Counting
    <3>3. k = m
      <4>. SUFFICES ASSUME k # m PROVE FALSE
        OBVIOUS
      <4>1. k \in 1 .. m - 1
        BY <1>3
      <4>. QED
        BY <1>3, <1>4, <2>0, <3>1, <3>2, <4>1 DEF Covers
    <3>4. Covers(new[m], s[n].at)
      BY <1>4, <1>6, <1>7, <2>0, <3>1, <3>2, <3>3
    <3>. QED
      BY <1>1, <1>3, <1>8, <2>0, <2>2, <3>1, <3>4
  <2>. QED
    BY <2>1, <2>2
<1>. QED
  BY <1>9, <1>10, <1>11, <1>12, <1>13 DEF Told, q

LEMMA OpenTold ==
    ASSUME NEW s \in Seq(Snapshot), NEW x \in Snapshot, NEW f \in Recorded, NEW eps,
           NEW new \in Seq(Episode),
           Told(eps, s, f), Later(s, x), Alarms(x, f), Opened(eps, new, x, f)
    PROVE  Told(new, Append(s, x), f)
<1>. DEFINE q == Append(s, x)
            n == Len(s)
            m == Len(eps)
<1>1. /\ q \in Seq(Snapshot) /\ Len(q) = n + 1 /\ q # <<>>
      /\ q[n + 1] = x /\ \A i \in 1 .. n : q[i] = s[i]
      /\ Alarmed(q, f) = Alarmed(s, f) \cup {n + 1}
      /\ n \in Nat /\ DOMAIN s = 1 .. n /\ Alarmed(s, f) \subseteq 1 .. n
  BY OneMoreSnapshot
<1>2. /\ Len(new) = m + 1 /\ \A k \in 1 .. m : new[k] = eps[k]
      /\ new[m + 1].start = x.at /\ new[m + 1].end = x.at
      /\ new[m + 1].official <=> x.official[f]
      /\ m # 0 => x.at - eps[m].end > Gap
  BY DEF Opened
<1>3. m \in Nat /\ DOMAIN eps = 1 .. m
  BY DEF Told
<1>4. /\ \A k \in 1 .. m : eps[k].start \in Int /\ eps[k].end \in Int
      /\ \A i \in 1 .. n : s[i].at \in Int
      /\ x.at \in Int /\ Gap \in Nat
  <2>1. \A k \in DOMAIN eps : eps[k].start \in Int /\ eps[k].end \in Int
    BY EpisodeTypes DEF Told
  <2>2. \A i \in DOMAIN s : s[i].at \in Int
    BY SnapshotTypes
  <2>3. x.at \in Int
    BY DEF Snapshot
  <2>. QED
    BY <1>1, <1>3, <2>1, <2>2, <2>3, WatchLogAssumption DEF WatchLogAssumption
<1>5. \A k \in 1 .. m : x.at - eps[k].end > Gap
  <2>. SUFFICES ASSUME NEW k \in 1 .. m PROVE x.at - eps[k].end > Gap
    OBVIOUS
  <2>1. m # 0 /\ m \in 1 .. m
    BY <1>3
  <2>2. \A j \in 1 .. m : eps[j].end <= eps[m].end
    BY <1>3, <2>1, LastEpisode
  <2>. QED
    BY <1>2, <1>4, <2>1, <2>2
<1>6. DOMAIN new = 1 .. m + 1
  BY <1>2, <1>3
<1>. HIDE DEF q, n, m
<1>7. \A k \in 1 .. m + 1 : k = m + 1 \/ k \in 1 .. m
  BY <1>3
<1>8. \A k \in 1 .. m : k \in 1 .. m + 1 /\ k \in DOMAIN eps /\ new[k] = eps[k]
  BY <1>2, <1>3
<1>9. Apart(new)
  <2>1. ASSUME NEW k \in 1 .. m + 1 PROVE new[k].start <= new[k].end
    BY <1>2, <1>4, <1>7, <1>8 DEF Told, Apart
  <2>2. ASSUME NEW j \in 1 .. m + 1, NEW k \in 1 .. m + 1, j < k PROVE new[k].start - new[j].end > Gap
    <3>1. j \in 1 .. m
      BY <1>3, <2>2
    <3>2. CASE k = m + 1
      BY <1>2, <1>5, <1>8, <3>1, <3>2
    <3>3. CASE k \in 1 .. m
      BY <1>8, <2>2, <3>1, <3>3 DEF Told, Apart
    <3>. QED
      BY <1>7, <3>2, <3>3
  <2>. QED
    BY <1>6, <2>1, <2>2 DEF Apart
<1>10. Ended(new, q)
  <2>. SUFFICES ASSUME NEW k \in 1 .. m + 1 PROVE new[k].end <= x.at
    BY <1>1, <1>6 DEF Ended
  <2>1. CASE k = m + 1
    BY <1>2, <1>4, <2>1
  <2>2. CASE k \in 1 .. m
    BY <1>4, <1>5, <1>8, <2>2
  <2>. QED
    BY <1>7, <2>1, <2>2
<1>11. Counting(new, q, f)
  <2>. SUFFICES ASSUME NEW i \in Alarmed(s, f) \cup {n + 1} PROVE \E k \in 1 .. m + 1 : Covers(new[k], q[i].at)
    BY <1>1, <1>6 DEF Counting
  <2>1. CASE i = n + 1
    <3>1. m + 1 \in 1 .. m + 1
      BY <1>3
    <3>. QED
      BY <1>1, <1>2, <1>4, <2>1, <3>1 DEF Covers
  <2>2. CASE i # n + 1
    <3>1. i \in Alarmed(s, f) /\ q[i] = s[i]
      BY <1>1, <2>2
    <3>2. PICK k \in 1 .. m : Covers(eps[k], s[i].at)
      BY <1>3, <3>1 DEF Told, Counting
    <3>. QED
      BY <1>8, <3>1, <3>2
  <2>. QED
    BY <2>1, <2>2
<1>12. Flagged(new, q, f)
  <2>. SUFFICES ASSUME NEW i \in Alarmed(s, f) \cup {n + 1}, NEW k \in 1 .. m + 1,
                       Covers(new[k], q[i].at), q[i].official[f]
                PROVE  new[k].official
    BY <1>1, <1>6 DEF Flagged
  <2>1. CASE i = n + 1
    <3>1. k = m + 1
      <4>. SUFFICES ASSUME k \in 1 .. m PROVE FALSE
        BY <1>7
      <4>. QED
        BY <1>1, <1>4, <1>5, <1>8, <2>1 DEF Covers
    <3>. QED
      BY <1>1, <1>2, <2>1, <3>1
  <2>2. CASE i # n + 1
    <3>1. i \in Alarmed(s, f) /\ i \in 1 .. n /\ q[i] = s[i]
      BY <1>1, <2>2
    <3>2. CASE k \in 1 .. m
      BY <1>8, <3>1, <3>2 DEF Told, Flagged
    <3>3. k # m + 1
      <4>. SUFFICES ASSUME k = m + 1 PROVE FALSE
        OBVIOUS
      <4>1. PICK j \in 1 .. m : Covers(eps[j], s[i].at)
        BY <1>3, <3>1 DEF Told, Counting
      <4>. QED
        BY <1>2, <1>4, <1>5, <3>1, <4>1 DEF Covers
    <3>. QED
      BY <1>7, <3>2, <3>3
  <2>. QED
    BY <2>1, <2>2
<1>13. Together(new, q, f)
  <2>. SUFFICES ASSUME NEW i \in Alarmed(s, f) \cup {n + 1}, i + 1 \in Alarmed(s, f) \cup {n + 1},
                       q[i + 1].at - q[i].at <= Gap
                PROVE  \E k \in 1 .. m + 1 : Covers(new[k], q[i].at) /\ Covers(new[k], q[i + 1].at)
    BY <1>1, <1>6 DEF Together
  <2>0. i \in Alarmed(s, f) /\ i \in 1 .. n /\ q[i] = s[i]
    BY <1>1
  <2>1. CASE i + 1 \in Alarmed(s, f)
    <3>1. i + 1 \in 1 .. n /\ q[i + 1] = s[i + 1]
      BY <1>1, <2>1
    <3>2. PICK k \in 1 .. m : Covers(eps[k], s[i].at) /\ Covers(eps[k], s[i + 1].at)
      BY <1>3, <2>0, <2>1, <3>1 DEF Told, Together
    <3>. QED
      BY <1>8, <2>0, <3>1, <3>2
  <2>2. i + 1 # n + 1
    <3>. SUFFICES ASSUME i + 1 = n + 1 PROVE FALSE
      OBVIOUS
    <3>1. i = n /\ x.at - s[n].at <= Gap
      BY <1>1, <2>0
    <3>2. PICK k \in 1 .. m : Covers(eps[k], s[n].at)
      BY <1>3, <2>0, <3>1 DEF Told, Counting
    <3>. QED
      BY <1>4, <1>5, <2>0, <3>1, <3>2 DEF Covers
  <2>. QED
    BY <2>1, <2>2
<1>. QED
  BY <1>9, <1>10, <1>11, <1>12, <1>13 DEF Told, q

(* The season of a facility tells its snapshots, and goes on doing so.      *)
Season(s, f) == SeasonOf(s, f) \in Row /\ Told(SeasonOf(s, f).episodes, s, f)

LEMMA SeasonStarts == ASSUME NEW f PROVE Season(<<>>, f)
<1>1. Calm \in Row /\ Calm.episodes = <<>>
  BY DEF Calm, Row
<1>2. DOMAIN <<>> = {} /\ <<>> \in Seq(Episode)
  OBVIOUS
<1>. QED
  BY <1>1, <1>2, RowOfNothing
  DEF Season, Told, Apart, Ended, Counting, Flagged, Together, Alarmed

LEMMA SeasonGoesOn ==
    ASSUME NEW s \in Seq(Snapshot), NEW x \in Snapshot, NEW f \in Recorded, Season(s, f), Later(s, x)
    PROVE  /\ Season(Append(s, x), f)
           /\ SeasonOf(Append(s, x), f).minutes <= SeasonOf(s, f).minutes + Interval
<1>. DEFINE row == SeasonOf(s, f)
            new == SeasonOf(Append(s, x), f)
<1>1. new = Counted(row, x, f)
  BY SeasonGrows
<1>2. row \in Row /\ Told(row.episodes, s, f)
  BY DEF Season
<1>. HIDE DEF row, new
<1>3. /\ new \in Row /\ new.minutes <= row.minutes + Interval
      /\ ~Alarms(x, f) => new.episodes = row.episodes
      /\ Alarms(x, f) => Joined(row.episodes, new.episodes, x, f) \/ Opened(row.episodes, new.episodes, x, f)
  BY <1>1, <1>2, CountedRow
<1>4. new.episodes \in Seq(Episode)
  BY <1>3 DEF Row
<1>5. Told(new.episodes, Append(s, x), f)
  BY <1>2, <1>3, <1>4, QuietTold, JoinTold, OpenTold
<1>. QED
  BY <1>3, <1>5 DEF Season, row, new

-----------------------------------------------------------------------------
(* The recorder's pace.  What it is about, one thing at a time: it sleeps,  *)
(* assesses, or is about to write; and since when.                          *)
Working == pc[Recorder] # "idle"
OneThing ==
    /\ snap # None => wakeAt = None /\ ~Working
    /\ Working => wakeAt = None
    /\ wakeAt # None => clock <= wakeAt
    /\ Working => at[Recorder] <= clock /\ clock <= at[Recorder] + MaxWork
    /\ snap # None => snap.at <= clock /\ clock <= snap.at + MaxWork
    /\ "HRFCO" \notin keys => lines = <<>> /\ snap = None /\ ~Working

(* The next line is of no time before t, or of none after it.               *)
NotBefore(t) ==
    /\ wakeAt # None => t <= wakeAt
    /\ Working => t <= at[Recorder]
    /\ snap # None => t <= snap.at
NotAfter(t) ==
    /\ wakeAt # None => wakeAt <= t
    /\ Working => at[Recorder] <= t
    /\ snap # None => snap.at <= t

Newest == lines[Len(lines)].at
Grace == IF skipped = 0 THEN Interval + MaxWork ELSE 2 * (Interval + MaxWork)
Allowed(n) == Interval * n
Minuted(f, n) == SeasonRow(f).minutes <= Newest - lines[1].at + Allowed(n)

Spread ==
    \A i \in 2 .. Len(lines) : missed[i] <= 1 => lines[i].at - lines[i - 1].at <= Gap
Paced ==
    /\ Newest <= clock /\ NotBefore(Newest)
    /\ skipped <= 1 => NotAfter(Newest + Grace)
    /\ \A f \in Recorded :
         (NotBefore(Newest + Interval) /\ Minuted(f, restarts + 1)) \/ Minuted(f, restarts)
AllTold == Len(missed) = Len(lines) /\ \A f \in Recorded : Season(lines, f)

WatchInv ==
    /\ OneThing
    /\ openEnd => ~Readable
    /\ Readable => AllTold /\ Spread
    /\ Readable /\ lines # <<>> => Paced

LEMMA Numbers ==
    ASSUME TypesInv
    PROVE  /\ clock \in Nat /\ at[Recorder] \in Nat /\ wakeAt \in Nat \cup {None}
           /\ snap \in Snapshot \cup {None} /\ (snap # None => snap.at \in Int)
           /\ skipped \in 0 .. 2 /\ restarts \in Nat
           /\ {Interval, MaxWork, FirstSleep, Gap} \subseteq Nat /\ FirstSleep <= Interval
           /\ 2 * (Interval + MaxWork) <= Gap
           /\ None \notin Int /\ Recorder \in Callers
<1>1. Recorder \in Callers /\ {Interval, MaxWork, FirstSleep, Gap} \subseteq Nat /\ FirstSleep <= Interval
      /\ 2 * (Interval + MaxWork) <= Gap /\ MaxRestarts \in Nat
  BY BoardAssumption, WatchLogAssumption DEF BoardAssumption, WatchLogAssumption
<1>2. clock \in Nat /\ at[Recorder] \in Nat
  BY <1>1, TimeIsNat DEF TypesInv, FeedTypes, RecordTypes
<1>3. restarts \in Nat /\ skipped \in 0 .. 2 /\ wakeAt \in Nat \cup {None} /\ snap \in Snapshot \cup {None}
  BY <1>1 DEF TypesInv, RecordTypes
<1>4. snap # None => snap.at \in Int
  BY <1>3 DEF Snapshot
<1>5. None \notin Int
  BY FeedsAssumption DEF FeedsAssumption
<1>. QED
  BY <1>1, <1>2, <1>3, <1>4, <1>5

LEMMA Allowance ==
    ASSUME NEW n \in Nat
    PROVE  Allowed(n) \in Nat /\ Allowed(n + 1) = Allowed(n) + Interval /\ Interval \in Nat
<1>1. Interval \in Nat
  BY Constants
<1>. QED
  BY <1>1 DEF Allowed

LEMMA ReadableLines ==
    ASSUME TypesInv, Readable
    PROVE  lines \in Seq(Snapshot) /\ Len(lines) \in Nat /\ DOMAIN lines = 1 .. Len(lines)
           /\ \A i \in 1 .. Len(lines) : lines[i].at \in Int
<1>1. lines \in Seq(Snapshot \cup {Torn}) /\ \A i \in DOMAIN lines : lines[i] # Torn
  BY DEF TypesInv, RecordTypes, Readable
<1>2. lines \in Seq(Snapshot)
  BY <1>1
<1>3. \A i \in DOMAIN lines : lines[i] \in Snapshot
  BY <1>2
<1>4. \A y \in Snapshot : y.at \in Int
  BY DEF Snapshot
<1>. QED
  BY <1>2, <1>3, <1>4

LEMMA SeasonTypes ==
    ASSUME NEW f \in Recorded, Season(lines, f)
    PROVE  SeasonRow(f).minutes \in Int /\ SeasonRow(f) \in Row
  BY DEF Season, SeasonRow, Row

(* A line is added: it continues the season.                                *)
LEMMA LineAdded ==
    ASSUME TypesInv, WatchInv, snap # None, snap # Torn, Readable,
           lines' = Append(lines, snap), missed' = Append(missed, skipped)
    PROVE  /\ AllTold' /\ Spread' /\ lines' # <<>> /\ Newest' = snap.at /\ lines'[1].at \in Int
           /\ \A f \in Recorded : SeasonOf(lines', f).minutes \in Int
           /\ \A f \in Recorded :
                 SeasonOf(lines', f).minutes <= snap.at - lines'[1].at + Allowed(restarts + 1)
<1>. DEFINE n == Len(lines)
<1>1. /\ lines \in Seq(Snapshot) /\ n \in Nat /\ DOMAIN lines = 1 .. n
      /\ \A i \in 1 .. n : lines[i].at \in Int
  BY ReadableLines
<1>2. snap \in Snapshot /\ snap.at \in Int
  BY Numbers
<1>3. /\ Len(lines') = n + 1 /\ lines'[n + 1] = snap /\ \A i \in 1 .. n : lines'[i] = lines[i]
      /\ lines' # <<>>
  BY <1>1, <1>2
<1>4. n # 0 => lines # <<>> /\ lines[n].at <= snap.at
  <2>. SUFFICES ASSUME n # 0 PROVE lines # <<>> /\ lines[n].at <= snap.at
    OBVIOUS
  <2>1. lines # <<>>
    BY <1>1
  <2>. QED
    BY <2>1 DEF WatchInv, Paced, NotBefore, Newest
<1>5. Later(lines, snap)
  <2>1. lines # <<>> => n # 0
    BY <1>1
  <2>. QED
    BY <1>4, <2>1 DEF Later
<1>6. ASSUME NEW f \in Recorded
      PROVE  /\ Season(lines', f) /\ SeasonOf(lines', f).minutes \in Int
             /\ SeasonOf(lines', f).minutes <= SeasonOf(lines, f).minutes + Interval
             /\ SeasonOf(lines, f).minutes \in Int
  <2>1. Season(lines, f)
    BY DEF WatchInv, AllTold
  <2>2. /\ Season(Append(lines, snap), f)
        /\ SeasonOf(Append(lines, snap), f).minutes <= SeasonOf(lines, f).minutes + Interval
    BY <1>1, <1>2, <1>5, <2>1, SeasonGoesOn
  <2>3. \A s : Season(s, f) => SeasonOf(s, f).minutes \in Int
    BY DEF Season, Row
  <2>. QED
    BY <2>1, <2>2, <2>3
<1>7. missed \in Seq(0 .. 2) /\ Len(missed) = n /\ skipped \in 0 .. 2
  BY DEF WatchInv, AllTold, TypesInv, RecordTypes
<1>8. Len(missed') = n + 1 /\ missed'[n + 1] = skipped /\ \A i \in 1 .. n : missed'[i] = missed[i]
  BY <1>7
<1>9. AllTold'
  BY <1>3, <1>6, <1>8 DEF AllTold
<1>10. Spread'
  <2>. SUFFICES ASSUME NEW i \in 2 .. n + 1, missed'[i] <= 1
                PROVE  lines'[i].at - lines'[i - 1].at <= Gap
    BY <1>3 DEF Spread
  <2>1. CASE i \in 2 .. n
    <3>1. i \in 1 .. n /\ i - 1 \in 1 .. n
      BY <1>1, <2>1
    <3>. QED
      BY <1>3, <1>8, <2>1, <3>1 DEF WatchInv, Spread
  <2>2. CASE i = n + 1
    <3>1. n \in 1 .. n /\ n # 0 /\ i - 1 = n /\ skipped <= 1
      BY <1>1, <1>8, <2>2
    <3>2. snap.at <= lines[n].at + Grace
      BY <1>4, <3>1 DEF WatchInv, Paced, NotAfter, Newest
    <3>3. Grace <= Gap /\ Grace \in Int /\ Gap \in Int
      BY Numbers DEF Grace
    <3>4. snap.at - lines[n].at <= Gap
      <4>1. lines[n].at \in Int
        BY <1>1, <3>1
      <4>. QED
        BY <1>2, <3>2, <3>3, <4>1
    <3>. QED
      BY <1>3, <2>2, <3>1, <3>4
  <2>. QED
    BY <1>1, <2>1, <2>2
<1>11. Newest' = snap.at
  BY <1>3 DEF Newest
<1>12. lines'[1].at \in Int
  <2>1. CASE n = 0
    BY <1>2, <1>3, <2>1
  <2>2. CASE n # 0
    <3>1. 1 \in 1 .. n
      BY <1>1, <2>2
    <3>. QED
      BY <1>1, <1>3, <3>1
  <2>. QED
    BY <2>1, <2>2
<1>13. ASSUME NEW f \in Recorded
       PROVE  SeasonOf(lines', f).minutes <= snap.at - lines'[1].at + Allowed(restarts + 1)
  <2>0. Allowed(restarts) \in Nat /\ Allowed(restarts + 1) = Allowed(restarts) + Interval /\ Interval \in Nat
    BY Numbers, Allowance
  <2>. DEFINE old == SeasonOf(lines, f).minutes
              new == SeasonOf(lines', f).minutes
  <2>3. new \in Int /\ old \in Int /\ new <= old + Interval
    BY <1>6
  <2>1. CASE n = 0
    <3>1. lines = <<>> /\ lines'[1] = snap
      BY <1>1, <1>3, <2>1
    <3>2. SeasonOf(lines, f).minutes = 0
      BY <3>1, RowOfNothing DEF Calm
    <3>. HIDE DEF old, new
    <3>3. new <= Interval /\ snap.at - lines'[1].at = 0
      BY <1>2, <2>0, <2>3, <3>1, <3>2 DEF old
    <3>4. Interval <= 0 + Allowed(restarts + 1)
      BY <2>0
    <3>. QED
      BY <2>0, <2>3, <3>3, <3>4 DEF new
  <2>2. CASE n # 0
    <3>1. 1 \in 1 .. n /\ n \in 1 .. n /\ lines'[1] = lines[1]
      BY <1>1, <1>3, <2>2
    <3>2. lines[1].at \in Int /\ lines[n].at \in Int
      BY <1>1, <3>1
    <3>3. \/ /\ lines[n].at + Interval <= snap.at
             /\ SeasonOf(lines, f).minutes <= lines[n].at - lines[1].at + Allowed(restarts + 1)
          \/ SeasonOf(lines, f).minutes <= lines[n].at - lines[1].at + Allowed(restarts)
      BY <1>4, <2>2 DEF WatchInv, Paced, NotBefore, Newest, Minuted, SeasonRow
    <3>. DEFINE a == lines[1].at
                b == lines[n].at
    <3>4. a \in Int /\ b \in Int /\ b <= snap.at /\ lines'[1].at = a
      BY <1>4, <2>2, <3>1, <3>2
    <3>5. \/ b + Interval <= snap.at /\ old <= b - a + Allowed(restarts + 1)
          \/ old <= b - a + Allowed(restarts)
      BY <3>3
    <3>. HIDE DEF n, a, b, old, new
    <3>6. new <= snap.at - a + Allowed(restarts + 1)
      BY <1>2, <2>0, <2>3, <3>4, <3>5, SMTT(30)
    <3>. QED
      BY <3>4, <3>6 DEF new
  <2>. QED
    BY <2>1, <2>2
<1>. QED
  BY <1>3, <1>6, <1>9, <1>10, <1>11, <1>12, <1>13

(* The steps that leave the lines alone.                                    *)
LEMMA QuietWatch ==
    ASSUME WatchInv, UNCHANGED <<clock, keys, logVars, snap, wakeAt, restarts, skipped, missed>>,
           at'[Recorder] = at[Recorder], Working' <=> Working
    PROVE  WatchInv'
<1>1. UNCHANGED <<lines, openEnd>>
  BY DEF logVars
<1>2. OneThing'
  BY <1>1 DEF WatchInv, OneThing
<1>3. Readable' <=> Readable
  BY <1>1 DEF Readable
<1>4. AllTold => AllTold'
  BY <1>1 DEF AllTold
<1>5. Spread => Spread'
  BY <1>1 DEF Spread
<1>6. /\ Newest' = Newest /\ Grace' = Grace /\ (\A f, n : Minuted(f, n)' <=> Minuted(f, n))
      /\ \A t : (NotBefore(t)' <=> NotBefore(t)) /\ (NotAfter(t)' <=> NotAfter(t))
  BY <1>1 DEF Newest, Grace, Minuted, SeasonRow, NotBefore, NotAfter
<1>7. Paced => Paced'
  BY <1>6 DEF Paced
<1>. QED
  BY <1>1, <1>2, <1>3, <1>4, <1>5, <1>7 DEF WatchInv

LEMMA LinesStay ==
    ASSUME TypesInv, WatchInv, OneThing', UNCHANGED <<logVars, missed>>, restarts' \in Nat,
           clock <= clock', clock' \in Nat,
           Readable /\ lines # <<>> /\ Paced =>
              /\ NotBefore(Newest)'
              /\ skipped' <= 1 => NotAfter(Newest + Grace)'
              /\ \/ restarts' = restarts /\ (NotBefore(Newest + Interval) => NotBefore(Newest + Interval)')
                 \/ restarts' = restarts + 1
    PROVE  WatchInv'
<1>1. UNCHANGED <<lines, openEnd>>
  BY DEF logVars
<1>2. Readable' <=> Readable
  BY <1>1 DEF Readable
<1>3. AllTold => AllTold'
  BY <1>1 DEF AllTold
<1>4. Spread => Spread'
  BY <1>1 DEF Spread
<1>5. Newest' = Newest /\ \A f, n : Minuted(f, n)' <=> Minuted(f, n)
  BY <1>1 DEF Newest, Minuted, SeasonRow
<1>6. ASSUME Readable, lines # <<>>, Paced PROVE Paced'
  <2>1. Newest \in Int
    <3>1. Len(lines) \in 1 .. Len(lines)
      BY <1>6, ReadableLines
    <3>. QED
      BY <1>6, <3>1, ReadableLines DEF Newest
  <2>2. Newest <= clock'
    BY <1>6, <2>1, Numbers DEF Paced
  <2>3. ASSUME NEW f \in Recorded, Minuted(f, restarts) PROVE Minuted(f, restarts + 1)
    <3>1. Season(lines, f)
      BY <1>6 DEF WatchInv, AllTold
    <3>2. SeasonRow(f).minutes \in Int /\ lines[1].at \in Int
      <4>1. 1 \in 1 .. Len(lines)
        BY <1>6, ReadableLines
      <4>. QED
        BY <1>6, <3>1, <4>1, SeasonTypes, ReadableLines
    <3>3. /\ Allowed(restarts) \in Nat /\ Allowed(restarts + 1) = Allowed(restarts) + Interval
          /\ Interval \in Nat
      BY Numbers, Allowance
    <3>. QED
      BY <2>1, <2>3, <3>2, <3>3 DEF Minuted
  <2>4. ASSUME NEW f \in Recorded
        PROVE  (NotBefore(Newest + Interval) /\ Minuted(f, restarts + 1))' \/ Minuted(f, restarts)'
    <3>1. (NotBefore(Newest + Interval) /\ Minuted(f, restarts + 1)) \/ Minuted(f, restarts)
      BY <1>6 DEF Paced
    <3>2. CASE restarts' = restarts /\ (NotBefore(Newest + Interval) => NotBefore(Newest + Interval)')
      <4>1. NotBefore(Newest + Interval) /\ Minuted(f, restarts + 1)
               => NotBefore(Newest + Interval)' /\ Minuted(f, restarts + 1)'
        BY <1>5, <3>2
      <4>2. Minuted(f, restarts) => Minuted(f, restarts)'
        BY <1>5, <3>2
      <4>. QED
        BY <3>1, <4>1, <4>2
    <3>3. CASE restarts' = restarts + 1
      <4>1. Minuted(f, restarts + 1)
        BY <2>3, <3>1
      <4>. QED
        BY <1>1, <3>3, <4>1 DEF Minuted, SeasonRow, Newest
    <3>. QED
      BY <1>6, <3>2, <3>3
  <2>. QED
    BY <1>1, <1>5, <1>6, <2>2, <2>4 DEF Paced
<1>. QED
  BY <1>1, <1>2, <1>3, <1>4, <1>6 DEF WatchInv

(* A step of a call leaves the recorder where it is.                        *)
LEMMA CallWatch ==
    ASSUME TypesInv, WatchInv, NEW c \in Callers, AskFeeds(c)
    PROVE  WatchInv'
<1>1. pc[c] # "idle" /\ CallStep(c) /\ UNCHANGED <<logVars, at, recorder>>
  BY DEF AskFeeds
<1>2. UNCHANGED <<clock, keys>>
  BY <1>1, Zenon DEF CallStep, AskForecast, ForecastCached, ForecastWithoutKey, EnterForecast, PullForecast,
     LeaveForecast, ReadForecast, AlertCached, AlertWithoutKey, EnterAlert, PullAlert, sources
<1>3. c = Recorder => "HRFCO" \in keys
  BY <1>1 DEF WatchInv, OneThing, Working
<1>4. PICK p : pc' = [pc EXCEPT ![c] = p] /\ ("HRFCO" \in keys => p # "idle")
  <2>1. CASE AskForecast(c)
    BY <1>1, <2>1 DEF AskForecast
  <2>2. CASE ForecastCached(c) \/ ForecastWithoutKey(c) \/ ReadForecast(c)
    <3>1. \E rows : HaveForecast(c, rows)
      BY <2>2 DEF ForecastCached, ForecastWithoutKey, ReadForecast
    <3>. QED
      BY <3>1 DEF HaveForecast
  <2>3. CASE EnterForecast(c) \/ PullForecast(c) \/ AlertCached(c) \/ AlertWithoutKey(c)
             \/ EnterAlert(c) \/ PullAlert(c)
    BY <2>3 DEF EnterForecast, PullForecast, LeaveForecast, AlertCached, AlertWithoutKey,
       EnterAlert, PullAlert, HaveAlert
  <2>. QED
    BY <1>1, <2>1, <2>2, <2>3 DEF CallStep
<1>5. pc \in [Callers -> Places] /\ Recorder \in Callers
  BY Numbers DEF TypesInv, FeedTypes
<1>6. Working' <=> Working
  <2>1. CASE c = Recorder
    BY <1>1, <1>3, <1>4, <1>5, <2>1 DEF Working
  <2>2. CASE c # Recorder
    BY <1>4, <1>5, <2>2 DEF Working
  <2>. QED
    BY <2>1, <2>2
<1>. QED
  BY <1>1, <1>2, <1>6, QuietWatch DEF recorder

LEMMA AssessWatch ==
    ASSUME TypesInv, WatchInv, NEW c \in Callers, Assess(c)
    PROVE  WatchInv'
<1>1. /\ UNCHANGED <<clock, keys, logVars, snap, restarts, skipped, missed>>
      /\ pc[c] = "idle" /\ pc' = [pc EXCEPT ![c] = "forecast"]
      /\ at' = [at EXCEPT ![c] = IF "HRFCO" \in keys THEN clock ELSE 0]
      /\ wakeAt' = IF c = Recorder THEN None ELSE wakeAt
      /\ c = Recorder => Due /\ "HRFCO" \in keys
  BY DEF Assess, AskForecast, sources
<1>2. pc \in [Callers -> Places] /\ at \in [Callers -> Time] /\ Recorder \in Callers
  BY Numbers DEF TypesInv, FeedTypes, RecordTypes
<1>3. CASE c # Recorder
  <2>1. at'[Recorder] = at[Recorder] /\ (Working' <=> Working) /\ wakeAt' = wakeAt
    BY <1>1, <1>2, <1>3 DEF Working
  <2>. QED
    BY <1>1, <2>1, QuietWatch
<1>4. CASE c = Recorder
  <2>1. /\ wakeAt # None /\ wakeAt = clock /\ wakeAt' = None /\ at'[Recorder] = clock
        /\ Working' /\ ~Working /\ snap = None /\ snap' = None /\ "HRFCO" \in keys'
    <3>1. wakeAt # None /\ wakeAt <= clock /\ clock <= wakeAt
      BY <1>1, <1>4 DEF Due, WatchInv, OneThing
    <3>2. wakeAt = clock
      <4>1. wakeAt \in Nat /\ clock \in Nat
        BY <3>1, Numbers
      <4>. QED
        BY <3>1, <4>1
    <3>3. Working' /\ ~Working
      BY <1>1, <1>2, <1>4 DEF Working
    <3>4. at'[Recorder] = clock /\ wakeAt' = None
      BY <1>1, <1>2, <1>4
    <3>. QED
      BY <1>1, <1>4, <3>1, <3>2, <3>3, <3>4 DEF WatchInv, OneThing
  <2>2. OneThing'
    BY <1>1, <2>1, Numbers DEF OneThing
  <2>3. \A t : (NotBefore(t) => NotBefore(t)') /\ (NotAfter(t) => NotAfter(t)')
    BY <2>1 DEF NotBefore, NotAfter
  <2>4. Readable /\ lines # <<>> /\ Paced =>
              /\ NotBefore(Newest)'
              /\ skipped' <= 1 => NotAfter(Newest + Grace)'
              /\ NotBefore(Newest + Interval) => NotBefore(Newest + Interval)'
    <3>1. Newest' = Newest /\ Grace' = Grace /\ skipped' = skipped
      BY <1>1 DEF Newest, Grace, logVars
    <3>. QED
      BY <2>1, <2>3, <3>1 DEF Paced, NotBefore, NotAfter
  <2>5. clock <= clock' /\ clock' \in Nat /\ restarts' \in Nat /\ UNCHANGED <<logVars, missed>>
        /\ restarts' = restarts
    BY <1>1, Numbers
  <2>. QED
    BY <2>2, <2>4, <2>5, LinesStay
<1>. QED
  BY <1>3, <1>4

LEMMA JudgeWatch ==
    ASSUME TypesInv, WatchInv, NEW c \in Callers, Judge(c)
    PROVE  WatchInv'
<1>1. /\ UNCHANGED <<clock, keys, logVars, wakeAt, restarts, skipped, missed>>
      /\ pc[c] = "judge" /\ pc' = [pc EXCEPT ![c] = "idle"]
      /\ at' = [at EXCEPT ![c] = 0]
      /\ IF c = Recorder THEN \E r \in Readings : snap' = LineOf(c, r) ELSE snap' = snap
  BY DEF Judge, Judged, sources
<1>2. pc \in [Callers -> Places] /\ at \in [Callers -> Time] /\ Recorder \in Callers
  BY Numbers DEF TypesInv, FeedTypes, RecordTypes
<1>3. CASE c # Recorder
  <2>1. at'[Recorder] = at[Recorder] /\ (Working' <=> Working) /\ snap' = snap
    BY <1>1, <1>2, <1>3 DEF Working
  <2>. QED
    BY <1>1, <2>1, QuietWatch
<1>4. CASE c = Recorder
  <2>1. snap'.at = at[Recorder]
    BY <1>1, <1>4 DEF LineOf
  <2>2. Working /\ ~Working'
    BY <1>1, <1>2, <1>4 DEF Working
  <2>3. wakeAt = None /\ wakeAt' = None /\ snap = None /\ "HRFCO" \in keys' /\ clock' = clock
        /\ at[Recorder] <= clock /\ clock <= at[Recorder] + MaxWork
    BY <1>1, <2>2 DEF WatchInv, OneThing
  <2>4. OneThing'
    BY <2>1, <2>2, <2>3 DEF OneThing
  <2>5. \A t : (NotBefore(t) => NotBefore(t)') /\ (NotAfter(t) => NotAfter(t)')
    BY <2>1, <2>2, <2>3 DEF NotBefore, NotAfter
  <2>6. Newest' = Newest /\ Grace' = Grace /\ skipped' = skipped
    BY <1>1 DEF Newest, Grace, logVars
  <2>7. Readable /\ lines # <<>> /\ Paced =>
              /\ NotBefore(Newest)'
              /\ skipped' <= 1 => NotAfter(Newest + Grace)'
              /\ NotBefore(Newest + Interval) => NotBefore(Newest + Interval)'
    BY <2>1, <2>2, <2>3, <2>6 DEF Paced, NotBefore, NotAfter
  <2>8. clock <= clock' /\ clock' \in Nat /\ restarts' \in Nat /\ UNCHANGED <<logVars, missed>>
        /\ restarts' = restarts
    BY <1>1, Numbers
  <2>. QED
    BY <2>4, <2>7, <2>8, LinesStay
<1>. QED
  BY <1>3, <1>4

LEMMA KeylessWatch ==
    ASSUME TypesInv, WatchInv, RecordNothing
    PROVE  WatchInv'
<1>1. /\ UNCHANGED <<clock, keys, logVars, at, snap, restarts, skipped, missed, pc>>
      /\ Due /\ "HRFCO" \notin keys /\ wakeAt' = clock + Interval
  BY DEF RecordNothing, feedVars, sources, calls
<1>2. lines = <<>> /\ snap = None /\ ~Working /\ wakeAt # None
  BY <1>1 DEF WatchInv, OneThing, Due
<1>3. clock \in Nat /\ Interval \in Nat /\ restarts \in Nat
  BY Numbers
<1>4. OneThing'
  BY <1>1, <1>2, <1>3 DEF OneThing, Working, logVars
<1>. QED
  BY <1>1, <1>2, <1>3, <1>4, LinesStay

LEMMA TickWatch ==
    ASSUME TypesInv, WatchInv, BoardTick
    PROVE  WatchInv'
<1>1. /\ ~Due /\ snap = None /\ clock' = clock + 1
      /\ Working /\ "HRFCO" \in keys => clock < at[Recorder] + MaxWork
      /\ UNCHANGED <<keys, pc, logVars, at, recorder>>
  <2>1. Recorder \in Callers
    BY Numbers
  <2>. QED
    BY <2>1 DEF BoardTick, Tick, Working, sources, calls
<1>2. UNCHANGED <<snap, wakeAt, restarts, skipped, missed, lines, openEnd>>
  BY <1>1 DEF recorder, logVars
<1>3. /\ clock \in Nat /\ restarts \in Nat /\ wakeAt \in Nat \cup {None} /\ at[Recorder] \in Nat
      /\ MaxWork \in Nat
  BY Numbers
<1>4. wakeAt # None => clock < wakeAt
  BY <1>1, <1>3 DEF Due
<1>5. OneThing'
  <2>1. Working' <=> Working
    BY <1>1 DEF Working
  <2>2. wakeAt # None => clock' <= wakeAt
    BY <1>1, <1>3, <1>4
  <2>3. Working => at[Recorder] <= clock' /\ clock' <= at[Recorder] + MaxWork
    BY <1>1, <1>3 DEF WatchInv, OneThing
  <2>. QED
    BY <1>1, <1>2, <2>1, <2>2, <2>3 DEF WatchInv, OneThing
<1>6. /\ Newest' = Newest /\ Grace' = Grace
      /\ \A t : (NotBefore(t)' <=> NotBefore(t)) /\ (NotAfter(t)' <=> NotAfter(t))
  BY <1>1, <1>2 DEF Newest, Grace, NotBefore, NotAfter, Working
<1>7. Readable /\ lines # <<>> /\ Paced =>
              /\ NotBefore(Newest)'
              /\ skipped' <= 1 => NotAfter(Newest + Grace)'
              /\ NotBefore(Newest + Interval) => NotBefore(Newest + Interval)'
  BY <1>1, <1>2 DEF Paced, NotBefore, NotAfter, Newest, Grace, Working
<1>8. clock <= clock' /\ clock' \in Nat /\ restarts' \in Nat /\ UNCHANGED <<logVars, missed>> /\ restarts' = restarts
  BY <1>1, <1>2, <1>3
<1>. QED
  BY <1>5, <1>7, <1>8, LinesStay

(* The moments of the next line lie around now.                             *)
LEMMA AroundNow ==
    ASSUME TypesInv, WatchInv, NEW t \in Int
    PROVE  /\ NotAfter(t) /\ On => clock <= t + MaxWork
           /\ NotBefore(t) /\ (Working \/ snap # None) => t <= clock
<1>1. /\ clock \in Nat /\ MaxWork \in Nat /\ at[Recorder] \in Nat /\ wakeAt \in Nat \cup {None}
      /\ snap # None => snap.at \in Int
  BY Numbers
<1>. QED
  BY <1>1 DEF WatchInv, OneThing, NotAfter, NotBefore, On, Working

LEMMA FailWatch ==
    ASSUME TypesInv, WatchInv, SnapshotFails
    PROVE  WatchInv'
<1>1. /\ snap' = None /\ skipped' = More /\ wakeAt' = clock + Interval
      /\ UNCHANGED <<clock, keys, logVars, restarts, missed>>
      /\ ~Working' /\ (Working \/ snap # None)
  <2>1. CASE Judged(Recorder)
    <3>1. pc[Recorder] = "judge" /\ pc' = [pc EXCEPT ![Recorder] = "idle"] /\ UNCHANGED <<clock, keys>>
      BY <2>1 DEF Judged, sources
    <3>2. pc \in [Callers -> Places] /\ Recorder \in Callers
      BY Numbers DEF TypesInv, FeedTypes
    <3>. QED
      BY <3>1, <3>2 DEF SnapshotFails, Fail, Working
  <2>2. CASE snap # None /\ UNCHANGED <<feedVars, at>>
    <3>1. ~Working /\ UNCHANGED <<clock, keys, pc>>
      BY <2>2 DEF WatchInv, OneThing, feedVars, sources, calls
    <3>. QED
      BY <2>2, <3>1 DEF SnapshotFails, Fail, Working
  <2>. QED
    BY <2>1, <2>2 DEF SnapshotFails, Fail
<1>2. /\ clock \in Nat /\ restarts \in Nat /\ skipped \in 0 .. 2 /\ Interval \in Nat /\ MaxWork \in Nat
      /\ None \notin Int
  BY Numbers
<1>3. OneThing'
  BY <1>1, <1>2 DEF WatchInv, OneThing, logVars
<1>4. \A t \in Int : t <= clock + Interval => NotBefore(t)'
  BY <1>1 DEF NotBefore
<1>5. \A t \in Int : clock + Interval <= t => NotAfter(t)'
  BY <1>1 DEF NotAfter
<1>6. ASSUME Readable, lines # <<>>, Paced
      PROVE  /\ NotBefore(Newest)'
             /\ skipped' <= 1 => NotAfter(Newest + Grace)'
             /\ NotBefore(Newest + Interval) => NotBefore(Newest + Interval)'
  <2>1. Newest \in Int /\ Newest' = Newest /\ Newest <= clock
    <3>1. Len(lines) \in 1 .. Len(lines)
      BY <1>6, ReadableLines
    <3>. QED
      BY <1>1, <1>6, <3>1, ReadableLines DEF Newest, Paced, logVars
  <2>2. NotBefore(Newest)'
    BY <1>1, <1>2, <1>4, <2>1 DEF NotBefore
  <2>3. NotBefore(Newest + Interval)'
    BY <1>1, <1>2, <1>4, <2>1 DEF NotBefore
  <2>4. ASSUME skipped' <= 1 PROVE NotAfter(Newest + Grace)'
    <3>1. skipped = 0 /\ skipped' = 1
      BY <1>1, <1>2, <2>4 DEF More
    <3>2. Grace = Interval + MaxWork /\ Grace' = 2 * (Interval + MaxWork)
      BY <3>1 DEF Grace
    <3>3. NotAfter(Newest + Grace) /\ Newest + Grace \in Int
      BY <1>2, <1>6, <2>1, <3>1, <3>2 DEF Paced
    <3>4. clock <= Newest + Grace + MaxWork
      BY <1>1, <3>3, AroundNow DEF On, Working
    <3>5. clock + Interval <= Newest + Grace'
      BY <1>2, <2>1, <3>2, <3>4
    <3>. QED
      BY <1>1, <2>1, <3>5 DEF NotAfter
  <2>. QED
    BY <2>2, <2>3, <2>4
<1>7. clock <= clock' /\ clock' \in Nat /\ restarts' \in Nat /\ UNCHANGED <<logVars, missed>> /\ restarts' = restarts
  BY <1>1, <1>2
<1>. QED
  BY <1>3, <1>6, <1>7, LinesStay

(* The steps that write: the line, or a part of it.                         *)
LEMMA Appended ==
    ASSUME TypesInv, WatchInv, snap # None, AppendLine(snap), Readable'
    PROVE  ~openEnd /\ openEnd' = FALSE /\ Readable /\ snap # Torn /\ lines' = Append(lines, snap)
           /\ lines' # lines
<1>. DEFINE S == Snapshot \cup {Torn}
<1>1. lines \in Seq(S) /\ snap \in S
  BY DEF TypesInv, RecordTypes
<1>. HIDE DEF S
<1>2. ~openEnd
  <2>. SUFFICES ASSUME openEnd PROVE FALSE
    OBVIOUS
  <2>1. lines' = lines /\ ~Readable
    BY DEF AppendLine, WatchInv
  <2>. QED
    BY <2>1 DEF Readable
<1>3. lines' = Append(lines, snap) /\ openEnd' = FALSE
  BY <1>2 DEF AppendLine
<1>4. /\ \A i \in DOMAIN lines : i \in DOMAIN lines' /\ lines'[i] = lines[i]
      /\ Len(lines) + 1 \in DOMAIN lines' /\ lines'[Len(lines) + 1] = snap
      /\ Len(lines') = Len(lines) + 1 /\ Len(lines) \in Nat
  BY <1>1, <1>3
<1>5. lines' # lines
  <2>1. Len(lines') # Len(lines)
    BY <1>4
  <2>. QED
    BY <2>1
<1>. QED
  BY <1>2, <1>3, <1>4, <1>5 DEF Readable

LEMMA TornIsUnreadable ==
    ASSUME TypesInv, WatchInv, TearLine
    PROVE  ~Readable'
<1>1. CASE openEnd
  <2>1. lines' = lines /\ ~Readable
    BY <1>1 DEF TearLine, WatchInv
  <2>. QED
    BY <2>1 DEF Readable
<1>2. CASE ~openEnd
  <2>1. lines' = Append(lines, Torn) /\ lines \in Seq(Snapshot \cup {Torn})
    BY <1>2 DEF TearLine, TypesInv, RecordTypes
  <2>2. Len(lines) + 1 \in DOMAIN lines' /\ lines'[Len(lines) + 1] = Torn
    BY <2>1
  <2>. QED
    BY <2>2 DEF Readable
<1>. QED
  BY <1>1, <1>2

LEMMA RecordWatch ==
    ASSUME TypesInv, WatchInv, Record
    PROVE  WatchInv'
<1>1. /\ snap # None /\ AppendLine(snap) /\ snap' = None /\ skipped' = 0 /\ wakeAt' = clock + Interval
      /\ missed' = IF lines' = lines THEN missed ELSE Append(missed, skipped)
      /\ UNCHANGED <<clock, keys, pc, at, restarts>>
  BY DEF Record, Write, feedVars, sources, calls
<1>2. /\ clock \in Nat /\ snap.at \in Int /\ Interval \in Nat /\ MaxWork \in Nat /\ None \notin Int
  BY <1>1, Numbers
<1>3. ~Working /\ ~Working' /\ "HRFCO" \in keys /\ snap.at <= clock /\ clock <= snap.at + MaxWork
  BY <1>1 DEF WatchInv, OneThing, Working
<1>4. OneThing'
  BY <1>1, <1>2, <1>3 DEF OneThing
<1>5. ~openEnd'
  BY <1>1 DEF AppendLine
<1>6. ASSUME Readable' PROVE (AllTold /\ Spread /\ Paced)'
  <2>1. Readable /\ snap # Torn /\ lines' = Append(lines, snap) /\ missed' = Append(missed, skipped)
    BY <1>1, <1>6, Appended
  <2>2. /\ AllTold' /\ Spread' /\ Newest' = snap.at
        /\ \A f \in Recorded :
              SeasonOf(lines', f).minutes <= snap.at - lines'[1].at + Allowed(restarts + 1)
    BY <1>1, <2>1, LineAdded
  <2>3. \A f \in Recorded : Minuted(f, restarts + 1)'
    BY <1>1, <2>2 DEF Minuted, SeasonRow
  <2>4. NotBefore(Newest)' /\ NotBefore(Newest + Interval)'
    BY <1>1, <1>2, <1>3, <2>2 DEF NotBefore
  <2>5. NotAfter(Newest + Grace)'
    <3>1. Grace' = Interval + MaxWork
      BY <1>1 DEF Grace
    <3>. QED
      BY <1>1, <1>2, <1>3, <2>2, <3>1 DEF NotAfter
  <2>6. Paced'
    BY <1>1, <1>3, <2>2, <2>3, <2>4, <2>5 DEF Paced
  <2>. QED
    BY <2>2, <2>6
<1>. QED
  BY <1>4, <1>5, <1>6 DEF WatchInv

LEMMA RestartWatch ==
    ASSUME TypesInv, WatchInv, Restart
    PROVE  WatchInv'
<1>1. /\ restarts' = restarts + 1 /\ snap' = None /\ skipped' = More
      /\ wakeAt' = IF On THEN clock + FirstSleep ELSE None
      /\ UNCHANGED <<clock, keys>>
      /\ \/ UNCHANGED <<logVars, missed>>
         \/ snap # None /\ AppendLine(snap) /\ missed' = Append(missed, skipped)
         \/ snap # None /\ TearLine /\ missed' = Append(missed, skipped)
  BY DEF Restart, sources
<1>2. /\ clock \in Nat /\ restarts \in Nat /\ skipped \in 0 .. 2 /\ (snap # None => snap.at \in Int)
      /\ FirstSleep \in Nat /\ FirstSleep <= Interval /\ Interval \in Nat /\ MaxWork \in Nat
      /\ None \notin Int
  BY Numbers
<1>3. ~Working'
  <2>1. pc' = [c \in Callers |-> "idle"] /\ Recorder \in Callers
    BY Numbers DEF Restart
  <2>. QED
    BY <2>1 DEF Working
<1>4. "HRFCO" \notin keys => lines' = <<>>
  <2>1. "HRFCO" \notin keys => lines = <<>> /\ snap = None
    BY DEF WatchInv, OneThing
  <2>. QED
    BY <1>1, <2>1 DEF logVars
<1>5. OneThing'
  BY <1>1, <1>2, <1>3, <1>4 DEF OneThing
<1>6. snap # None => On /\ snap.at <= clock /\ clock <= snap.at + MaxWork /\ wakeAt' = clock + FirstSleep
  BY <1>1 DEF On, WatchInv, OneThing
<1>7. skipped' \in 1 .. 2 /\ (skipped' = 1 => skipped = 0)
  BY <1>1, <1>2 DEF More
<1>8. Grace' = 2 * (Interval + MaxWork)
  BY <1>7 DEF Grace
<1>9. CASE UNCHANGED <<logVars, missed>>
  <2>1. ASSUME Readable, lines # <<>>, Paced
        PROVE  NotBefore(Newest)' /\ (skipped' <= 1 => NotAfter(Newest + Grace)')
    <3>1. Newest \in Int /\ Newest' = Newest /\ Newest <= clock
      <4>1. Len(lines) \in 1 .. Len(lines)
        BY <2>1, ReadableLines
      <4>. QED
        BY <1>9, <2>1, <4>1, ReadableLines DEF Newest, Paced, logVars
    <3>2. NotBefore(Newest)'
      BY <1>1, <1>2, <1>3, <3>1 DEF NotBefore
    <3>3. ASSUME skipped' <= 1 PROVE NotAfter(Newest + Grace)'
      <4>1. skipped = 0
        BY <1>7, <3>3
      <4>2. Grace = Interval + MaxWork
        BY <4>1 DEF Grace
      <4>3. NotAfter(Newest + Grace) /\ Newest + Grace \in Int
        BY <1>2, <2>1, <3>1, <4>1, <4>2 DEF Paced
      <4>4. On => clock <= Newest + Grace + MaxWork
        BY <4>3, AroundNow
      <4>5. On => clock + FirstSleep <= Newest + Grace'
        BY <1>2, <1>8, <3>1, <4>2, <4>4
      <4>. QED
        BY <1>1, <1>3, <3>1, <4>5 DEF NotAfter
    <3>. QED
      BY <3>2, <3>3
  <2>2. clock <= clock' /\ clock' \in Nat /\ restarts' \in Nat
    BY <1>1, <1>2
  <2>. QED
    BY <1>1, <1>5, <1>9, <2>1, <2>2, LinesStay
<1>10. CASE snap # None /\ AppendLine(snap) /\ missed' = Append(missed, skipped)
  <2>1. ~openEnd'
    BY <1>10 DEF AppendLine
  <2>2. ASSUME Readable' PROVE (AllTold /\ Spread /\ Paced)'
    <3>1. Readable /\ snap # Torn /\ lines' = Append(lines, snap)
      BY <1>10, <2>2, Appended
    <3>2. /\ AllTold' /\ Spread' /\ Newest' = snap.at
          /\ \A f \in Recorded :
                SeasonOf(lines', f).minutes <= snap.at - lines'[1].at + Allowed(restarts + 1)
      BY <1>10, <3>1, LineAdded
    <3>3. \A f \in Recorded : Minuted(f, restarts)'
      BY <1>1, <3>2 DEF Minuted, SeasonRow
    <3>4. NotBefore(Newest)'
      BY <1>1, <1>2, <1>3, <1>6, <1>10, <3>2 DEF NotBefore
    <3>5. NotAfter(Newest + Grace)'
      BY <1>1, <1>2, <1>3, <1>6, <1>8, <1>10, <3>2 DEF NotAfter
    <3>6. Paced'
      BY <1>1, <1>6, <1>10, <3>2, <3>3, <3>4, <3>5 DEF Paced
    <3>. QED
      BY <3>2, <3>6
  <2>. QED
    BY <1>5, <2>1, <2>2 DEF WatchInv
<1>11. CASE snap # None /\ TearLine /\ missed' = Append(missed, skipped)
  <2>1. ~Readable'
    BY <1>11, TornIsUnreadable
  <2>. QED
    BY <1>5, <2>1 DEF WatchInv
<1>. QED
  BY <1>1, <1>9, <1>10, <1>11

LEMMA StepWatch ==
    ASSUME TypesInv, WatchInv, [BoardNext]_boardVars
    PROVE  WatchInv'
<1>1. ASSUME UNCHANGED <<clock, keys, logVars, snap, wakeAt, restarts, skipped, missed, at, pc>> PROVE WatchInv'
  <2>1. Working' <=> Working
    BY <1>1 DEF Working
  <2>. QED
    BY <1>1, <2>1, QuietWatch
<1>2. CASE \E c \in Callers : Assess(c) \/ AskFeeds(c) \/ Judge(c)
  BY <1>2, AssessWatch, CallWatch, JudgeWatch
<1>3. CASE SourceStep /\ UNCHANGED <<logVars, at, recorder>>
  <2>1. UNCHANGED <<clock, keys, pc>>
    BY <1>3 DEF SourceStep, Issue, Announce, calls
  <2>. QED
    BY <1>1, <1>3, <2>1 DEF recorder
<1>4. CASE UNCHANGED boardVars
  BY <1>1, <1>4 DEF boardVars, feedVars, sources, calls, recorder
<1>. QED
  BY <1>2, <1>3, <1>4, KeylessWatch, RecordWatch, FailWatch, RestartWatch, TickWatch DEF BoardNext

LEMMA StartWatch == BoardInit => WatchInv
<1>. SUFFICES ASSUME BoardInit PROVE WatchInv
  OBVIOUS
<1>1. /\ lines = <<>> /\ openEnd = FALSE /\ clock = 0 /\ snap = None /\ missed = <<>>
      /\ wakeAt \in {FirstSleep, None} /\ pc = [c \in Callers |-> "idle"]
  BY DEF BoardInit, FeedsInit, LogInit
<1>2. FirstSleep \in Nat /\ Recorder \in Callers
  BY BoardAssumption DEF BoardAssumption
<1>3. ~Working
  BY <1>1, <1>2 DEF Working
<1>4. OneThing
  BY <1>1, <1>2, <1>3 DEF OneThing
<1>5. AllTold /\ Spread
  <2>1. Len(<<>>) = 0 /\ 2 .. 0 = {}
    OBVIOUS
  <2>. QED
    BY <1>1, <2>1, SeasonStarts DEF AllTold, Spread
<1>. QED
  BY <1>1, <1>4, <1>5 DEF WatchInv

-----------------------------------------------------------------------------
(* What the recorder hears of a forecast.  One issued Refresh before t is   *)
(* still listed when an assessment that began at t is over; the history is  *)
(* clean when no pull has failed since.                                     *)
Standing(t) ==
    /\ commands # <<>> /\ Last(commands).level # None
    /\ Last(commands).at + Refresh <= t /\ t + MaxWork < Last(commands).at + Listed
Clean(t) == Standing(t) /\ ~since.forecast.failed

ReadOnce ==
    LET h == since.forecast
    IN /\ h.wiped => h.failed
       /\ h.listed # None => h.listed <= clock
       /\ ff.at # None => ff.at <= clock
       /\ (commands # <<>> /\ "HRFCO" \in keys /\ ff.at # None /\ ~h.failed /\ ff.at > Last(commands).at)
             => h.listed # None

Shown(s) == Clean(s.at) => \A f \in Recorded : Route(f) = "river" /\ Alarms(s, f) => s.official[f]
AsksNow == pc[Recorder] = "forecast" => now[Recorder] = at[Recorder]
HasList == pc[Recorder] = "forecastRead" /\ Clean(at[Recorder]) => since.forecast.listed # None
HasForecast ==
    pc[Recorder] \in {"alert", "alertPull", "judge"} /\ Clean(at[Recorder]) => official[Recorder] # None
Written ==
    /\ snap # None => Shown(snap)
    /\ Readable => \A i \in DOMAIN lines : lines[i].at <= clock /\ Shown(lines[i])

(* How a step changes what is issued and what was heard of it: not at all,  *)
(* a pull ends, a command is issued, or the process starts again.           *)
Unmoved == commands' = commands /\ since'.forecast = since.forecast
Answered ==
    /\ commands' = commands
    /\ \/ commands = <<>>
       \/ since'.forecast.failed = TRUE
       \/ since'.forecast.failed = since.forecast.failed /\ since'.forecast.listed = clock
Commanded == commands' # <<>> /\ Last(commands').at = clock
Forgotten ==
    /\ commands' = commands /\ since'.forecast.failed = since.forecast.failed
    /\ pc'[Recorder] = "idle"

LEMMA PullAnswers ==
    ASSUME FeedTypes, ExplainInv, NEW c \in Callers, PullForecast(c)
    PROVE  /\ Answered
           /\ ReadOnce => ReadOnce'
<1>. DEFINE h == since.forecast
            Says(l, w, f) == [listed |-> l, wiped |-> w, failed |-> f]
            To(told) == [forecast |-> IF commands = <<>> THEN Unheard ELSE told,
                         alertRead |-> since.alertRead]
<1>1. UNCHANGED <<clock, keys, commands>> /\ AnswerForecast(c)
  BY DEF PullForecast, LeaveForecast, sources
<1>2. h \in Hearing /\ clock \in Int /\ now[c] \in Int /\ now[c] <= clock /\ None \notin Int
  BY TimeIsNat, FeedsAssumption DEF ExplainInv, Past, FeedTypes, FeedsAssumption
<1>3. \/ ff' = [at |-> now[c], rows |-> ForecastList] /\ since' = To(Says(clock, FALSE, h.failed))
      \/ ff' = [at |-> now[c], rows |-> <<>>] /\ since' = To(Says(h.listed, TRUE, TRUE))
      \/ ff' = [at |-> now[c], rows |-> ff.rows] /\ since' = To(Says(h.listed, h.wiped, TRUE))
  BY <1>1 DEF AnswerForecast, ForecastRows, Heard
<1>4. ff'.at = now[c]
  <2>. DEFINE rows1 == ForecastList
  <2>. HIDE DEF rows1
  <2>1. \E r : ff' = [at |-> now[c], rows |-> r]
    BY <1>3
  <2>. QED
    BY <2>1
<1>5. CASE commands = <<>>
  <2>1. since' = To(Unheard)
    BY <1>3, <1>5
  <2>2. since'.forecast = Unheard
    BY <1>5, <2>1
  <2>3. since'.forecast.wiped = FALSE /\ since'.forecast.listed = None
    BY <2>2 DEF Unheard
  <2>. HIDE DEF h, To, Says
  <2>4. Answered
    BY <1>1, <1>5 DEF Answered
  <2>5. ReadOnce'
    BY <1>1, <1>2, <1>4, <1>5, <2>3 DEF ReadOnce
  <2>. QED
    BY <2>4, <2>5
<1>6. CASE commands # <<>>
  <2>0. \A told : since' = To(told) => since'.forecast = told
    BY <1>6
  <2>1. \/ since'.forecast = Says(clock, FALSE, h.failed)
        \/ since'.forecast = Says(h.listed, TRUE, TRUE)
        \/ since'.forecast = Says(h.listed, h.wiped, TRUE)
    <3>. HIDE DEF Says, To, h
    <3>. QED
      BY <1>3, <2>0
  <2>2. \/ /\ since'.forecast.listed = clock /\ since'.forecast.wiped = FALSE
           /\ since'.forecast.failed = h.failed
        \/ since'.forecast.listed = h.listed /\ since'.forecast.failed = TRUE
    BY <2>1
  <2>. HIDE DEF h, To, Says
  <2>3. Answered
    BY <1>1, <2>2 DEF Answered, h
  <2>4. ReadOnce => ReadOnce'
    BY <1>1, <1>2, <1>4, <2>2 DEF ReadOnce, h
  <2>. QED
    BY <2>3, <2>4
<1>. QED
  BY <1>5, <1>6

(* The other steps of a call.                                               *)
LEMMA CallUnmoved ==
    ASSUME FeedTypes, ExplainInv, NEW c \in Callers,
           \/ AskForecast(c) \/ ForecastCached(c) \/ ForecastWithoutKey(c) \/ EnterForecast(c)
           \/ ReadForecast(c) \/ AlertCached(c) \/ AlertWithoutKey(c) \/ EnterAlert(c)
           \/ PullAlert(c) \/ Judged(c)
    PROVE  /\ Unmoved
           /\ ReadOnce => ReadOnce'
<1>1. UNCHANGED <<clock, keys, commands>>
  BY Zenon DEF AskForecast, ForecastCached, ForecastWithoutKey, EnterForecast, ReadForecast, AlertCached,
     AlertWithoutKey, EnterAlert, PullAlert, Judged, sources
<1>2. since'.forecast = since.forecast
  <2>1. CASE since' = since
    BY <2>1
  <2>2. CASE since' = [since EXCEPT !.alertRead = TRUE]
    <3>1. since \in [forecast : Hearing, alertRead : BOOLEAN]
      BY DEF ExplainInv
    <3>. QED
      BY <2>2, <3>1
  <2>. QED
    BY <2>1, <2>2 DEF AskForecast, ForecastCached, ForecastWithoutKey, EnterForecast, ReadForecast,
       AlertCached, AlertWithoutKey, EnterAlert, PullAlert, Judged, caches
<1>3. \/ ff' = ff
      \/ "HRFCO" \notin keys /\ ff' = [at |-> now[c], rows |-> <<>>]
  BY DEF AskForecast, ForecastCached, ForecastWithoutKey, EnterForecast, ReadForecast,
       AlertCached, AlertWithoutKey, EnterAlert, PullAlert, Judged, caches
<1>4. now[c] <= clock
  BY DEF ExplainInv, Past
<1>5. ff'.at = ff.at \/ ("HRFCO" \notin keys /\ ff'.at = now[c])
  BY <1>3
<1>. QED
  BY <1>1, <1>2, <1>4, <1>5 DEF Unmoved, ReadOnce

LEMMA SourceMoves ==
    ASSUME FeedTypes, ExplainInv, ReadOnce, SourceStep
    PROVE  ReadOnce' /\ (Unmoved \/ Commanded)
<1>1. PICK level \in Levels \cup {None} :
         Issue(level) \/ \E from \in {clock, clock + 1} : Announce(level, from)
  BY DEF SourceStep
<1>2. /\ UNCHANGED <<clock, keys, ff>> /\ commands \in Seq(Command)
      /\ since \in [forecast : Hearing, alertRead : BOOLEAN]
      /\ clock \in Int /\ ff.at \in Int \cup {None} /\ None \notin Int
  BY <1>1, TimeIsNat, FeedsAssumption DEF Issue, Announce, ExplainInv, FeedTypes, FeedsAssumption
<1>3. CASE Issue(level)
  <2>. DEFINE new == [at |-> clock, level |-> level]
  <2>1. commands' = Append(commands, new) /\ since' = [since EXCEPT !.forecast = Unheard]
    BY <1>3 DEF Issue
  <2>2. new.at = clock
    OBVIOUS
  <2>. HIDE DEF new
  <2>3. commands' # <<>> /\ Last(commands') = new
    BY <1>2, <2>1 DEF Last
  <2>4. since'.forecast = Unheard
    BY <1>2, <2>1
  <2>5. since'.forecast.wiped = FALSE /\ since'.forecast.listed = None
    BY <2>4 DEF Unheard
  <2>6. Commanded
    BY <2>2, <2>3 DEF Commanded
  <2>7. ff'.at = ff.at /\ (ff.at # None => ff.at <= clock)
    BY <1>2 DEF ReadOnce
  <2>8. ReadOnce'
    BY <1>2, <2>2, <2>3, <2>5, <2>7 DEF ReadOnce
  <2>. QED
    BY <2>6, <2>8
<1>4. CASE \E from \in {clock, clock + 1} : Announce(level, from)
  <2>1. commands' = commands /\ since' = [since EXCEPT !.alertRead = FALSE]
    BY <1>4 DEF Announce
  <2>2. since'.forecast = since.forecast
    BY <1>2, <2>1
  <2>. QED
    BY <1>2, <2>1, <2>2 DEF ReadOnce, Unmoved
<1>. QED
  BY <1>1, <1>3, <1>4

LEMMA StepMoves ==
    ASSUME TypesInv, ExplainInv, ReadOnce, [BoardNext]_boardVars
    PROVE  ReadOnce' /\ (Unmoved \/ Answered \/ Commanded \/ Forgotten)
<1>0. FeedTypes /\ Recorder \in Callers
  BY Numbers DEF TypesInv
<1>1. ASSUME NEW c \in Callers, CallStep(c) \/ Judged(c)
      PROVE  ReadOnce' /\ (Unmoved \/ Answered)
  BY <1>0, <1>1, PullAnswers, CallUnmoved DEF CallStep
<1>2. ASSUME UNCHANGED feedVars PROVE ReadOnce' /\ Unmoved
  BY <1>2 DEF feedVars, sources, caches, ReadOnce, Unmoved
<1>3. CASE \E c \in Callers : Assess(c) \/ AskFeeds(c) \/ Judge(c)
  BY <1>1, <1>3 DEF Assess, AskFeeds, Judge, CallStep
<1>4. CASE RecordNothing \/ Record \/ UNCHANGED boardVars
  BY <1>2, <1>4 DEF RecordNothing, Record, Write, boardVars
<1>5. CASE SnapshotFails
  <2>1. Judged(Recorder) \/ UNCHANGED feedVars
    BY <1>5 DEF SnapshotFails, Fail
  <2>. QED
    BY <1>0, <1>1, <1>2, <2>1
<1>6. CASE SourceStep
  BY <1>0, <1>6, SourceMoves
<1>7. CASE BoardTick
  <2>1. clock' = clock + 1 /\ UNCHANGED <<commands, keys, ff, since>>
    BY <1>7 DEF BoardTick, Tick, sources, caches
  <2>2. clock \in Int /\ ff.at \in Int \cup {None} /\ since.forecast.listed \in Int \cup {None}
    BY TimeIsNat DEF TypesInv, FeedTypes, ExplainInv, Hearing
  <2>. QED
    BY <2>1, <2>2 DEF ReadOnce, Unmoved
<1>8. CASE Restart
  <2>1. /\ ff' = [at |-> None, rows |-> <<>>] /\ UNCHANGED <<clock, commands, keys>>
        /\ since' = [forecast |-> [since.forecast EXCEPT !.listed = None, !.wiped = FALSE], alertRead |-> FALSE]
        /\ pc' = [c \in Callers |-> "idle"]
    BY <1>8 DEF Restart, sources
  <2>. DEFINE h == [since.forecast EXCEPT !.listed = None, !.wiped = FALSE]
  <2>2. h.listed = None /\ h.wiped = FALSE /\ h.failed = since.forecast.failed
    BY DEF ExplainInv, Hearing
  <2>3. since'.forecast = h
    BY <2>1
  <2>. HIDE DEF h
  <2>4. ff'.at = None
    BY <2>1
  <2>. QED
    BY <1>0, <2>1, <2>2, <2>3, <2>4 DEF ReadOnce, Forgotten
<1>. QED
  BY <1>3, <1>4, <1>5, <1>6, <1>7, <1>8 DEF BoardNext

(* A history that is clean for a time that has passed was clean before.     *)
LEMMA CleanWasClean ==
    ASSUME TypesInv, ExplainInv, Unmoved \/ Answered \/ Commanded \/ Forgotten,
           NEW t \in Int, t <= clock, Clean(t)'
    PROVE  /\ Clean(t)
           /\ pc'[Recorder] # "idle" /\ since.forecast.listed # None => since'.forecast.listed # None
<1>1. clock \in Int /\ clock # None /\ Refresh \in Nat \ {0}
  BY TimeIsNat, FeedsAssumption DEF TypesInv, FeedTypes, FeedsAssumption
<1>2. since.forecast.failed \in BOOLEAN
  BY DEF ExplainInv, Hearing
<1>3. ~Commanded
  BY <1>1 DEF Commanded, Clean, Standing
<1>4. CASE Unmoved
  BY <1>4 DEF Unmoved, Clean, Standing
<1>5. CASE Answered
  BY <1>1, <1>2, <1>5 DEF Answered, Clean, Standing
<1>6. CASE Forgotten
  BY <1>6 DEF Forgotten, Clean, Standing
<1>. QED
  BY <1>3, <1>4, <1>5, <1>6

(* What a list that is known to carry a standing forecast says.             *)
LEMMA ListTells ==
    ASSUME TypesInv, ExplainInv, ReadOnce, NEW t \in Int, Clean(t),
           t <= clock, clock <= t + MaxWork, since.forecast.listed # None
    PROVE  Active(ff.rows, clock) # None
<1>. DEFINE h == since.forecast
            c == Last(commands)
<1>1. /\ clock \in Int /\ h.listed \in Int /\ h.wiped \in BOOLEAN /\ h.failed \in BOOLEAN
      /\ MaxWork \in Nat /\ {Refresh, Listed, ActiveFor} \subseteq Nat /\ Listed < ActiveFor
      /\ ff.rows \in Seq(Command)
  BY TimeIsNat, FeedsAssumption, Numbers DEF TypesInv, FeedTypes, ExplainInv, Hearing, FeedsAssumption
<1>2. commands # <<>> /\ c.level # None /\ c.at + Refresh <= t /\ t + MaxWork < c.at + Listed /\ ~h.failed
  BY DEF Clean, Standing
<1>3. c.at \in Int
  <2>1. c \in Command
    BY <1>2, LastIsDrawn DEF TypesInv, FeedTypes
  <2>. QED
    BY <2>1, TimeIsNat DEF Command
<1>4. h.listed <= clock /\ h.wiped = FALSE
  BY <1>1, <1>2 DEF ReadOnce
<1>. HIDE DEF h, c
<1>5. h.listed - c.at < Listed
  BY <1>1, <1>2, <1>3, <1>4
<1>6. ff.rows # <<>> /\ Last(ff.rows) = c
  BY <1>2, <1>4, <1>5 DEF ExplainInv, ListCarries, h, c
<1>7. c.at <= clock /\ ~(clock - c.at > ActiveFor)
  BY <1>1, <1>2, <1>3
<1>. QED
  BY <1>1, <1>2, <1>6, <1>7, ActiveIsTheLast

PlacesInv == AsksNow /\ HasList /\ HasForecast

LEMMA RecorderStill ==
    ASSUME TypesInv, ExplainInv, WatchInv, PlacesInv,
           Unmoved \/ Answered \/ Commanded \/ Forgotten,
           pc'[Recorder] = pc[Recorder], now'[Recorder] = now[Recorder],
           at'[Recorder] = at[Recorder], official'[Recorder] = official[Recorder]
    PROVE  PlacesInv'
<1>1. PICK t : t = at[Recorder]
  OBVIOUS
<1>2. t \in Int /\ (pc[Recorder] # "idle" => t <= clock)
  BY <1>1, Numbers DEF WatchInv, OneThing, Working
<1>3. Clean(at[Recorder])' <=> Clean(t)'
  BY <1>1 DEF Clean, Standing
<1>4. Clean(at[Recorder]) <=> Clean(t)
  BY <1>1 DEF Clean, Standing
<1>5. pc[Recorder] # "idle" /\ Clean(t)' =>
        Clean(t) /\ (since.forecast.listed # None => since'.forecast.listed # None)
  BY <1>2, CleanWasClean
<1>6. AsksNow'
  BY DEF PlacesInv, AsksNow
<1>7. HasList'
  BY <1>3, <1>4, <1>5 DEF PlacesInv, HasList
<1>8. HasForecast'
  BY <1>3, <1>4, <1>5 DEF PlacesInv, HasForecast
<1>. QED
  BY <1>6, <1>7, <1>8 DEF PlacesInv

LEMMA RecorderCalls ==
    ASSUME TypesInv, ExplainInv, WatchInv, ReadOnce, PlacesInv, AskFeeds(Recorder)
    PROVE  PlacesInv'
<1>1. /\ pc[Recorder] # "idle" /\ CallStep(Recorder) /\ at' = at /\ "HRFCO" \in keys
      /\ pc \in [Callers -> Places] /\ now \in [Callers -> Time] /\ official \in [Callers -> Levels \cup {None}]
      /\ Recorder \in Callers /\ FeedTypes
  BY Numbers DEF AskFeeds, WatchInv, OneThing, Working, TypesInv, FeedTypes
<1>2. PICK t : t = at[Recorder]
  OBVIOUS
<1>3. t \in Int /\ t <= clock /\ clock <= t + MaxWork /\ clock \in Int
  BY <1>1, <1>2, Numbers DEF WatchInv, OneThing, Working
<1>4. (Clean(at[Recorder])' <=> Clean(t)') /\ (Clean(at[Recorder]) <=> Clean(t))
  BY <1>1, <1>2 DEF Clean, Standing
<1>5. ASSUME Clean(t), ForecastCached(Recorder) PROVE since.forecast.listed # None
  <2>1. pc[Recorder] = "forecast" /\ ff.at # None /\ now[Recorder] - ff.at < Refresh
    BY <1>5 DEF ForecastCached, Throttled
  <2>2. now[Recorder] = t
    BY <1>2, <2>1 DEF PlacesInv, AsksNow
  <2>3. commands # <<>> /\ Last(commands).at + Refresh <= t /\ ~since.forecast.failed
    BY <1>5 DEF Clean, Standing
  <2>4. Last(commands).at \in Int
    <3>1. Last(commands) \in Command
      BY <2>3, LastIsDrawn DEF TypesInv, FeedTypes
    <3>. QED
      BY <3>1, TimeIsNat DEF Command
  <2>5. ff.at > Last(commands).at
    <3>1. ff.at \in Int /\ Refresh \in Int
      <4>1. ff.at \in Time
        BY <1>1, <2>1 DEF FeedTypes
      <4>2. ff.at \in Int
        BY <4>1, TimeIsNat, Zenon
      <4>3. Refresh \in Nat
        BY Constants
      <4>. QED
        BY <4>2, <4>3
    <3>. QED
      BY <1>3, <2>1, <2>2, <2>3, <2>4, <3>1
  <2>. QED
    BY <1>1, <2>1, <2>3, <2>5 DEF ReadOnce
<1>6. CASE ForecastCached(Recorder) \/ ReadForecast(Recorder)
  <2>1. Unmoved /\ HaveForecast(Recorder, ff.rows)
    BY <1>1, <1>6, CallUnmoved DEF ForecastCached, ReadForecast
  <2>2. pc'[Recorder] = "alert" /\ official'[Recorder] = Active(ff.rows, clock)
    BY <1>1, <2>1 DEF HaveForecast
  <2>3. Clean(t)' => Clean(t)
    BY <1>3, <2>1, CleanWasClean
  <2>4. Clean(t) => since.forecast.listed # None
    <3>1. CASE ForecastCached(Recorder)
      BY <1>5, <3>1
    <3>2. CASE ReadForecast(Recorder)
      BY <1>4, <3>2 DEF ReadForecast, PlacesInv, HasList
    <3>. QED
      BY <1>6, <3>1, <3>2
  <2>5. Clean(t) => Active(ff.rows, clock) # None
    BY <1>3, <2>4, ListTells
  <2>. QED
    BY <1>4, <2>2, <2>3, <2>5 DEF PlacesInv, AsksNow, HasList, HasForecast
<1>7. CASE PullForecast(Recorder)
  <2>1. Answered /\ pc'[Recorder] = "forecastRead"
    BY <1>1, <1>7, PullAnswers DEF PullForecast, LeaveForecast
  <2>2. Clean(t)' => since'.forecast.listed # None
    <3>1. clock # None
      BY <1>3, Numbers
    <3>. QED
      BY <2>1, <3>1 DEF Answered, Clean, Standing
  <2>. QED
    BY <1>4, <2>1, <2>2 DEF PlacesInv, AsksNow, HasList, HasForecast
<1>8. CASE AlertCached(Recorder) \/ AlertWithoutKey(Recorder) \/ EnterAlert(Recorder) \/ PullAlert(Recorder)
  <2>1. Unmoved
    BY <1>1, <1>8, CallUnmoved
  <2>2. /\ official' = official /\ pc[Recorder] \in {"alert", "alertPull"}
        /\ pc'[Recorder] \in {"alertPull", "judge"}
    BY <1>1, <1>8 DEF AlertCached, AlertWithoutKey, EnterAlert, PullAlert, HaveAlert
  <2>3. Clean(t)' => Clean(t)
    BY <1>3, <2>1, CleanWasClean
  <2>. QED
    BY <1>4, <2>2, <2>3 DEF PlacesInv, AsksNow, HasList, HasForecast
<1>9. CASE EnterForecast(Recorder)
  <2>1. pc'[Recorder] = "forecastPull"
    BY <1>1, <1>9 DEF EnterForecast
  <2>. QED
    BY <2>1 DEF PlacesInv, AsksNow, HasList, HasForecast
<1>. QED
  BY <1>1, <1>6, <1>7, <1>8, <1>9 DEF CallStep, AskForecast, ForecastWithoutKey

LEMMA PlacesStep ==
    ASSUME TypesInv, ExplainInv, WatchInv, ReadOnce, PlacesInv, [BoardNext]_boardVars
    PROVE  PlacesInv'
<1>0. Unmoved \/ Answered \/ Commanded \/ Forgotten
  BY StepMoves
<1>1. /\ pc \in [Callers -> Places] /\ now \in [Callers -> Time] /\ Recorder \in Callers
      /\ official \in [Callers -> Levels \cup {None}] /\ at \in [Callers -> Time]
  BY Numbers DEF TypesInv, FeedTypes, RecordTypes
<1>2. ASSUME pc'[Recorder] = "idle" PROVE PlacesInv'
  BY <1>2 DEF PlacesInv, AsksNow, HasList, HasForecast
<1>3. ASSUME UNCHANGED <<pc, now, at, official>> PROVE PlacesInv'
  BY <1>0, <1>3, RecorderStill
<1>4. ASSUME NEW c \in Callers, Assess(c) PROVE PlacesInv'
  <2>1. /\ pc' = [pc EXCEPT ![c] = "forecast"] /\ now' = [now EXCEPT ![c] = clock]
        /\ at' = [at EXCEPT ![c] = IF "HRFCO" \in keys THEN clock ELSE 0]
        /\ official' = official /\ (c = Recorder => "HRFCO" \in keys)
    BY <1>4 DEF Assess, AskForecast
  <2>2. CASE c = Recorder
    <3>1. pc'[Recorder] = "forecast" /\ now'[Recorder] = at'[Recorder]
      BY <1>1, <2>1, <2>2
    <3>. QED
      BY <3>1 DEF PlacesInv, AsksNow, HasList, HasForecast
  <2>3. CASE c # Recorder
    <3>1. /\ pc'[Recorder] = pc[Recorder] /\ now'[Recorder] = now[Recorder]
          /\ at'[Recorder] = at[Recorder] /\ official'[Recorder] = official[Recorder]
      BY <1>1, <2>1, <2>3
    <3>. QED
      BY <1>0, <3>1, RecorderStill
  <2>. QED
    BY <2>2, <2>3
<1>5. ASSUME NEW c \in Callers, Judge(c) PROVE PlacesInv'
  <2>1. /\ pc' = [pc EXCEPT ![c] = "idle"] /\ now' = [now EXCEPT ![c] = 0]
        /\ at' = [at EXCEPT ![c] = 0] /\ official' = [official EXCEPT ![c] = None]
    BY <1>5 DEF Judge, Judged
  <2>2. CASE c = Recorder
    BY <1>1, <1>2, <2>1, <2>2
  <2>3. CASE c # Recorder
    <3>1. /\ pc'[Recorder] = pc[Recorder] /\ now'[Recorder] = now[Recorder]
          /\ at'[Recorder] = at[Recorder] /\ official'[Recorder] = official[Recorder]
      BY <1>1, <2>1, <2>3
    <3>. QED
      BY <1>0, <3>1, RecorderStill
  <2>. QED
    BY <2>2, <2>3
<1>6. ASSUME NEW c \in Callers, AskFeeds(c) PROVE PlacesInv'
  <2>1. CASE c = Recorder
    BY <1>6, <2>1, RecorderCalls
  <2>2. CASE c # Recorder
    <3>1. CallStep(c) /\ at' = at
      BY <1>6 DEF AskFeeds
    <3>2. /\ \E p : pc' = [pc EXCEPT ![c] = p]
          /\ now' = now \/ \E n : now' = [now EXCEPT ![c] = n]
          /\ official' = official \/ \E o : official' = [official EXCEPT ![c] = o]
      BY <3>1, Zenon DEF CallStep, AskForecast, ForecastCached, ForecastWithoutKey, EnterForecast, PullForecast,
         LeaveForecast, ReadForecast, AlertCached, AlertWithoutKey, EnterAlert, PullAlert, HaveForecast, HaveAlert
    <3>3. /\ pc'[Recorder] = pc[Recorder] /\ now'[Recorder] = now[Recorder]
          /\ at'[Recorder] = at[Recorder] /\ official'[Recorder] = official[Recorder]
      BY <1>1, <2>2, <3>1, <3>2
    <3>. QED
      BY <1>0, <3>3, RecorderStill
  <2>. QED
    BY <2>1, <2>2
<1>7. CASE RecordNothing \/ Record \/ UNCHANGED boardVars
  BY <1>3, <1>7 DEF RecordNothing, Record, Write, boardVars, feedVars, calls
<1>8. CASE SourceStep /\ UNCHANGED <<logVars, at, recorder>>
  BY <1>3, <1>8 DEF SourceStep, Issue, Announce, calls
<1>9. CASE BoardTick
  BY <1>3, <1>9 DEF BoardTick, Tick, calls
<1>10. CASE SnapshotFails
  <2>1. CASE Judged(Recorder)
    <3>1. pc'[Recorder] = "idle"
      BY <1>1, <2>1 DEF Judged
    <3>. QED
      BY <1>2, <3>1
  <2>2. CASE UNCHANGED <<feedVars, at>>
    BY <1>3, <2>2 DEF feedVars, calls
  <2>. QED
    BY <1>10, <2>1, <2>2 DEF SnapshotFails, Fail
<1>11. CASE Restart
  <2>1. pc'[Recorder] = "idle"
    BY <1>1, <1>11 DEF Restart
  <2>. QED
    BY <1>2, <2>1
<1>. QED
  BY <1>4, <1>5, <1>6, <1>7, <1>8, <1>9, <1>10, <1>11 DEF BoardNext

(* What was shown once stays so: the line, and every line of the record.    *)
LEMMA ShownStays ==
    ASSUME TypesInv, ExplainInv, Unmoved \/ Answered \/ Commanded \/ Forgotten,
           NEW s, s.at \in Int, s.at <= clock, Shown(s)
    PROVE  Shown(s)'
<1>1. Clean(s.at)' => Clean(s.at)
  BY CleanWasClean
<1>. QED
  BY <1>1 DEF Shown

LEMMA LineShows ==
    ASSUME TypesInv, ExplainInv, WatchInv, PlacesInv, Judge(Recorder),
           Unmoved \/ Answered \/ Commanded \/ Forgotten
    PROVE  Shown(snap)'
<1>1. pc[Recorder] = "judge" /\ \E r \in Readings : snap' = LineOf(Recorder, r)
  BY DEF Judge, Judged
<1>2. PICK r \in Readings : snap' = LineOf(Recorder, r)
  BY <1>1
<1>3. PICK t, o : t = at[Recorder] /\ o = official[Recorder]
  OBVIOUS
<1>4. t \in Int /\ t <= clock
  BY <1>1, <1>3, Numbers DEF WatchInv, OneThing, Working
<1>. DEFINE in == InputsOf(Recorder, r)
<1>5. /\ snap'.at = t
      /\ \A f \in Recorded : snap'.level[f] = RiskLevel(f, in)
      /\ \A f \in Recorded : snap'.official[f] = (Issued(f, in) # NoData /\ RiskLevel(f, in) >= 1)
  BY <1>2, <1>3 DEF LineOf, FacilityRow
<1>6. in.issued = IF o = None THEN NoData ELSE o
  BY <1>3 DEF InputsOf
<1>. HIDE DEF in
<1>7. ASSUME Clean(t)' PROVE in.issued # NoData
  <2>1. Clean(t)
    BY <1>4, <1>7, CleanWasClean
  <2>2. o # None
    BY <1>1, <1>3, <2>1 DEF PlacesInv, HasForecast, Clean, Standing
  <2>3. o \in Levels /\ NoData \notin Levels
    BY <1>3, <2>2, Numbers, BoardAssumption DEF TypesInv, FeedTypes, BoardAssumption
  <2>. QED
    BY <1>6, <2>2, <2>3
<1>8. ASSUME NEW f \in Recorded, Route(f) = "river" PROVE Issued(f, in) = in.issued
  <2>1. Driver(f) # "pluvial" /\ f.gauge
    BY <1>8 DEF Route
  <2>2. Driver(f) = "river"
    BY <2>1 DEF Driver
  <2>. QED
    BY <2>1, <2>2 DEF Issued
<1>9. \A f \in Recorded : RiskLevel(f, in) \in 0 .. 4
  BY LevelsAreLevels
<1>10. Clean(snap.at)' <=> Clean(t)'
  BY <1>5 DEF Clean, Standing
<1>11. ASSUME Clean(t)', NEW f \in Recorded, Route(f) = "river", Alarms(snap, f)' PROVE snap'.official[f]
  <2>1. RiskLevel(f, in) >= 2 /\ RiskLevel(f, in) \in Int
    BY <1>5, <1>9, <1>11 DEF Alarms
  <2>2. RiskLevel(f, in) >= 1
    BY <2>1
  <2>. QED
    BY <1>5, <1>7, <1>8, <1>11, <2>2
<1>. QED
  BY <1>10, <1>11 DEF Shown

LEMMA WrittenStep ==
    ASSUME TypesInv, ExplainInv, WatchInv, ReadOnce, PlacesInv, Written, [BoardNext]_boardVars
    PROVE  Written'
<1>1. Unmoved \/ Answered \/ Commanded \/ Forgotten
  BY StepMoves
<1>2. clock \in Int /\ clock' \in Int /\ clock <= clock'
  <2>1. clock \in Nat
    BY Numbers
  <2>2. clock' = clock \/ clock' = clock + 1
    BY Zenon DEF BoardNext, Assess, AskFeeds, Judge, RecordNothing, Record, Write, SnapshotFails, Fail, Restart,
       BoardTick, Tick, SourceStep, Issue, Announce, CallStep, AskForecast, ForecastCached, ForecastWithoutKey,
       EnterForecast, PullForecast, LeaveForecast, ReadForecast, AlertCached, AlertWithoutKey, EnterAlert,
       PullAlert, Judged, boardVars, feedVars
  <2>. QED
    BY <2>1, <2>2
<1>3. \A y : y.at \in Int /\ y.at <= clock /\ Shown(y) => y.at <= clock' /\ Shown(y)'
  BY <1>1, <1>2, ShownStays
<1>4. snap # None => snap.at \in Int /\ snap.at <= clock /\ Shown(snap)
  BY Numbers DEF WatchInv, OneThing, Written
<1>5. ASSUME snap' = snap, snap # None PROVE Shown(snap)'
  <2>1. PICK y : y = snap
    OBVIOUS
  <2>2. Shown(y)
    BY <1>4, <1>5, <2>1
  <2>3. Shown(y)'
    BY <1>3, <1>4, <1>5, <2>1, <2>2
  <2>4. snap' = y
    BY <1>5, <2>1
  <2>. QED
    BY <2>3, <2>4 DEF Shown, Clean, Standing, Alarms
<1>6. ASSUME Readable, NEW i \in DOMAIN lines, NEW y, y = lines[i]
      PROVE  y.at <= clock' /\ Shown(y)'
  <2>1. y.at \in Int
    BY <1>6, ReadableLines
  <2>2. y.at <= clock /\ Shown(y)
    BY <1>6 DEF Written
  <2>. QED
    BY <1>3, <2>1, <2>2
<1>. DEFINE Tells == \A i \in DOMAIN lines : lines[i].at <= clock /\ Shown(lines[i])
<1>7. ASSUME NEW i \in DOMAIN lines', NEW y, y = lines'[i], y.at <= clock', Shown(y)'
      PROVE  (lines[i].at <= clock /\ Shown(lines[i]))'
  BY <1>7 DEF Shown, Clean, Standing, Alarms
<1>8. ASSUME lines' = lines, Readable' PROVE Tells'
  <2>1. Readable
    BY <1>8 DEF Readable
  <2>. SUFFICES ASSUME NEW i \in DOMAIN lines' PROVE (lines[i].at <= clock /\ Shown(lines[i]))'
    OBVIOUS
  <2>2. PICK y : y = lines[i]
    OBVIOUS
  <2>. QED
    BY <1>6, <1>7, <1>8, <2>1, <2>2
<1>9. ASSUME snap # None, AppendLine(snap), Readable' PROVE Tells'
  <2>1. Readable /\ lines' = Append(lines, snap)
    BY <1>9, Appended
  <2>2. lines \in Seq(Snapshot) /\ Len(lines) \in Nat /\ DOMAIN lines = 1 .. Len(lines)
    BY <2>1, ReadableLines
  <2>3. DOMAIN lines' = 1 .. Len(lines) + 1
    BY <2>1, <2>2
  <2>. SUFFICES ASSUME NEW i \in DOMAIN lines' PROVE (lines[i].at <= clock /\ Shown(lines[i]))'
    OBVIOUS
  <2>4. CASE i = Len(lines) + 1
    <3>1. PICK y : y = snap
      OBVIOUS
    <3>2. lines'[i] = y
      BY <2>1, <2>2, <2>4, <3>1
    <3>3. y.at <= clock' /\ Shown(y)'
      BY <1>3, <1>4, <1>9, <3>1 DEF Shown
    <3>. QED
      BY <1>7, <3>2, <3>3
  <2>5. CASE i \in 1 .. Len(lines)
    <3>1. PICK y : y = lines[i]
      OBVIOUS
    <3>2. lines'[i] = y
      BY <2>1, <2>2, <2>5, <3>1
    <3>3. y.at <= clock' /\ Shown(y)'
      BY <1>6, <2>1, <2>2, <2>5, <3>1
    <3>. QED
      BY <1>7, <3>2, <3>3
  <2>. QED
    BY <2>2, <2>3, <2>4, <2>5
<1>. HIDE DEF Tells
<1>10. ASSUME snap' = snap \/ snap' = None, lines' = lines PROVE Written'
  BY <1>5, <1>8, <1>10 DEF Written, Tells
<1>11. ASSUME snap # None, AppendLine(snap), snap' = None PROVE Written'
  BY <1>9, <1>11 DEF Written, Tells
<1>12. ASSUME NEW c \in Callers, Assess(c) \/ AskFeeds(c) PROVE Written'
  BY <1>10, <1>12 DEF Assess, AskFeeds, logVars, recorder
<1>13. ASSUME NEW c \in Callers, Judge(c) PROVE Written'
  <2>1. lines' = lines /\ (c # Recorder => snap' = snap)
    BY <1>13 DEF Judge, logVars
  <2>2. c = Recorder => Shown(snap)'
    BY <1>1, <1>13, LineShows
  <2>. QED
    BY <1>8, <1>10, <2>1, <2>2 DEF Written, Tells
<1>14. CASE Restart
  <2>1. /\ snap' = None
        /\ lines' = lines \/ (snap # None /\ AppendLine(snap)) \/ TearLine
    BY <1>14 DEF Restart, logVars
  <2>2. CASE TearLine
    BY <2>1, <2>2, TornIsUnreadable DEF Written
  <2>. QED
    BY <1>10, <1>11, <2>1, <2>2
<1>15. CASE Record
  BY <1>11, <1>15 DEF Record, Write
<1>16. CASE RecordNothing \/ SnapshotFails \/ BoardTick \/ UNCHANGED boardVars
  BY <1>10, <1>16 DEF RecordNothing, SnapshotFails, Fail, BoardTick, boardVars, logVars, recorder
<1>17. CASE SourceStep /\ UNCHANGED <<logVars, at, recorder>>
  BY <1>10, <1>17 DEF logVars, recorder
<1>. QED
  BY <1>12, <1>13, <1>14, <1>15, <1>16, <1>17 DEF BoardNext

LEMMA StartWritten == BoardInit => ReadOnce /\ PlacesInv /\ Written
<1>. SUFFICES ASSUME BoardInit PROVE ReadOnce /\ PlacesInv /\ Written
  OBVIOUS
<1>1. /\ lines = <<>> /\ snap = None /\ commands = <<>> /\ pc = [c \in Callers |-> "idle"]
      /\ ff = [at |-> None, rows |-> <<>>] /\ since = [forecast |-> Unheard, alertRead |-> FALSE]
  BY DEF BoardInit, FeedsInit, LogInit
<1>2. ReadOnce
  BY <1>1 DEF ReadOnce, Unheard
<1>3. pc[Recorder] = "idle"
  BY <1>1, BoardAssumption DEF BoardAssumption
<1>4. PlacesInv
  BY <1>3 DEF PlacesInv, AsksNow, HasList, HasForecast
<1>5. DOMAIN <<>> = {}
  OBVIOUS
<1>. QED
  BY <1>1, <1>2, <1>4, <1>5 DEF Written

-----------------------------------------------------------------------------
(* The three things the season board says.                                  *)
LEMMA MissedOnceIsTogether == TypesInv /\ WatchInv => OneMissedDoesNotSplit
<1>. SUFFICES ASSUME TypesInv, WatchInv, Readable, NEW f \in Recorded, NEW i \in DOMAIN lines,
                     Alerted(i, f), Alerted(i + 1, f), missed[i + 1] <= 1
              PROVE  \E e \in ToSet(SeasonRow(f).episodes) : e.start <= lines[i].at /\ lines[i + 1].at <= e.end
  BY Zenon DEF OneMissedDoesNotSplit
<1>1. /\ DOMAIN lines = 1 .. Len(lines) /\ Len(lines) \in Nat /\ i + 1 \in DOMAIN lines
  BY ReadableLines DEF Alerted
<1>2. i + 1 \in 2 .. Len(lines) /\ (i + 1) - 1 = i
  BY <1>1
<1>3. lines[i + 1].at - lines[i].at <= Gap
  BY <1>2 DEF WatchInv, Spread
<1>. DEFINE eps == SeasonRow(f).episodes
<1>4. Together(eps, lines, f)
  BY DEF WatchInv, AllTold, Season, Told, SeasonRow
<1>5. i \in Alarmed(lines, f) /\ i + 1 \in Alarmed(lines, f)
  BY <1>1 DEF Alerted, Alarmed, Alarms
<1>6. PICK k \in DOMAIN eps : Covers(eps[k], lines[i].at) /\ Covers(eps[k], lines[i + 1].at)
  BY <1>3, <1>4, <1>5 DEF Together
<1>. HIDE DEF eps
<1>7. eps[k] \in ToSet(eps)
  BY DEF ToSet
<1>. QED
  BY <1>6, <1>7 DEF Covers, eps

LEMMA MinutesHavePassed == TypesInv /\ WatchInv => MinutesAreTime
<1>. SUFFICES ASSUME TypesInv, WatchInv, Readable, lines # <<>>, NEW f \in Recorded
              PROVE  SeasonRow(f).minutes <= Last(lines).at - lines[1].at + Interval * (1 + restarts)
  BY Zenon DEF MinutesAreTime
<1>1. /\ restarts \in Nat /\ Interval \in Nat /\ Allowed(restarts) \in Nat
      /\ Allowed(restarts + 1) = Allowed(restarts) + Interval
  BY Numbers, Allowance
<1>2. Newest \in Int /\ lines[1].at \in Int
  <2>1. lines \in Seq(Snapshot) /\ Len(lines) \in Nat /\ DOMAIN lines = 1 .. Len(lines)
        /\ \A i \in 1 .. Len(lines) : lines[i].at \in Int
    BY ReadableLines
  <2>2. 1 \in 1 .. Len(lines) /\ Len(lines) \in 1 .. Len(lines)
    BY <2>1
  <2>. QED
    BY <2>1, <2>2 DEF Newest
<1>3. SeasonRow(f).minutes \in Int
  BY SeasonTypes DEF WatchInv, AllTold
<1>4. Minuted(f, restarts + 1) \/ Minuted(f, restarts)
  BY DEF WatchInv, Paced
<1>5. SeasonRow(f).minutes <= Newest - lines[1].at + Allowed(restarts + 1)
  BY <1>1, <1>2, <1>3, <1>4 DEF Minuted
<1>6. Last(lines).at = Newest
  BY DEF Last, Newest
<1>7. Allowed(restarts + 1) = Interval * (1 + restarts)
  <2>1. restarts + 1 = 1 + restarts
    BY <1>1
  <2>. QED
    BY <2>1 DEF Allowed
<1>. QED
  BY <1>5, <1>6, <1>7

LEMMA AnnouncedIsFlagged == TypesInv /\ WatchInv /\ Written => AloneMeansUnannounced
<1>. SUFFICES ASSUME TypesInv, WatchInv, Written, Readable, NEW f \in Recorded, Route(f) = "river",
                     NEW e \in ToSet(SeasonRow(f).episodes), ~e.official, NEW i \in DOMAIN lines,
                     NEW t, t = lines[i].at, NEW issued, issued = Last(Until(commands, t)).at,
                     e.start <= t, t <= e.end, lines[i].level[f] >= 2,
                     HeldThrough(t, t + MaxWork) # None, commands # <<>>, issued = Last(commands).at,
                     issued + Refresh <= t, t + MaxWork < issued + Listed,
                     ~since.forecast.failed
              PROVE  FALSE
  BY Zenon DEF AloneMeansUnannounced
<1>1. /\ t \in Int /\ MaxWork \in Nat /\ {Refresh, Listed, ActiveFor} \subseteq Nat /\ Listed < ActiveFor
      /\ commands \in Seq(Command)
  BY ReadableLines, FeedsAssumption, Numbers DEF TypesInv, FeedTypes, FeedsAssumption
<1>2. Last(commands).at \in Int
  <2>1. Last(commands) \in Command
    BY LastIsDrawn DEF TypesInv, FeedTypes
  <2>. QED
    BY <2>1, TimeIsNat DEF Command
<1>3. Last(commands).level # None
  <2>1. Active(commands, t) # None
    BY DEF HeldThrough
  <2>2. Last(commands).at <= t
    BY <1>1, <1>2
  <2>. QED
    BY <1>1, <2>1, <2>2, ActiveIsTheLast
<1>4. Clean(lines[i].at)
  BY <1>3 DEF Clean, Standing
<1>5. lines[i].official[f]
  BY <1>4 DEF Written, Shown, Alarms
<1>. DEFINE eps == SeasonRow(f).episodes
<1>6. Flagged(eps, lines, f)
  BY DEF WatchInv, AllTold, Season, Told, SeasonRow
<1>. HIDE DEF eps
<1>7. PICK k \in DOMAIN eps : eps[k] = e
  BY DEF ToSet, eps
<1>8. i \in Alarmed(lines, f) /\ Covers(eps[k], lines[i].at)
  BY <1>7 DEF Alarmed, Alarms, Covers
<1>. QED
  BY <1>5, <1>6, <1>7, <1>8 DEF Flagged

(* What season_board says of a facility is what the recorder saw, however   *)
(* the calls, the failures and the restarts fall: one missed snapshot does  *)
(* not split an episode, its minutes are time that has passed, and an       *)
(* episode that counts as "alone" had no forecast that a sound pull could   *)
(* have read.                                                               *)
THEOREM SeasonTellsTheWatchHolds == BoardSpec => []SeasonTellsTheWatch
<1>. DEFINE Inv == TypesInv /\ ExplainInv /\ WatchInv /\ ReadOnce /\ PlacesInv /\ Written
<1>1. BoardInit => Inv
  BY StartTyped, StartExplains, StartWatch, StartWritten
<1>2. Inv /\ [BoardNext]_boardVars => Inv'
  <2>. SUFFICES ASSUME Inv, [BoardNext]_boardVars PROVE Inv'
    OBVIOUS
  <2>1. TypesInv' /\ ExplainInv'
    BY StepTyped, StepExplains DEF TypesInv
  <2>. QED
    BY <2>1, StepWatch, StepMoves, PlacesStep, WrittenStep
<1>3. Inv => SeasonTellsTheWatch
  BY MissedOnceIsTogether, MinutesHavePassed, AnnouncedIsFlagged DEF SeasonTellsTheWatch
<1>. QED
  BY <1>1, <1>2, <1>3, PTL DEF BoardSpec
=============================================================================
