---------------------------- MODULE OfficialFeeds ----------------------------
(***************************************************************************)
(* The official warnings the facility board reads: the flood forecasts of  *)
(* the river gauges (backend/app/flood_forecast.py) and the heavy-rain     *)
(* alerts (backend/app/kma_weather_warning.py).  Each is a cache behind a  *)
(* lock of its own that the caller in front refreshes.  They fail          *)
(* differently: a failed forecast pull keeps the rows it had, a failed     *)
(* alert pull clears them and says so.                                     *)
(*                                                                         *)
(* One gauge and one warning zone stand for all: no step relates two.  The *)
(* sources are the environment: the forecast list carries the commands of  *)
(* the last 24 hours, the alert list the latest command of the zone.  A    *)
(* gauge gets at most one command in a minute.  Time is in ticks.          *)
(***************************************************************************)
EXTENDS Integers, Sequences, SequencesExt, Sieve

CONSTANTS
    Callers,      \* threads that assess the board
    None,         \* Python's None
    Levels,       \* levels of a warning
    Refresh,      \* REFRESH_SECONDS of either feed (5 min)
    Listed,       \* what fldfct/list.json carries (24 h)
    ActiveFor,    \* ACTIVE_HOURS (72 h)
    MaxCall,      \* longest time from reading the clock to the end of a pull
    MaxCommands,  \* bound on the commands of both sources
    MaxClock      \* bound on the modelled time

ASSUME FeedsAssumption ==
    /\ Levels \subseteq {"advisory", "warning"}
    /\ None \notin Callers \cup Int \cup Levels
    /\ {Refresh, Listed, ActiveFor, MaxCall, MaxClock} \subseteq Nat \ {0}
    /\ Listed < ActiveFor

VARIABLES
    clock,
    keys,         \* API keys in the environment
    commands,     \* forecasts issued for the gauge, oldest first: [at, level]
    alerts,       \* alerts for the zone, oldest first: [at, from, level]
    ff,           \* flood_forecast._LIVE: [at, rows]
    kw,           \* kma_weather_warning._FEED: [at, ok, active]
    lock,         \* who holds each feed's lock, or None
    pc, now,      \* per caller: its place, the time it read for this feed
    official,     \* per caller: what active_now returned
    weather,      \* per caller: what current() returned: the alert, or None
    since         \* history: what the feeds answered since the last command

sources == <<keys, commands, alerts>>
caches  == <<ff, kw, since>>
calls   == <<lock, pc, now, official, weather>>
feedVars == <<clock, sources, caches, calls>>

Feeds   == {"forecast", "alert"}
Time    == 0 .. MaxClock
Places  == {"idle", "forecast", "forecastPull", "forecastRead", "alert", "alertPull", "judge"}
PullOf  == [forecast |-> "forecastPull", alert |-> "alertPull"]

-----------------------------------------------------------------------------
(* _active for the gauge: its last row that is not in the future, unless it *)
(* is a release or too old.                                                 *)
Until(rows, t) == Sieve(rows, {r \in ToSet(rows) : r.at <= t})
Active(rows, t) ==
    LET past == Until(rows, t)
    IN IF past = <<>> \/ t - Last(past).at > ActiveFor THEN None ELSE Last(past).level

(* What the sources answer.                                                 *)
ForecastList == Sieve(commands, {r \in ToSet(commands) : clock - r.at < Listed})
AlertList    == IF alerts = <<>> \/ Last(alerts).level = None THEN {} ELSE {Last(alerts)}

(* Neither force nor a fetched_at older than REFRESH_SECONDS.  As a     *)
(* bug: a call that waited has a time before the pull (a negative           *)
(* timedelta, .seconds of which is large).                                  *)
ThrottledBySeconds(c, feed) == feed.at # None /\ now[c] - feed.at \in 0 .. Refresh - 1
Throttled(c, feed) == feed.at # None /\ now[c] - feed.at < Refresh

(* An answer of a pull: the rows of the list, or of an error body with a    *)
(* good HTTP status, which live_issuances takes for an empty list; the      *)
(* alerts in effect.                                                        *)
ForecastRows(good) == IF good THEN ForecastList ELSE <<>>
AlertRows(c) == {a \in AlertList : a.from <= now[c]}
One(set) == IF set = {} THEN None ELSE CHOOSE a \in set : TRUE

Unheard == [listed |-> None, wiped |-> FALSE, failed |-> FALSE]
Heard(listed, wiped, failed) ==
    [forecast |-> IF commands = <<>> THEN Unheard
                  ELSE [listed |-> listed, wiped |-> wiped, failed |-> failed],
     alertRead |-> since.alertRead]

-----------------------------------------------------------------------------
FeedsInit ==
    /\ clock = 0 /\ keys \in SUBSET {"HRFCO", "KMA"}
    /\ commands = <<>> /\ alerts = <<>>
    /\ ff = [at |-> None, rows |-> <<>>]
    /\ kw = [at |-> None, ok |-> FALSE, active |-> None]
    /\ lock = [f \in Feeds |-> None]
    /\ pc = [c \in Callers |-> "idle"] /\ now = [c \in Callers |-> 0]
    /\ official = [c \in Callers |-> None] /\ weather = [c \in Callers |-> None]
    /\ since = [forecast |-> Unheard, alertRead |-> FALSE]

(* active_now is called: live_issuances reads the clock.                    *)
AskForecast(c) ==
    /\ pc[c] = "idle"
    /\ pc' = [pc EXCEPT ![c] = "forecast"] /\ now' = [now EXCEPT ![c] = clock]
    /\ UNCHANGED <<clock, sources, caches, lock, official, weather>>

(* The copy of the rows is read against the clock of that moment; current() *)
(* reads it once more.  Without the HRFCO key the board runs in replay and  *)
(* only the list of forecasts itself (summary) asks.                        *)
HaveForecast(c, rows) ==
    LET judged == "HRFCO" \in keys
    IN /\ official' = [official EXCEPT ![c] = IF judged THEN Active(rows, clock) ELSE None]
       /\ pc' = [pc EXCEPT ![c] = IF judged THEN "alert" ELSE "idle"]
       /\ now' = [now EXCEPT ![c] = IF judged THEN clock ELSE 0]

ForecastCached(c) ==
    /\ pc[c] = "forecast" /\ lock["forecast"] = None
    /\ Throttled(c, ff)
    /\ HaveForecast(c, ff.rows)
    /\ UNCHANGED <<clock, sources, caches, lock, weather>>

ForecastWithoutKey(c) ==
    /\ pc[c] = "forecast" /\ lock["forecast"] = None
    /\ ~Throttled(c, ff) /\ "HRFCO" \notin keys
    /\ ff' = [at |-> now[c], rows |-> <<>>]
    /\ HaveForecast(c, <<>>)
    /\ UNCHANGED <<clock, sources, kw, since, lock, weather>>

EnterForecast(c) ==
    /\ pc[c] = "forecast" /\ lock["forecast"] = None
    /\ ~Throttled(c, ff) /\ "HRFCO" \in keys
    /\ lock' = [lock EXCEPT !["forecast"] = c]
    /\ pc' = [pc EXCEPT ![c] = "forecastPull"]
    /\ UNCHANGED <<clock, sources, caches, now, official, weather>>

(* The pull: a list, an error body, or an exception, which keeps the rows.  *)
(* The lock is released; the copy is made after.  As bugs: an exception     *)
(* clears the rows; it leaves the lock taken.                               *)
AnswerClearing(c) ==
    LET h == since.forecast
    IN \/ /\ ff' = [at |-> now[c], rows |-> ForecastRows(TRUE)]
          /\ since' = Heard(clock, FALSE, h.failed)
       \/ /\ ff' = [at |-> now[c], rows |-> <<>>]
          /\ since' = Heard(h.listed, h.wiped, TRUE)
AnswerForecast(c) ==
    LET h == since.forecast
    IN \/ /\ ff' = [at |-> now[c], rows |-> ForecastRows(TRUE)]
          /\ since' = Heard(clock, FALSE, h.failed)
       \/ /\ ff' = [at |-> now[c], rows |-> ForecastRows(FALSE)]
          /\ since' = Heard(h.listed, TRUE, TRUE)
       \/ /\ ff' = [at |-> now[c], rows |-> ff.rows]
          /\ since' = Heard(h.listed, h.wiped, TRUE)
LeaveForecast(c) ==
    /\ pc[c] = "forecastPull"
    /\ pc' = [pc EXCEPT ![c] = "forecastRead"]
    /\ UNCHANGED <<clock, sources, kw, now, official, weather>>
PullForecastHolding(c) ==
    /\ LeaveForecast(c) /\ AnswerForecast(c)
    /\ lock' = IF since'.forecast.failed THEN lock ELSE [lock EXCEPT !["forecast"] = None]
PullForecast(c) ==
    /\ LeaveForecast(c) /\ AnswerForecast(c)
    /\ lock' = [lock EXCEPT !["forecast"] = None]

ReadForecast(c) ==
    /\ pc[c] = "forecastRead"
    /\ HaveForecast(c, ff.rows)
    /\ UNCHANGED <<clock, sources, caches, lock, weather>>

(* current(): the alert, if the feed is available (facility_risk reads the  *)
(* rows only then; an unavailable feed has none).                           *)
HaveAlert(c, feed) ==
    /\ weather' = [weather EXCEPT ![c] = IF feed.ok THEN feed.active ELSE None]
    /\ pc' = [pc EXCEPT ![c] = "judge"]

AlertCached(c) ==
    /\ pc[c] = "alert" /\ lock["alert"] = None
    /\ Throttled(c, kw)
    /\ HaveAlert(c, kw)
    /\ UNCHANGED <<clock, sources, caches, lock, now, official>>

AlertWithoutKey(c) ==
    /\ pc[c] = "alert" /\ lock["alert"] = None
    /\ ~Throttled(c, kw) /\ "KMA" \notin keys
    /\ kw' = [at |-> now[c], ok |-> FALSE, active |-> None]
    /\ HaveAlert(c, kw')
    /\ UNCHANGED <<clock, sources, ff, since, lock, now, official>>

EnterAlert(c) ==
    /\ pc[c] = "alert" /\ lock["alert"] = None
    /\ ~Throttled(c, kw) /\ "KMA" \in keys
    /\ lock' = [lock EXCEPT !["alert"] = c]
    /\ pc' = [pc EXCEPT ![c] = "alertPull"]
    /\ UNCHANGED <<clock, sources, caches, now, official, weather>>

PullAlert(c) ==
    /\ pc[c] = "alertPull"
    /\ \/ kw' = [at |-> now[c], ok |-> TRUE, active |-> One(AlertRows(c))]
          /\ since' = [since EXCEPT !.alertRead = TRUE]
       \/ kw' = [at |-> now[c], ok |-> FALSE, active |-> None] /\ UNCHANGED since
    /\ lock' = [lock EXCEPT !["alert"] = None]
    /\ HaveAlert(c, kw')
    /\ UNCHANGED <<clock, sources, ff, now, official>>

(* The assessment returns; its locals are gone.                             *)
Judged(c) ==
    /\ pc[c] = "judge"
    /\ pc' = [pc EXCEPT ![c] = "idle"] /\ now' = [now EXCEPT ![c] = 0]
    /\ official' = [official EXCEPT ![c] = None] /\ weather' = [weather EXCEPT ![c] = None]
    /\ UNCHANGED <<clock, sources, caches, lock>>

CallStep(c) ==
    \/ AskForecast(c) \/ ForecastCached(c) \/ ForecastWithoutKey(c) \/ EnterForecast(c)
    \/ PullForecast(c) \/ ReadForecast(c)
    \/ AlertCached(c) \/ AlertWithoutKey(c) \/ EnterAlert(c) \/ PullAlert(c)

(* The sources: a forecast issued, changed or released for the gauge; an    *)
(* alert announced for now or later, or lifted, for the zone.               *)
Issue(level) ==
    /\ Len(commands) + Len(alerts) < MaxCommands
    /\ commands # <<>> => Last(commands).at < clock
    /\ commands' = Append(commands, [at |-> clock, level |-> level])
    /\ since' = [since EXCEPT !.forecast = Unheard]
    /\ UNCHANGED <<clock, keys, alerts, ff, kw, calls>>

Announce(level, from) ==
    /\ Len(commands) + Len(alerts) < MaxCommands
    /\ alerts # <<>> => Last(alerts).at < clock
    /\ alerts' = Append(alerts, [at |-> clock, from |-> from, level |-> level])
    /\ since' = [since EXCEPT !.alertRead = FALSE]
    /\ UNCHANGED <<clock, keys, commands, ff, kw, calls>>

SourceStep ==
    \E level \in Levels \cup {None} :
        Issue(level) \/ \E from \in {clock, clock + 1} : Announce(level, from)

(* Time passes while nobody calls and while a pull waits for its answer, at *)
(* most MaxCall: the steps between take none on this scale.                 *)
Pulling(c) == pc[c] \in {"forecastPull", "alertPull"}
Waiting(c) ==
    \/ pc[c] = "forecast" /\ lock["forecast"] # None
    \/ pc[c] = "alert" /\ lock["alert"] # None
Tick ==
    /\ clock < MaxClock
    /\ \A c \in Callers :
         \/ pc[c] = "idle"
         \/ (Pulling(c) \/ Waiting(c)) /\ clock < now[c] + MaxCall
    /\ clock' = clock + 1
    /\ UNCHANGED <<sources, caches, calls>>

-----------------------------------------------------------------------------
(* The board shows another forecast than the one in force at the gauge only *)
(* for a reason: the list came before the last command, an error body wiped *)
(* it, or the last command had left the list when it came.  The docstring   *)
(* of flood_forecast.py promises 72 h for active_at and "the same for the   *)
(* live feed"; the live feed keeps what the 24-hour list carries, and a     *)
(* failed pull keeps it longer.                                             *)
ForecastMissExplained ==
    commands # <<>> /\ Active(ff.rows, clock) # Active(commands, clock) =>
        LET h == since.forecast
        IN h.listed = None \/ h.listed - Last(commands).at >= Listed \/ h.wiped

(* A feed is pulled at most once every Refresh, over all callers: the time  *)
(* a caller read before it waited for the lock does not let it pull again.  *)
PulledOncePerRefresh ==
    [][/\ ff.at # None /\ ff'.at \notin {ff.at, None} => ff'.at - ff.at >= Refresh
       /\ kw.at # None /\ kw'.at \notin {kw.at, None} => kw'.at - kw.at >= Refresh]_feedVars

(* The alert in force in the zone at t.                                     *)
AlertAt(t) ==
    LET due == Sieve(alerts, {a \in ToSet(alerts) : a.from <= t})
    IN IF due = <<>> \/ Last(due).level = None THEN None ELSE Last(due)

(* An available alert feed shows another alert than the one in force only   *)
(* if the list came before the zone's last command, if the alert was not    *)
(* yet in effect when the pull began, or if the last command, announced for *)
(* later, hides the one still in force.                                     *)
AlertMissExplained ==
    kw.ok /\ kw.active # AlertAt(clock) =>
        \/ ~since.alertRead
        \/ Last(alerts).from > kw.at /\ kw.active = None

(* A facility is shown under another warning than the official one in force *)
(* only for the reasons above, whichever feed it comes from.                *)
WarningMissesExplained == ForecastMissExplained /\ AlertMissExplained
=============================================================================
