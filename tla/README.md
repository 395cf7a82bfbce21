# Formal models of the flood digital twin

The server (`backend/app`, FastAPI, one uvicorn worker, a thread per request) shows
an operator what the river and rain gauges say now, whether a facility's control
rule recommends a closure, what officials announced, what operators did, and lets a
language model explain past events with registered read-only tools. Most of its
12,000 lines are computation over stored files. The state that several threads share,
that lives over many requests, or that an outside party drives, sits in a few places;
those are modelled here.

## Inventory

| Component | State | Operations | Hard behaviour | What makes it correct |
|---|---|---|---|---|
| Live observation cache, `national_watch.py` | `_LIVE` (13 snapshots, hourly rain history, fetch times), `_LOCK`, a JSON file | `refresh_live`, `refresh_live_rain`, `_frame`, load at import | network calls under a lock, `now` read before the lock, reads without it, pulls that fail halfway, restart | pulls exclude each other, snapshots are spaced, a torn read decides the same, a restart loses no saved hour |
| Request limits, `rate_limit.py` | a deque per address, one for all | `check`, `reset` | times out of order, two deques, pruning at the head only | never more than the limit in any window |
| Agent loop, `agent_runner.py` | the locals of one request, `_RunState` | `ask_agent` | a model that may do anything, ten exits, tools that fail | it ends, keeps its limits, runs nothing twice, never says ANSWERED of what it did not compute |
| Follow-up questions, `agent_context.py`, the hints and `validate` of `agent_cases.py` | the conversation the client sends along | `resolve_question`, hints, validation of calls | chains of questions, conditions half replaced, relative clocks | values come from the user's own questions or from the record |
| Closure records, `closure_log.py` | a JSON-lines file | `append_record`, `end_record`, `list_records` | check, then append without the lock; torn writes | entries stay, amendments fit their record |
| Confirmation log, `decision_log.py` | a JSON-lines file | append, list | torn writes | entries stay |
| Control rule, `twin.py` | none (stored series) | `assess`, `backtest`, `criteria_review` | two evaluations of one rule, gaps, quarantines and boundaries | they agree, episodes are the runs of recommendations, doubtful data is marked |
| Season scorecard, `season_scorecard.py` | none | `compute` | matching of intervals | a miss is a closure no recommendation was near |
| Watch recorder, `watch_log.py` | a JSON-lines file, a thread | `record_once`, `_loop`, `season_board` | background thread, restarts, torn lines, missed snapshots | the thread comes back, minutes are time, a missed snapshot splits no episode, "alone" means unannounced |
| Official feeds, `flood_forecast.py`, `kma_weather_warning.py`, `kma_aws.py` | caches with locks of their own | `live_issuances`, `current`, `stations` | different rules on failure, a 24-hour list of 72-hour forecasts | a wrong warning has a named cause; a source is asked once per refresh |
| Facility risk, `facility_risk.py`, `rain_simulation.py` | `_RAIN_HISTORY`, `_LOCK` | `facility_risk` | level, status and evidence derived apart from the same inputs; rain summed while another thread stores it | they tell one story, calm means looked at, more rain never lowers a level, a total covers its whole window |
| History pipeline and rise model, `collect_hrfco_history.py`, `audit_hrfco_quality.py`, `train_rise_model.py`, `history_quality.py`, `rise_model.py` | files that five scripts share, the server's loaded model | fetch, qc, events, audit, train, load | no locks, scripts that overlap or are killed between two files | counts and training rows rest on an audit, the manifest tells the csv, the upper bound fits the forecast |
| Planner and workflows, `llm_planner.py`, `agent_tools.py`, `main.py` | none | `plan_agent`, `run_agent_workflow` | a model that answers anything, a fallback | an analysis runs on the values of the question |
| What-ifs of an event, `services.py`, `timeline_cases.py` | stored times | closure, delay, breach, response timing, comparison | boundaries, a night between two dates | the recorded order stays |
| The Agent on the boards, `agent_facility.py`, `agent_watch.py` | none | hints, `validate`, `run_tool`, `_reply` | sources that move between two tools of one question, model text beside tool results | what is told is what the tools found, with its caveats |
| The watch board's lists, `national_watch.py` | the facility catalogue, built once | `overview`, `facility_status`, `rain_summary` | three counts of one frame made apart, rows that are one road | they add up to each other, the most urgent comes first |
| Repositories, validation | stored files | read | - | arithmetic |
| Operator pages, `ops/app.js`, `ops/lib.js`, `ops/agent.js`, `ops/views/*.js` | remembered requests, the page on the screen, conversations, the playback timer and the map | `route`, the views, `mountAgent`, `detailView` | pages drawn after they were left, answers out of order, module variables that outlive a page | one request per path, a panel that belongs to its page, turns in order, one step shown everywhere |
| Older console, `src/dark/*.tsx` | React state of the board, the dock and the what-if panels | effects that ask the server, the dock's `ask` | replies that overtake each other, a poll | what is shown belongs to what is chosen |
| Other scripts, deployment | - | - | - | - |

How they interact: request threads and the recorder thread call `refresh_live`, and
everything that shows "now" reads `_LIVE`. `POST /api/agent/ask` passes the limiter
first and then runs the loop in its own thread; the loop calls tools, which read the
stores and the live cache and write nothing. The closure routes write the closure log,
which the scorecard compares with the control rule. `facility_risk` judges every facility
from the live cache and the two official feeds, each behind a lock of its own, and the
recorder writes what it says to the watch log. The pages in the browser ask the server by
HTTP only; between two awaits of a page the user may go elsewhere. The scripts of the history pipeline are
processes of their own; the server meets them in the model files. `PROJECT.json` lists the hazards of
this code, each at its line.

## Modules

| Module | Models | Used by |
|---|---|---|
| `LiveFeed` | the live cache and its threads | `MCLiveFeed`, `MCLiveThrottle`, `MCLiveHourly`, `LiveFeedProofs` |
| `StationBoard` | what the board says of a gauge, over the cache of `LiveFeed` | `MCLiveFeed`, `LiveFeedProofs` |
| `RateLimit` | the limiter | `MCRateLimit`, `RateLimitProofs` |
| `AgentLoop` | one request of the Agent | `MCAgentLoop`, `AgentProofs` |
| `FollowUps` | what a follow-up question takes over, and which calls are let through | `MCAgentLoop`, `AgentProofs` |
| `BoardAgent` | the Agent on the watch board and on a facility's | `MCServer`, `ServerProofs` |
| `BoardViews` | the lists of gauges, facilities and rain of one frame | `MCServer`, `ServerProofs` |
| `ClosureLedger` | what the closure log promises | `ClosureLog` |
| `ClosureLog` | the file, its readers and writers | `MCClosureLog` (extended by `MCServer`), `ServerProofs` |
| `ControlRule` | the closure-review rule, live and over a season | `Scorecard`, `RulesProofs` |
| `Scorecard` | matching of episodes and closures; composes the rule with the closure log's records | `MCScorecard`, `RulesProofs` |
| `FacilityRisk` | the judgement of one facility as operators | `RiskReview`, `WatchBoard` |
| `RiskReview` | one facility judged, as it is or under a synthetic storm | `MCScorecard`, `RulesProofs` |
| `RainTotals` | the rain part of the live cache, and the requests that sum it | `MCScorecard`, `RulesProofs` |
| `OfficialFeeds` | the two feeds, their callers and their sources | `WatchBoard` |
| `WatchLog` | the recorder's file and the season board | `WatchBoard` |
| `WatchBoard` | composes the last three: callers, the recorder thread, restarts | `MCWatchBoard`, `WatchBoardProofs` |
| `EventReplay` | the record of an event and its what-ifs, as operators | `IntentPlan` |
| `IntentPlan` | a question, its plan and the analysis that is run | `MCScorecard`, `RulesProofs` |
| `HistoryPipeline` | five scripts, their files and the server's loaded model | `MCHistoryPipeline`, `HistoryPipelineProofs` |
| `OpsShell` | the operator's pages in a tab: routing, requests, the panel | `CaseReplay` |
| `CaseReplay` | the page of a past case inside that shell | `BrowserPages` |
| `TwinConsole` | three parts of the older console | `BrowserPages` |
| `BrowserPages` | composes the pages, with the panel on them, and the console | `MCAgentLoop`, `AgentProofs` |
| `Sieve` | a list comprehension with a condition | `AgentLoop`, `OfficialFeeds`, `ClosureLog` |
| `SieveProofs` | least and greatest numbers, what `Sieve` keeps | the other proof modules but `RateLimitProofs` |

A definition whose comment begins "As a bug" stands for a mistake that is easy to make in
that code. No specification uses it; put in place of the definition after it, it breaks
one of the properties, which shows that the property depends on that line.

### LiveFeed

`snaps` is `_LIVE.snapshots`; one station stands for all, so a snapshot is its fetch time
and that station's reading or `None`. `hist` and `disk` are the stamps of one gauge in
`rain_hourly_history` and in its file. Each thread has its place in the call (`pc`), the
time it read before the lock (`now`) and which call it makes (`task`). A pull is a
sequence of actions, one per network call - `PullWater`, `PullHourlyAndDams`, `PullRain`,
`PullRainHourly`, `Persist` - each of which may raise, and the `except` clause keeps what
came before. `EnterAndReturn` and `EnterAndPull` are the two outcomes of the check made
with the lock held. `ReadLatest` and `ReadHistory` are the two reads of `_frame` that take
no lock. `Restart` is a kill at any step and the import that follows.

Left out: `hourly_fetched` and the 1-hour water levels (they are in `StationBoard`), the
10-minute rain slots (in `RainTotals`), and the two error texts; no property here depends on them, and each multiplies the states. Forcing
a refresh (`force=True`) is not used by a route.

Properties: `TypeOK` (with mutual exclusion), `SnapshotsSpaced`, `FrameIntact` and
`RestartKeepsWindow`. `unsaved` is a history variable for the last.

### StationBoard

`AssessStation` is `assess_station`, `BaselineFor` the search for the past a rate is taken
from, `Changed` a gauge's place in the lists of `changes()`, `ReplayRow` the row of a
replay. Pulls fill the same `snaps`, one step each; `hourly` holds the 1-hour values of the
gauge. The source may be late, repeat a reading, serve an older one again or revise one.

Property: `RowsLookAtTheNearestPast`. The baseline is searched by position, so once the
source has served an older reading again, or another level for the same time, the nearest
past is no longer found; the property says what holds until then (`InOrder`) and what holds
regardless: a full deque always has an hour for `changes()` to compare with, and a replay
never calls the hour it shows stale. The fallback to the hourly value has no age limit, so
a rate may span hours after an outage; the property does not forbid that. Nor does it
speak of a revised reading in `changes()`, whose span counts as a minute then.

### RateLimit

`stamped[r]` is a request between `time.time()` and the lock; `Check` is the whole locked
section. `log` is the history of admissions, and a deque is the set of indices of `log` it
holds. `Reset` is `reset()` and a restart. The day limits hold in windows of a day *less
the longest wait for the lock*: a newer request may drop an admission that an older
waiting one would still have counted. The minute limit holds in every full minute, because
entries are kept for a day.

### AgentLoop

A step is one decision of the model together with what the server does about it: a request
shares no state with others, so nothing can come in between. The model is a free choice
(`Finals`, `ToolRun`, `ToolRejected`, `ToolRepeated`, `ModelUnavailable`). A question is
what the server's own patterns say of it. What the text checks decide (numbers supported,
readable, an effect claimed) is part of the free choice. The event scope is modelled; what
`_reply` makes of a reply on the facility and watch boards is in `BoardAgent`.

Fairness: `WF_vars(Next)`. The request has a thread of its own, every provider call is cut
off by the remaining time budget (`asyncio.wait_for`, `agent_runner.py:163`, and the
deadline at 1008), and every tool is local work, so the next step does come. The only
other module that assumes fairness is `WatchBoard`.

### FollowUps

`Router` is `_router_hints` for the three events, `Resolution` is `resolve_question` over the
questions a request carries, `Accepts` the validation of a call; `AskNext`, `ReadEntries` and
`ModelCalls` are the steps. A question is the kinds of words in it and the values it states,
each with the way it is written (`Kinds`), because the patterns of the code differ in what
they read. A call carries the names of its values, and one that is not a parameter of its
tool (`Parameters`, the table `_PARAMETERS`) turns the call down before anything else is
looked at.

Property: `FollowUpsKeepTheirSource`. It is stated against `Source`, the questions that only
went on with the one before, which is defined without the resolution. Three facts of the
code limit it or show in the model: a relative closure in other words than earlier and later
("10 minutes sooner") is not refused in a follow-up and is answered from the registered
closure; the pattern of a HAND length in the hints lets a particle follow ("2m를"), the
validator's does not, so the server turns down the call it suggested; and "1.5 minutes" is
read as 5 minutes.

### BoardAgent

`WatchRules` are the rules of `hints` on the watch board, of which the first that fits counts,
`FacilityHints` those of a facility, `Valid` is `validate`, `Result` what `run_tool` returns
as far as the reply looks at it, `SafeAnswer` the two `safe_model_answer`, `Caveats` and
`Conclude` what `_reply` adds, replaces and lowers. The loop is a free choice here; while it
goes on the board moves (`BoardMoves`), so that two tools of one question may count
differently, except on a replayed time. `was` is a history variable: the counts since the
question.

Property: `AnswersKeepToTheTools`. It says what the code promises and no more: stage counts
in the model's text pass if no tool counted any; an answer that names a forecast or the
archive is taken to have given that caveat itself; the watch board does not, as a facility
does, lower the status when a tool that the question calls for was not run; and a value of
the hints outside the bounds of a parameter (a limit of 0, a change since 5 minutes) is
turned down by `validate`.

### BoardViews

`CatalogueOf` is `facility_catalog` (the registry, then the files, without repeated ids and
second segments), `Overview`, `FacilityStatus` and `RainSummary` are three requests on one
frame. Places lie on a line. What a reading means is `StationBoard`'s; here a gauge has one
of the results it can come to (`ResultsOf`): a gauge without levels is `"unrated"` also
while its reading is missing, one with levels has no stage then, and `severe` alone rates no
reading, because it is no stage. The code breaks the last tie of a facility by its name, the model by its
place in the catalogue. A sum is the number of pairs that count it (`Total`), and a list is
sorted by giving each member the place after those that come before it (`Sorted`), which
is what `sorted` does with keys that differ.

Property: `BoardsTellOneFrame` (`RegionsAddUp`, `BoardsAgree`, `MostUrgentFirst`,
`PlacesKept`). The run asks the first three once something came (`SomethingCame`), so that
TLC does not count the same empty board again in every state of the other two reviews; the
theorem has them of every frame. Rain in a region without a gauge is counted in the rain's own summary only,
and a facility counts in its own region while its gauge may lie in another; the property
says by how much the boards differ for it. The counts by stage hold every gauge but those
that have levels and no reading (`Expected`), so the missing ones are not simply what is left:
a missing gauge without levels is in both counts.

### ClosureLog and ClosureLedger

`file` is the sequence of lines, `tail` the text after the last line feed. `NotStored` is
an `OSError`: nothing, everything, or a part of the line is in the file. The next line is
glued to the tail. `EndRecord`, `AppendAmendment` and `ReturnRecord` are the three locked
steps of `end_record`; anything may happen in between. `ClosureLedger` is the promise:
entries are only added, an amendment fits a record entered before it, and a confirmed
entry stays. `ClosureLog` implements it (`IsLedger`) with the ledger mapped to the entries
that take part in the merge and the confirmations mapped to those still in the file; that
confirmed entries may be missing from it is the finding `AckedStaysListed`, and
`LostAtMostTorn` bounds the loss. It counts the entries that are in the file. A write cut
within a character of several bytes leaves `garbled` set, and then every read raises
`UnicodeDecodeError` and shows none of them, lost or not; the bound says what the file keeps,
not that it can be read.

### ControlRule and Scorecard

The rule is in the code twice. `Review` is `assess` for one moment: the window, the base
row, the stage, the time left. `AdvanceWindow`, `AdvanceBase` and `FlagRow` are the three
steps of the loop of `_review_flags`, whose pointers `lo` and `cand` only move forward
(1-based here, so `cand = 0` is the code's -1). `TakeRow` is a turn of the loop of
`_review_episodes`. `stored` is the history, `series` what is left of it without the
quarantined readings; `Missing`, `Jump` and `NeedsLook` are the quality marks, taken over
`stored`. Rates are compared by cross-multiplication: the code divides the same floats in
both places. `Scorecard` matches the episodes with a list of closure records, the same
`[kind, at]` that the closure log returns.

Properties: `FlagsAgree` (both evaluations recommend at the same readings),
`EpisodesTellTheSeason` (`EpisodesAreRuns`, defined from the recommendations alone, without
the loop, and `DoubtfulEpisodesMarked`: whatever was flagged between a recommendation's base
row and its reading marks its episode) and `MissIffUnseen` (a closure is a miss exactly when no single
recommendation was within the match window). `QuietIsUnseen` is a finding.

`LevelAssumption` says that the levels rise with the stage. The code relies on it and the
registry does not check it; the registered facilities satisfy it.

### FacilityRisk and RiskReview

`Facilities` is what the registry says of a facility as far as the judgement looks at it,
`RiskInputs` what one judgement takes in. `RiskLevel`, `Status` and `Evidence` are the
three things the code derives apart from the same inputs; `FacilityRow` puts them in a
row. `Simulated` is `sim`: the storm lifts the stage of the river gauge and replaces the
rain, and no official input is used. `RiskReview` chooses a case and judges it once.

Properties: `RowTellsItsReasons` (`EvidenceExplainsLevel` and `StatusMatchesEvidence`),
`CalmIsSeen` and `InputsOnlyRaise` (`MoreRainNeverLowers` and `StormOnlyRaises`). Two facts of the code limit them and are said in
their comments: a river facility without a gauge is judged by rain, but its rain evidence
says `used_for_level: false` (the route is compared with `"pluvial"` and is
`"pluvial_fallback"`); and a gauge without levels is shown calm and screened like one
below its levels.

### RainTotals

A tick is a slot of ten minutes and an amount of rain is the set of the slots it sums, so a
total that leaves a slot out is told from a smaller amount of rain. `slots`, `hourly` and
`last` are the rain in `_LIVE`, `mine` is `_RAIN_HISTORY`, `saved` the file. A pull stores
its rows one by one (`StoreSlot`, `StoreHour`) and `PullEnds` saves what changed, or does
not. `_live_totals` copies gauge by gauge (`Merge`), takes the newest reading and the time
(`Survey`) and sums gauge by gauge (`Sum`); `rain_frame` is `BeginFrame` and `FrameGauge`.
Neither holds the lock of the pull: a dictionary that grows during a loop ends the request
(`Raises`). One gauge is summed in one step: an hour stored between the sums of two windows
would only make them end at different hours, which the property allows. How often a pull
comes is the question of `LiveFeed`; here it comes at any time.

Property: `WindowsAreWhole`. It allows what the code does allow: the 12 hours may end an
hour and a half before the 3 hours, so a longer window can hold less rain than a shorter
one, and on the rain map the last hour has no age limit, only the time it ended.

### OfficialFeeds, WatchLog and WatchBoard

`commands` and `alerts` are what officials issued; `ff` and `kw` are the two caches with
the time they were pulled at, `lock` who pulls. A caller reads the clock (`now`), waits,
pulls or is throttled, and reads the rows after the lock is released (`ReadForecast`). A
pull answers with a list, with an error body that has a good HTTP status, or raises; the
forecast feed then keeps, empties or keeps its rows, the alert feed is emptied and says
so. `since` is a history variable: what the feeds answered since the last command.

`WatchLog` holds the lines and how `season_board` reads them. A cut-off write is `Torn`
and the next line is glued to it; one torn line makes the season unreadable (`Readable`),
as `json.loads` raises. `WatchBoard` joins both with `FacilityRow`: `Assess`, `AskFeeds`
and `Judge` are a call of `facility_risk`, the recorder writes (`Record`), fails
(`SnapshotFails`) or finds no key (`RecordNothing`), and `Restart` empties the caches and
may cut off the line being written. `skipped` and `missed` are history variables.

Properties: `BoardTypeOK` (with the locks), `PulledOncePerRefresh`,
`WarningMissesExplained` (`ForecastMissExplained`, `AlertMissExplained`),
`SeasonTellsTheWatch` (`OneMissedDoesNotSplit`, `MinutesAreTime`, `AloneMeansUnannounced`)
and the liveness property `RecorderComesBack`. The comment
`watch_log.py:23` says that a missing snapshot or two does not split an episode; two do,
because the ten minutes of sleep start when a snapshot is done and three of them exceed
the gap, so the property is stated for one. `Assess` takes the time of a board and the clock that the
forecast feed compares with at one instant; in the code the calls for rain and AWS lie between
the two (`facility_risk.py:367-381`), so there the feed's clock may be later than the board's
time by the length of those calls. A record line does not tell a facility
without data from a calm one. A quick restart counts some minutes twice, which
`MinutesAreTime` bounds. With `FLOODOPS_TWIN_MODE=live` and no key nothing is recorded.

Fairness: `BoardFairness`. A pull ends by an answer, an error or its timeout
(`timeout=` in both feeds) and a lock is passed on, so a caller that can go on does;
writing a line is local work. Time, sources, requests and restarts have none.

### EventReplay and IntentPlan

`EventReplay` is arithmetic on the times of a record: `ClosureTiming`, `InflowDelay` and
`BreachAdvance` are the what-ifs A, B and C on the record of Osong, `ResponseTiming` the
one on the press cases, `CompareClosures` and `CompareDelays` the comparison. A time is a
minute after midnight, a `ValueError` is `Rejected`. `IntentPlan` leads to them: `Ask`,
`Plan` and `RunWorkflow` are a question, the reply of `plan_agent` and the workflow posted
from it; `CompareTimes`, `CompareShifts` and `TimeResponse` are the requests that need no
plan. A question is the kinds of words in it and the values it states as they are written
(`Expressions`); the patterns that read them are `ClockTimes`, `Minutes` and `Radii`. The
model's answer is a free choice of what its schema allows, or nothing; the limiter may turn
the request down.

Property: `AnalysesKeepToQuestionAndRecord`, which is `PlanKeepsToTheQuestion` and
`WhatIfsKeepTheRecord`. They state what the code
does, some of which a user may not expect: the minutes of a spoken clock ("8 hours 25
minutes") are minutes for a delay too, minutes written in English pass for metres when
they are at least 50, and the planner may call an advance READY that the workflow turns
down, because only the service knows the entry before the failure. The event is Osong, and
an inventory is its radii; what it counts is read from files.

### HistoryPipeline

A file of rows is the set of the hours in it, and its SHA-256 is its content. Every script
is a process with its place and its locals (`fetch`, `qc`, `audit`, `count`, `train`), one
of a kind at a time, and they meet only in files, which are written row by row and neither
locked nor replaced in one step. `KillFetch` and its like end a script between two writes
or within one, which leaves a `Torn` file. `served` is what the server's `lru_cache`s
hold. `behind` and `crossed` are history variables that name the exceptions, and so are those of
`masking`: `edited` (the policy was edited since the running audit began), `prior` (the
stations to which no audit begun since the last edit has come) and `unread` (those whose csv
was written since an audit read it).

Properties: `PipelineTypeOK` (with: what a script writes is what it set out to write),
`EventsAreTheAudits`, `ManifestTellsCsv`, `TrainedByPolicy`, `UpperNotOlder`. Training takes a
mask by its name and asks neither what it is of nor under which policy it was made. A mask of an
older policy therefore lets in rows that the policy in force quarantines, until the station is
audited anew; `TrainedByPolicy` is about every pick after that, and `prior` names the stations
before it. A mask of an older csv, or a half-written one, leaves good rows out, which the second
half of the property allows for no other reason. Left out: a
reader that sees half of the last value of a csv being written (rows are whole here), the
rows that training leaves out for other reasons (jumps, sampling, holdout), and the
regression. A fetch is of whole years at hourly steps: the 10-minute series and `--months` are
left out, and with them that a raw file of one year is taken again for other months of it,
because its name says the year only (`collect_hrfco_history.py:147-153, 169-171`). A training without an upper model leaves an older upper model beside the new
one; `UpperNotOlder` therefore speaks of trainings that made one.

### OpsShell, CaseReplay and TwinConsole

A page of `ops/` is a chain of awaits. `renders` holds the pages under way, each with the
promises it waits for and the sets of paths still to ask for (`Before` it is drawn, `After`);
`memo` is the map of `cached`, a promise being its path and the routing that made it.
`Route`, `Arrive`, `NextSet`, `Draw`, `DrawError` and `Finish` are the steps of the browser;
what awaits nothing goes on before the next event (`Settled`), as microtasks do. `panel` is
the Agent's panel on the screen and `conv` the conversations, which outlive it. `left` is
a history variable: pages that were left while they were under way.

`CaseReplay` adds the page of a past case. `timer`, `map` and the slot of the rule belong to
the module `cases.js` and not to a page, so each carries the routing that set it going.
`TwinConsole` holds three effects of the older console with the replies they await; a
cleanup drops what was asked before, which is why `loads` has one element and a dropped
reply needs no action. `BrowserPages` puts them together: the panel is asked while pages
change and a case is replayed; the console is another tab and shares nothing with them.

Properties: `RequestedOnce`, `FollowUpsKnowTheTurns` and, of what a page shows,
`PagesShowWhatIsAsked` (`ScreenIsOfTheTab`, `ReplayIsOfThePage`,
`ConsoleShowsWhatIsChosen`). The code looks for elements by name and
not for the page it belongs to, so each property names what it does not promise:

- a page that was left comes late and is drawn over the page of the open tab; the panel on
  it is its own, so what is asked there is asked about what is shown;
- the Osong case asked for twice puts a second map over the first and nobody removes the
  first, and its rule may land under another case;
- a question sent from a panel that has left the page is answered into the conversation
  without the new panel knowing of it, so a follow-up may miss a turn; the input of the new
  panel shows the draft that was already sent;
- a poll of the live status that was sent before a replay time was chosen is not dropped
  and puts the live status over the chosen time (`TwinBoard.tsx:109`).

Left out: scrolling, texts and markup, the suggested questions, the status pills, requests
that a page makes in passing, and the catalogue of facilities. `MCAgentLoop` gives the shell
four pages with the awaits of the entry page, "now" and two cases.

## Runs

| Run | Shows | Bounds |
|---|---|---|
| `live_feed` | the four properties of LiveFeed; a gauge's rows | 2 threads, time to 6 ticks, 3 snapshots, refresh 2, slot 2, hour 4; one gauge with 3 levels, 5 sets of stages, a window of 2 slots |
| `rate_limit` | the three limits | 2 addresses, 2 requests, minute 2, day 4, limits 2/3/4, time to 7 |
| `agent_loop` | limits, no repetition, honest status, an answer always comes; follow-up questions keep their source; the three properties of the pages | conversations of 3 questions on 3 events; 4 calls of 3 tools, 3 calls and 5 decisions; 4 pages and the board with 6 paths, 3 changes of the address, 3 texts typed or asked (in the replay of a case 3 of both together), cases of 2 steps; 2 times, 2 tabs, 2 changes, polls and questions, 3 values |
| `closure_log` (module `MCServer`) | reopening times, bounded loss, the ledger; the lists of the watch board tell one frame; the Agent's answers on the boards | 1 facility, 2 requests at a time, 4 requests, 2 times; 4 gauges (2 with stages, 1 without levels, 1 with `severe` alone), 2 rain gauges, 2 lists of rows, 6 results, 2 amounts; 22 questions, 2 calls, 2 counts |
| `scorecard` | the five properties of the rule and the scorecard; the three of a facility's row; the rain totals; plans and what-ifs | every series of 6 slots with 3 levels and gaps, every quarantine of one slot, 3 rules, lists of one record; every kind of facility with 8 gauge readings and both warnings, one underpass with every amount next to a threshold, 8 storms; 2 gauges for 4 slots, and 1 gauge with its hours and restarts for 7, windows of 1, 2 and 3 hours of 2 slots; questions of up to 3 kinds of words and 2 values, every way to write one, on both sides of each limit |
| `watch_board` | the feeds, the recorder and the season board | a recorder and 2 requests, 1 facility, a tick of 5 minutes to 6 ticks, refresh 1, snapshots every 2, gap 6, list 3, in force 5, 2 commands, 1 restart |
| `history_pipeline` | the five properties of the pipeline | 2 stations, 2 years of 2 hours, an hour without a value, 2 policies and an edit, 2 scripts at once, 3 or 4 in all, 1 kill |
| `live_throttle` | finding: failed pulls are not throttled | 1 thread |
| `live_hourly` | finding: an hour of rain is skipped by drift | 1 thread, 10-minute polls, 5-minute ticks |
| `agent_hint` | finding: a failed server-run analysis does not replace the model's answer | as `agent_loop` |
| `closure_torn` | finding: a confirmed record disappears after a torn write | as the closure review of `closure_log` |
| `scorecard_quiet` | finding: a declined closure next to an episode that was a hit is called quiet | 3 slots, 2 records |

Why the bounds are enough. In `live_feed` the periods keep the order of the code's
(`MaxCall <= Refresh`, the deque longer than the freshness), two threads are what one
lock and one stale clock read need, and six ticks hold three refreshes, a due hour twice
and a full deque that drops its oldest entry. In `rate_limit` seven ticks hold one day
that ends and a new one that begins; each limit is reached. In `agent_loop` the call
limit, the decision limit, two repeats and a failed analysis are all reached; every exit
fires (the coverage of the run). Three changes of the address leave a page, open another and
come back, with one request of each still on its way; of three texts one is typed, one asked
and one asked from the panel that comes after. In `closure_log` four requests are a record, its
amendment, a second amendment and one torn write. In `scorecard` six slots with a window
of 3 and a gap of 2 hold a row that leaves the window, a base row older than the window,
two episodes and a record between them; the rules are the registered kind, a rate over
no time, and a rate window wider than the rule's window. `live_hourly` uses the code's
true ratios: a tick is five minutes, an hour twelve, a poll two.

`MCAgentLoop` puts seven reviews into one run, each of its own initial states: the Agent, the
follow-up questions, the requests of the pages, the conversations, the replay of a case with the panel on its page, the
board with the dock, and a what-if panel; a review leaves the others' variables alone. `MCServer` does so with the
closure records, the lists of the watch board and a question on a board: every rule of the
hints has a question, some with a value out of bounds; two results are what two counts of one
question need, and gauges, roads and rain gauges lie on both sides of each distance. `MCLiveFeed` does the same
with the cache, at one level, and the rows of a gauge, with levels on both sides of a
stage, of a jump and of the planned flood. `MCScorecard` puts four reviews that share no state into one run: an initial state
belongs to one of them and the others' variables never change. The rain totals keep the
ratios of the code: the cache keeps fewer slots than the board's 3-hour window needs, an
hourly reading is fresh for an hour and a half, and 7 slots hold three hours, a missed
hour, a late row and a restart; two gauges are what a dictionary that grows and a gauge
that stops reporting need. Time passes and the server restarts between pulls and reads. A plan looks
at a question's words one by one but for the levee's two and two at once, so three kinds
hold every branch of the rules; the values are the record's minutes, their neighbours and
the ends of each range, and two values are what an order among shifted rows needs.

`watch_board` keeps the ratios of the code (refresh 5 minutes, snapshots every 10, gap
30); the 24 and 72 hours become 3 and 5 ticks, long enough for a command to leave the
list while it is in force and to run out. The module's constraint `Within` lets
disturbances happen one at a time: a restart or a request beside the recorder while only
the forecasts have a key, or two overlapping requests while the recorder is off, and the
recorder with both feeds and a command otherwise. It is written as a condition on the
next state, so no behaviour is cut off within a step; 1.5 million states.

`history_pipeline` looks at three studies, one per group of properties: the manifest
(fetch and qc, 3 scripts), the event counts (fetch, audit, events, 4 scripts) and training
with the server (fetch, audit, train, 3 scripts). Two scripts at a time are what one
overlap needs, the policy is edited once (in the study of the event counts after an audit), and
inputs of the hour itself and
of the one before with a target an hour ahead make a window of 3 of the 4 hours; 5.0
million states.

`CHECK_DEADLOCK FALSE` stands where the system really stops: a request of the Agent ends
with its reply, the pages end at the bounds on what the user does, the closure log ends at the bound on requests, the scorecard and the
review of a row are computations that end, the board ends at the bound on time, and the
pipeline ends when all scripts have been started.

## Proofs

Eight modules hold theorems; all but `RateLimitProofs` build on `SieveProofs`. A theorem is
for every value of the constants that satisfies the named assumptions of its modules.

### SieveProofs

The library's induction theorems take an operator as a parameter, which the provers cannot
instantiate. `LeastNat` and `GreatestBelow` give the same argument with sets: a nonempty set
of naturals has a least element, so the least counterexample of a statement has a
predecessor for which it holds. By it the module proves what `Sieve` does (the elements
kept, their order, what one more element at the end or a spoilt last one changes, that
distinct elements stay distinct), which `AgentLoop`, `OfficialFeeds` and `ClosureLog` use
for the list comprehensions of the code.

### RateLimitProofs

Type correctness and the three limits together (`LimitsHold`) for all constants that
satisfy `ConstantsAssumption`. The invariant is `Bookkeeping` (the deques hold every
admission younger than a day less the lag, for the address it belongs to, and nothing they
should not) together with `Limits`. The limits alone are not inductive: an admission must
know that what it counts includes everything in the window it could join
(`CountedForClient`, `CountedForAll`), which rests on pruning keeping a day
(`PrunedKeepsADay`). A window that the new entry does not join is unchanged; one that it
joins holds, besides it, only counted entries.

### LiveFeedProofs

For any set of threads: type correctness with mutual exclusion, `SnapshotsSpaced`,
`RestartKeepsWindow`, `FrameIntact` and, of the rows of a gauge,
`RowsLookAtTheNearestPast`. `SnapshotsSpaced` is not inductive alone: it
needs `WaterDue` (the thread at the water pull found the last snapshot at least `Refresh`
old at the time it works with) and the exclusion in `TypeOK`, by which nobody else can
store one in the meantime. `RestartKeepsWindow` needs `Saved` (an hour in memory is in the
file or in `unsaved`, and no stored hour lies in the future, so the loader's upper limit
drops none).

`FrameIntact` says that a reader whose two reads straddle a snapshot decides as one that
holds the lock. The reader stands between two ticks, and every call is younger than a
refresh (`CallsYoung`), so at most one snapshot can come between its reads: the deque is as
it was or one snapshot on (`Torn`). If that snapshot pushed one out, the one pushed out is
older than the freshness of a reading and a step (`FarApart`, `SlotsPast`), and the search
for the previous step never turns to it. The argument needs the deque to be long enough for
the freshness, `(Keep - 1) * Refresh >= Fresh + Step`; in the code that is 12 times 5 minutes
against 30 and 10 (`maxlen=13`, `REFRESH_SECONDS`, `FRESH_MINUTES`).

The rows of a gauge rest on the same `FarApart`: a full deque spans the hour that `changes`
looks back.

### RulesProofs

*The control rule.* The season scan and `assess` agree (`FlagsAgreeHolds`) for
every series, with whatever gaps, every rule, window and set of rising levels, and the
pointers stay in range (`TypeCorrect`). Agreement alone is not inductive: `PointersBehind`
says that the rows the pointers have passed are too old for the row at hand. When neither
loop condition holds any more, what they have not passed is known too, and the base row is
the one `assess` chooses (`BaseIsAssessed`); with rising levels a stage is reached when its
level is (`StageByLevel`), so the flag is the recommendation (`FlagIsReview`).

*Episodes.* `EpisodesTellTheSeasonHolds`: the invariant `Runs` says of the rows taken so far
that each episode begins and ends at a recommendation, is linked by gaps no longer than
`EpisodeGap`, counts its rows and has their peak, that two episodes are further apart than
the gap, and that no recommendation is left out. From it follow `EpisodesAreRuns`, which
speaks of the recommendations alone, and the marks of doubtful data.

*The scorecard.* `MissIffUnseenHolds`: the code compares a record with the two ends of an
episode, the property with single recommendations. `NearOne` closes the distance: a time
within the window of an episode is within the window of one of its recommendations, because
its links are no longer than that window.

*A facility's row.* `ReasonsAreTold`, `CalmWasSeen`, `OnlyRaised` and their parts for all
facilities, inputs, storms and amounts. The invariant only says that a row is the judgement
of its case; the work is in the lemmas about the operators: the highest of the levels
(`MaxOfThree`, `MaxOfFour`), what falls in a window still falls with more rain
(`PluvialRises`), and a storm lifts the stage or leaves it (`StormLifts`).

*Rain totals.* `WindowsAreWholeHolds` for any gauges, amounts kept and length of an hour. A
window is an interval because it is as large as the interval it lies in (`Whole`). A reader
takes no lock, so `RainInv` has to say which stamps may be in the cache, in the file, in a
pull half stored and in a reader half done: hourly ones end an hour, and nothing is summed
before it was merged.

*Plans and what-ifs.* `AnalysesKeepHolds` for every set of questions and every answer the
model's schema allows. `AskInv` keeps a READY plan with the question it was made from
(`ReadyIs`); the lemmas on `EventReplay` show that a shift of a stored event keeps the
recorded order, and that what is turned down is an advance longer than the record has room
for (18 minutes).

### WatchBoardProofs

For any set of callers. `FeedsPulledOncePerRefresh` is not inductive: a caller that waited
has a time from before the pull it waited for. `PullInv` says that the holder of a lock, and
nobody else, is at its pull, that it found the cache a refresh old at the time it works
with, and that no stored time lies in the future; the cache cannot change while the lock is
held. `BoardTypeOKHolds` needs `HolderPulls` for the locks. `WarningMissesExplainedHolds` has
an invariant of what the feeds have answered since the last command (`ExplainInv`): a list
that was read after it, and early enough to carry it, ends with it until the rows are wiped
(`ListCarries`); alerts read after the zone's last command are that command if it was in
effect when the pull began (`AlertCarries`); nothing that was read lies in the future
(`Past`).

`SeasonTellsTheWatchHolds` has three layers, which TLC checked as invariants first.

- *The fold.* `SeasonOf` is a recursive function over the lines; `SeasonGrows`, by the least
  counterexample, gives it as one more `Counted` on the row so far. `Told` says how a row's
  episodes tell a sequence of snapshots (apart from each other, none after the last
  snapshot, every alarm inside one, its flag kept, two alarms within the gap inside the
  same one), and a snapshot that is not older than the last one keeps it
  (`QuietTold`, `JoinTold`, `OpenTold`).
- *The pace.* The recorder sleeps, works or holds a line, one at a time (`OneThing`), and
  the next line is of no time before the newest; unless two are missed, it is also not later
  than the gap (`WatchInv`). For the minutes, a line stands an interval after the one before,
  or a restart pays for it (`Paced`): `FirstSleep <= Interval` is what keeps the first line
  after a restart within the gap.
- *What the recorder hears.* A forecast is `Standing` at t if it was issued a refresh before
  and is still listed when the work that began at t is over. While no pull has failed since
  the command, the recorder that is past its read at t has a list from after the command
  (`HasList`), the forecast from the list (`HasForecast`), and its flag in the line
  (`Written`). A step that would spoil this, a later command or a failed pull, also ends
  `Clean` (`CleanWasClean`), so the past lines need no second look.

### HistoryPipelineProofs

All five properties for all stations, years,
policies and bounds. `PipelineTypeOKHolds` takes the files and the five scripts' locals one
by one (`FilesInv`). `CountsAreTheAudits` carries the audit along: the report's entries are
audits of what they name (`ReportInv`, `AuditInv`), and what is counted so far is what the
entry's audit found usable unless the station is crossed (`CountInv`, `EventsInv`).
`TrainingKeepsToPolicy` is an action property, of the step that picks. It rests on what is true
of the masks at any moment (`MaskInv`): wherever an audit begun since the last edit has been,
the mask is one of the policy in force, and where the csv was not written since an audit read
it, one of the csv on disk, also while the mask's rows are still being written. An audit that
runs across an edit must not count (`edited`), and what follows from a mask is `MaskedSound`;
that a finished mask covers every row needs the greatest of a finite set (`InSpan`).
`ManifestIsCurrent` strengthens the property with what fetch and qc are about to
write. `UpperIsNotOlder` needs the order of the files on both sides: while a training
writes, its upper model is there before anything else of it (`UpperInv`, `UpperReaches`),
and no file and nothing served is of a training later than the one that runs
(`NoneAfter`).

### ServerProofs

*The closure log.* Type correctness, `EndsAfterStart` and `LostAtMostTorn` for all
facilities, threads and bounds. Numbers are given once (`Numbered`), so the record that
`end_record` checked is the only one its amendment can ever mean, and what fitted then fits
the record that is there when the amendment lands (`Checked`). For the loss, `Accounted`
keeps a bill: the entries that are lost, or will be when their thread confirms them, and a
torn tail that has not yet swallowed a line are together no more than the torn writes. A
write that meets a torn tail moves one from the tail to the lost.

*The refinement.* `IsLedgerHolds` shows that the log implements `ClosureLedger`. Every line
has a number of its own and no thread is about to write one that is there (`Apart`), so a
write adds one line to those in effect, or spoils the last, unconfirmed one
(`OneMoreLine`, `SpoiltLine`). Each step of the log is then an `Enter`, a `Confirm`, a
`Withdraw` of the ledger or a stutter (`StepOfLedger`, `LedgerStep`).

*Answers on a board.* `AnswersKept`: every result is of a call the scope allows, with the
user's own values, and its counts were on the board since the question (`RanInv`); of a reply
`KeptTo` says what may be told given what was run.

*The lists of the watch board.* `BoardsTellOneFrameHolds`, for any gauges, rain gauges,
groups of regions, files and readings. That the state is a frame of its types over one
catalogue (`BoardInv`) is inductive; the work is in what the operators make of a frame:

- A set that falls into parts has as many members as the parts together (`SumOfParts`,
  by a bijection between the set and the pairs that `Total` counts). Gauges by region
  and by stage, rain gauges by region, facilities by gauge and by region are such parts, of
  a group as of a region, because no member of a group is a group itself.
- `Sooner` is a strict order on keys of one length that differ, so a finite set has just one
  member at each rank, and `Sorted` is the list of all of them in order (`SortedList`). Keys
  differ because the last entry is the place in the catalogue. What is cut off a list comes
  after all that is in it (`CutOff`), and a sooner key is a higher stage, or the same stage
  and no later at the planned flood level (`SoonerGauge`, `SoonerFacility`).
- `CatalogueOf` goes through the rows of a file as a recursive function: each value is
  `Taken` from the one before (`CatalogueSteps`), and by the least counterexample each is
  `MadeWell`: no id twice, and every row so far on the board itself or as the segment of one.
- Each facility has at most one gauge (`NearestIsOne`), so the two boards count the same
  facilities but for those whose gauge lies in another region (`BoardsDoAgree`).

### AgentProofs

*One request.* `HonestStatus`, `LimitsKept` and `NoToolRunTwiceHolds` for any tools, questions
and limits. Not running a call twice is not inductive: `CallsInv` adds that while the request
is open every recorded call is remembered as seen, and that a second repetition has ended
the loop. The server's own runs are new because the hints name each tool once and it takes
the missing ones only (`MissingRunnable`).

*The pages.* `RequestedOnceHolds`, `ScreenIsOfTheTabHolds` and `FollowUpsKnowTheTurnsHolds`
for all pages, awaits and conversations, in whatever order answers come. `Remembered` ties `memo`
to `flight` (a path on its way is remembered as that very request, an answered one as a
settled one), `Routed` ties the pages under way to the address and to those that were left,
and `Chatted` says of a question on its way that the turns it does not know of are none of
its own panel's.

*The page of a past case.* `PagesShowWhatIsAskedHolds` is all three parts together, for
`BrowserSpec`; its new part is `ReplayIsOfThePage`. A page that was left late is drawn over
the one that stands there, and the map, the rule and the timer are the module's: the proof
has to know in which order pages of one case come. All that the Osong page asks for is
cached, so a page opened earlier never waits for more than one opened later: `InOrder`
says that it is ahead of it, by what it still has to ask for or by what it waits for,
unless its request failed. With it, once the page of the tab is drawn no older one of its
case is drawn over it, and once it has its map no other one comes (`Mounted`). `Ruled` says
whose rule may be in the slot, `Running` whose timer runs. Every step of the replay is a
step of the shell or leaves it alone (`ReplayIsOfTheShell`), so what was proved of the
shell is used as it is. That the two sets of Osong's page have no request of the kind that
is always asked anew is part of `ReplayAssumption`.

*Follow-up questions.* `FollowUpsKeepTheirSourceHolds` for every event, whatever is asked and
whatever call the model makes. A resolution is a function over the questions of the window,
each entry made of the one before (`TurnMade`); by the least counterexample there is exactly
such a function (`TurnsExist`) and each entry is `WellTaken`: what its text states was said in
the questions that `Source` goes back to, its hints are the router's on a part of that text,
and a hint that was taken over is of a question the text goes back to. `TalkInv` says so of
the last question and of every call that was let through. The first
attempt to prove it failed for a good reason: nothing kept a call from carrying the name of
a value that its tool does not have, which the code checks first; the model has that check
now.

*The older console.* `ConsoleShowsWhatIsChosenHolds` from `ConsoleInv`: a poll that is not
older than the choice of the time was sent when no time was chosen, the pending question is
the one asked in this scope after these turns, and a call that runs is for the value chosen.

### What is assumed

The assumptions are in the modules that declare the constants, and the runs evaluate all of
them. Most say what a constant is (a period is a positive number, `None` is not a value it
stands beside). The others are facts of the code:

| Assumption | In the code |
|---|---|
| `LiveFeed`: `MaxCall <= Refresh`, `(Keep - 1) * Refresh >= Fresh + Step` | 13 snapshots of 5 minutes, readings fresh for 30, slots of 10; a pull ends by its timeouts |
| `StationBoard`: a slot is 10 minutes, `Hour <= FreshHour`, `Since <= (Keep - 1) * Refresh` | hourly values fresh for 90 minutes, changes since 60 |
| `ControlRule`: levels rise with the stage | holds of the registered facilities; the registry does not check it |
| `RainTotals`: `FreshSlots <= FreshHourly` | 30 and 90 minutes |
| `WatchBoard`: two intervals with the work in them fit the gap, `FirstSleep <= Interval`, no forecast is `NoData` | 10 minutes and the calls' timeouts against 30; a first sleep of 1 minute; the levels are texts |
| `EventReplay`, `IntentPlan`: clocks are times of day, an answer's workflow is one of the schema | the patterns of the planner and the `Literal` at `llm_planner.py:82` |
| `BoardViews`: registered ids differ, their gauges exist, a group's members are regions and no groups; what has a reading has a stage or is unrated, and any gauge may be without one | `FACILITIES` is a dictionary; `registry.json`; `REGION_GROUPS` (`national_watch.py:94`); `assess_station` (`national_watch.py:760-773`) |
| `CaseReplay`: one mapped case, whose page asks for cached paths only | `isOsong`, and `cached` around every request of `detailView` |
| `AgentLoop`: one hint per tool, the timeline computes nothing | `_router_hints` of `agent_runner.py`, with the hints of `agent_cases.py:296` |

### From TLC only

- Liveness (`Answered`, `RecorderComesBack`), which is outside what the prover does.
- The five findings, which are violations and have counterexamples.

## Plan

Done: every module of the table above, their runs, and the proofs above. Every invariant and
action property that a passing run checks is a theorem too; the two liveness properties
stay with TLC. What would come next is more code, not more proofs: the register of the
dams, the search by name, and the stored events behind `osong_repository.py`.

## Not modelled

Of the 21,000 lines of implementation most have no state of their own and no order of
steps: the repositories and boards (`osong_repository.py`, `schemas.py`
and the like) read stored files and shape answers, `main.py` passes
requests on, the data scripts other than those of the history pipeline compute tables
once, the validation and river statistics are sums and quantiles over long series, and
the rest of the front end (maps, charts, markup) renders. What they compute is numeric or textual, outside what a model
checker can enumerate, and a model of it would only restate it; the share of lines that
the map covers stays small for that reason. The HTTP layer appears as guards and
acknowledgements. Also left out: `kma_aws.py` (its rain totals are one cache behind one
lock that a failed pull empties), the in-memory scenario store (every step of it runs
within one request under the interpreter's lock), and the text of prompts and answers.
