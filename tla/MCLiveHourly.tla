---------------------------- MODULE MCLiveHourly ----------------------------
(* Steady polling: the rain is asked for again at most PollGap after it was *)
(* last pulled, every pull succeeds at once, the source publishes each hour *)
(* on the hour and the process never restarts.  One tick is 5 minutes.      *)
EXTENDS LiveFeed

CONSTANTS t1, PollGap

MCThreads == {t1}
MCLevels == {0}

SteadyNext ==
    \/ Tick /\ (rainAt # None => clock' - rainAt <= PollGap)
    \/ Call(t1, "rain") \/ EnterAndReturn(t1) \/ EnterAndPull(t1)
    \/ PullRain(t1) /\ pc'[t1] = "rainHourly"
    \/ /\ PullRainHourly(t1)
       /\ HourDue(rainHourlyAt, now[t1]) => (clock \div Hour) * Hour \in unsaved'
    \/ Persist(t1)

SteadyInit == Init /\ hasKey = TRUE

SteadySpec == SteadyInit /\ [][SteadyNext]_vars

(* The hourly feed "is received every hour and kept" (TODO.md, the 12-hour  *)
(* total): between the first and the last hour held, none is missing.       *)
NoHourSkipped ==
    \A h \in hist : h < Max(hist) => h + Hour \in hist
=============================================================================
