--------------------------- MODULE MCLiveThrottle ---------------------------
(* One caller of refresh_live; the last full pull is remembered beside it.  *)
EXTENDS LiveFeed

CONSTANT t1

VARIABLE pulledAt   \* `now` of the last call that began a full pull

MCThreads == {t1}
MCLevels == {0}

ThrottleInit == Init /\ pulledAt = None

FullPull(t) == EnterAndPull(t) /\ task[t] = "all"

ThrottleNext ==
    /\ Next
    /\ pulledAt' = IF \E t \in Threads : FullPull(t)
                     THEN now[CHOOSE t \in Threads : FullPull(t)] ELSE pulledAt

ThrottleSpec == ThrottleInit /\ [][ThrottleNext]_<<vars, pulledAt>>

(* "Pull the bulk feeds at most every REFRESH_SECONDS" (national_watch.py,  *)
(* docstring of refresh_live): two full pulls begin at least Refresh apart. *)
PullsAtMostEveryRefresh ==
    [][\A t \in Threads :
          FullPull(t) /\ pulledAt # None => now[t] - pulledAt >= Refresh]_<<vars, pulledAt>>
=============================================================================
