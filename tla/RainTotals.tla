----------------------------- MODULE RainTotals -----------------------------
(***************************************************************************)
(* The rain totals of the facility board and of the rain map.  Pulls put   *)
(* 10-minute readings and hourly readings into the live cache of           *)
(* backend/app/national_watch.py while requests copy and sum them: the     *)
(* pull holds the lock of the cache, facility_risk._live_totals a lock of  *)
(* its own and rain_frame none, so that rows are stored between the steps  *)
(* of a reader.                                                            *)
(*                                                                         *)
(* A tick is a 10-minute slot.  An amount of rain is the set of the slots  *)
(* it is the sum of; a gauge's reading of slot t is the rain of t, its     *)
(* hourly reading of t that of the HourSlots slots that end with t.             *)
(***************************************************************************)
EXTENDS Integers, FiniteSets, FiniteSetsExt

CONSTANTS
    Gauges, Nothing,
    HourSlots,          \* slots in an hour
    Short, Long,   \* hours of the two long windows (3 and 12)
    KeepSlots,     \* how long the cache keeps 10-minute readings (2 hours)
    KeepHourly,      \* how long it keeps hourly readings (14 hours)
    FreshSlots,         \* how old a 10-minute reading may be (30 minutes)
    FreshHourly,   \* how old an hourly reading may be (90 minutes)
    MaxTick       \* bound on the time

ASSUME RainAssumption ==
    /\ {HourSlots, Short, Long, KeepSlots, KeepHourly, MaxTick} \subseteq Nat \ {0}
    /\ {FreshSlots, FreshHourly} \subseteq Nat /\ FreshSlots <= FreshHourly
    /\ Nothing \notin Nat

VARIABLES
    tick,
    slots,    \* rain_slots: per gauge the stamps with a 10-minute reading
    hourly,     \* rain_hourly_history: per gauge the stamps with an hourly reading
    saved,    \* its file
    hourlyAt, \* rain_hourly_fetched
    last,     \* rain_hourly: per gauge the newest hourly reading, or Nothing
    mine,     \* _RAIN_HISTORY: the copy that the facility board keeps
    pull,     \* the pull that stores rows, or Nothing
    reader    \* the request that reads, or Nothing

rainVars == <<tick, slots, hourly, saved, hourlyAt, last, mine, pull, reader>>

Stamps   == 1 .. MaxTick
Reporting(of) == {g \in Gauges : of[g] # {}}
Newest(of)    == Max(UNION {of[g] : g \in Gauges})

-----------------------------------------------------------------------------
(* The pulls, under the lock, at any time: LiveFeed has the throttle.  The  *)
(* network calls come first and leave the rain alone; a row is missing when *)
(* the gauge has not reported, or is older when it is late.                 *)
Rows(newest) == UNION {[G -> {newest, newest - 1} \cap Stamps] : G \in SUBSET Gauges}
HourlyRows ==
    LET onTheHour == (tick \div HourSlots) * HourSlots
    IN UNION {[G -> {onTheHour, onTheHour - HourSlots} \cap Stamps] : G \in SUBSET Gauges}

(* Every loop over rows takes them one by one.                              *)
Without(rows, g) == [h \in DOMAIN rows \ {g} |-> rows[h]]

PullSlots ==
    /\ pull = Nothing
    /\ \E rows \in Rows(tick) : pull' = [at |-> "slots", rows |-> rows, changed |-> FALSE]
    /\ UNCHANGED <<tick, slots, hourly, saved, hourlyAt, last, mine, reader>>

(* _store_live_rainfall, one row.                                           *)
StoreSlot(g) ==
    /\ pull # Nothing /\ pull.at = "slots" /\ g \in DOMAIN pull.rows
    /\ slots' = [slots EXCEPT ![g] =
                    {t \in @ : pull.rows[g] - t <= KeepSlots} \cup {pull.rows[g]}]
    /\ pull' = [pull EXCEPT !.rows = Without(@, g)]
    /\ UNCHANGED <<tick, hourly, saved, hourlyAt, last, mine, reader>>

(* The hourly call is made when it is due and may fail.                     *)
PullHourly ==
    /\ pull # Nothing /\ pull.at = "slots" /\ DOMAIN pull.rows = {}
    /\ \/ /\ hourlyAt # Nothing => tick - hourlyAt >= HourSlots
          /\ \E rows \in HourlyRows :
                /\ pull' = [at |-> "hourly", rows |-> rows, changed |-> FALSE]
                /\ last' = [g \in Gauges |-> IF g \in DOMAIN rows THEN rows[g] ELSE Nothing]
       \/ pull' = Nothing /\ UNCHANGED last
    /\ UNCHANGED <<tick, slots, hourly, saved, hourlyAt, mine, reader>>

(* _store_live_rain_hourly, one row.                                        *)
StoreHour(g) ==
    /\ pull # Nothing /\ pull.at = "hourly" /\ g \in DOMAIN pull.rows
    /\ LET t == pull.rows[g]
       IN /\ hourly' = [hourly EXCEPT ![g] = {u \in @ \cup {t} : u >= t - KeepHourly}]
          /\ pull' = [pull EXCEPT !.rows = Without(@, g), !.changed = @ \/ t \notin hourly[g]]
    /\ UNCHANGED <<tick, slots, saved, hourlyAt, last, mine, reader>>

(* What changed is saved; an OSError is passed over.                        *)
PullEnds ==
    /\ pull # Nothing /\ pull.at = "hourly" /\ DOMAIN pull.rows = {}
    /\ saved' \in IF pull.changed THEN {saved, hourly} ELSE {saved}
    /\ hourlyAt' = tick
    /\ pull' = Nothing
    /\ UNCHANGED <<tick, slots, hourly, last, mine, reader>>

-----------------------------------------------------------------------------
(* Sums.  _hourly_total takes the newest reading of each hour; the hours    *)
(* must all be there.  As a bug: an hour without a reading is passed over.  *)
HourOf(t) == t \div HourSlots
RainOfHour(t) == (t - HourSlots + 1) .. t
LastIn(stamps, hour) == {t \in stamps : HourOf(t) = hour /\ \A u \in stamps : HourOf(u) = hour => u <= t}
Back(stamps, hours) ==
    LET latest == HourOf(Max(stamps))
    IN UNION {LastIn(stamps, hour) : hour \in latest - hours + 1 .. latest}
HourlyTotalOfKnown(stamps, hours) ==
    IF stamps = {} THEN Nothing ELSE UNION {RainOfHour(t) : t \in Back(stamps, hours)}
HourlyTotal(stamps, hours) ==
    IF stamps = {} \/ Cardinality(Back(stamps, hours)) < hours THEN Nothing
    ELSE UNION {RainOfHour(t) : t \in Back(stamps, hours)}

Rolling(stamps, hours) ==
    LET window == {t \in stamps : Max(stamps) - t < hours * HourSlots}
    IN IF Cardinality(window) >= hours * HourSlots THEN window ELSE Nothing

Or(total, other) == IF total # Nothing THEN total ELSE other
IsFresh(stamps, now, age) == stamps # {} /\ now - Max(stamps) \in 0 .. age

(* The totals of one gauge in _live_totals, from its readings of 10 minutes *)
(* (ten) and of hours.  A gauge that stopped reporting gets none.           *)
NoTotals == [w \in {"10m", "1h", "3h", "12h"} |-> Nothing]
Totals(ten, hours, now) ==
    LET tenFresh == IsFresh(ten, now, FreshSlots)
        rolling(n) == IF tenFresh THEN Rolling(ten, n) ELSE Nothing
        byHours(n) == IF IsFresh(hours, now, FreshHourly) THEN HourlyTotal(hours, n) ELSE Nothing
    IN [NoTotals EXCEPT
          !["10m"] = IF tenFresh THEN {Max(ten)} ELSE Nothing,
          !["1h"]  = Or(rolling(1), byHours(1)),
          !["3h"]  = Or(rolling(Short), byHours(Short)),
          !["12h"] = byHours(Long)]

(* One gauge of rain_frame, with the time its hour of rain ends.            *)
Framed(ten, hour) ==
    [NoTotals EXCEPT !["10m"] = {Max(ten)},
                     !["1h"] = Or(Rolling(ten, 1), IF hour = Nothing THEN Nothing ELSE RainOfHour(hour))]

-----------------------------------------------------------------------------
(* The readers.  A dictionary that grew since a loop over it began raises   *)
(* RuntimeError; the request fails and keeps what it had copied.            *)
Reads(place) == reader # Nothing /\ reader.at = place
Grew ==
    IF reader.at = "sum" THEN pull # Nothing /\ pull.at = "hourly"
    ELSE Reporting(slots) # reader.keys
Raises ==
    /\ reader # Nothing /\ Grew
    /\ reader' = Nothing
    /\ UNCHANGED <<tick, slots, hourly, saved, hourlyAt, last, mine, pull>>

Begin(place, now, latest) ==
    reader' = [at |-> place, keys |-> Reporting(slots), left |-> Reporting(slots),
               now |-> now, latest |-> latest, totals |-> NoTotals]

BeginTotals ==
    /\ reader = Nothing
    /\ Begin("merge", Nothing, Nothing)
    /\ UNCHANGED <<tick, slots, hourly, saved, hourlyAt, last, mine, pull>>

(* _live_totals: the slots are merged gauge by gauge into the board's own.  *)
Merge(g) ==
    /\ Reads("merge") /\ g \in reader.left /\ ~Grew
    /\ mine' = [mine EXCEPT ![g] = @ \cup slots[g]]
    /\ reader' = [reader EXCEPT !.left = @ \ {g}]
    /\ UNCHANGED <<tick, slots, hourly, saved, hourlyAt, last, pull>>

(* The newest reading of all gauges and the time; nothing ends the request. *)
Survey ==
    /\ Reads("merge") /\ reader.left = {} /\ ~Grew
    /\ LET known == Reporting(mine) \cup Reporting(hourly)
       IN reader' = IF known = {} THEN Nothing
                    ELSE [reader EXCEPT !.at = "sum", !.left = known, !.now = tick,
                            !.latest = Newest([g \in Gauges |-> mine[g] \cup hourly[g]])]
    /\ UNCHANGED <<tick, slots, hourly, saved, hourlyAt, last, mine, pull>>

(* A gauge's copy is pruned by the newest reading of all and summed.        *)
Sum(g) ==
    /\ Reads("sum") /\ g \in reader.left
    /\ mine' = [mine EXCEPT ![g] = {t \in @ : reader.latest - t <= Short * HourSlots}]
    /\ reader' = [reader EXCEPT !.left = @ \ {g},
                                !.totals = Totals(mine'[g], hourly[g], reader.now)]
    /\ UNCHANGED <<tick, slots, hourly, saved, hourlyAt, last, pull>>

(* rain_frame: the newest reading of all gauges, then gauge by gauge.       *)
BeginFrame ==
    /\ reader = Nothing
    /\ Reporting(slots) # {} /\ tick - Newest(slots) <= FreshSlots
    /\ Begin("frame", tick, Newest(slots))
    /\ UNCHANGED <<tick, slots, hourly, saved, hourlyAt, last, mine, pull>>
FrameGauge(g) ==
    /\ Reads("frame") /\ g \in reader.left /\ ~Grew
    /\ reader' = [reader EXCEPT !.left = @ \ {g},
                    !.totals = IF reader.latest - Max(slots[g]) > FreshSlots THEN NoTotals
                               ELSE Framed(slots[g], last[g])]
    /\ UNCHANGED <<tick, slots, hourly, saved, hourlyAt, last, mine, pull>>

ReturnTotals ==
    /\ Reads("sum") \/ Reads("frame")
    /\ reader.left = {}
    /\ reader' = Nothing
    /\ UNCHANGED <<tick, slots, hourly, saved, hourlyAt, last, mine, pull>>

-----------------------------------------------------------------------------
RainInit ==
    /\ tick = 0
    /\ slots = [g \in Gauges |-> {}] /\ hourly = slots /\ saved = slots /\ mine = slots
    /\ hourlyAt = Nothing /\ last = [g \in Gauges |-> Nothing]
    /\ pull = Nothing /\ reader = Nothing

NextSlot ==
    /\ tick < MaxTick
    /\ tick' = tick + 1
    /\ UNCHANGED <<slots, hourly, saved, hourlyAt, last, mine, pull, reader>>

(* The server is killed and starts again with the file.                     *)
RestartServer ==
    /\ slots' = [g \in Gauges |-> {}] /\ mine' = slots'
    /\ hourly' = [g \in Gauges |-> {t \in saved[g] : t >= tick - KeepHourly}]
    /\ hourlyAt' = Nothing /\ last' = [g \in Gauges |-> Nothing]
    /\ pull' = Nothing /\ reader' = Nothing
    /\ UNCHANGED <<tick, saved>>

RainNext ==
    \/ NextSlot \/ RestartServer
    \/ PullSlots \/ PullHourly \/ PullEnds
    \/ \E g \in Gauges : StoreSlot(g) \/ StoreHour(g)
    \/ BeginTotals \/ Survey \/ BeginFrame \/ ReturnTotals \/ Raises
    \/ \E g \in Gauges : Merge(g) \/ Sum(g) \/ FrameGauge(g)

RainSpec == RainInit /\ [][RainNext]_rainVars

-----------------------------------------------------------------------------
(* A total is shown only if it is whole: it sums the rain of every slot of  *)
(* a window of its length, none missing, that ends with a recent reading of *)
(* the gauge.  Slots that no pull brought, hours that drifted past, a       *)
(* restart and rows stored while the request sums never make a smaller      *)
(* amount look like a full window.  On the rain map the hour may be older   *)
(* (rain_1h_end says when it ended).                                        *)
Length(w) == CASE w = "10m" -> 1 [] w = "1h" -> HourSlots
               [] w = "3h" -> Short * HourSlots [] OTHER -> Long * HourSlots
MaxAge(w) == IF w = "10m" THEN FreshSlots ELSE FreshHourly
WindowsAreWhole ==
    reader # Nothing =>
        \A w \in DOMAIN reader.totals :
            LET total == reader.totals[w]
            IN total # Nothing =>
                \E end \in Stamps :
                    /\ total = end - Length(w) + 1 .. end
                    /\ reader.at = "sum" => reader.now - end \in 0 .. MaxAge(w)
=============================================================================
