----------------------------- MODULE BoardViews -----------------------------
(***************************************************************************)
(* What the watch board shows of one frame of the observations             *)
(* (backend/app/national_watch.py): the gauges with their regions          *)
(* (overview), the facilities with the gauge that stands in for each       *)
(* (facility_catalog, facility_status) and the rain (rain_frame,           *)
(* rain_summary).                                                          *)
(*                                                                         *)
(* Places lie on a line, in km.  A gauge and a rain gauge are numbers, in  *)
(* the order of the catalogue.  What assess_station makes of a reading is  *)
(* in StationBoard; here a gauge has a result of it.  The age of a rain    *)
(* gauge's newest slot counts slots of ten minutes.                        *)
(***************************************************************************)
EXTENDS Integers, Sequences, FiniteSetsExt

CONSTANTS
    Gauges,      \* gauge -> [region, km, levels]: the keys of its levels_m
    RainGauges,  \* rain gauge -> [region, km]
    RegionGroups,\* group of regions -> its regions
    Files,       \* the lists of rows the facility files may hold
    Operational, \* the rows of the registry, in order
    Assessed,    \* [stage, quality, minutes, rising] assess_station may give
    Amounts,     \* mm per hour of a rain gauge's newest slot
    AgeCap       \* ages from here on are alike

NoStage == "none"
Grades == {"fresh", "stale", "suspect", "missing"}
Stages == <<"unrated", "normal", "attention", "advisory", "warning", "planned_flood">>
RankOf(stage) == CHOOSE k \in DOMAIN Stages : Stages[k] = stage
AtLeast(stage, floor) == stage # NoStage /\ RankOf(stage) >= RankOf(floor)
Everywhere == "everywhere"     \* no region filter
Unknown == "unknown"           \* region_of an address it does not know
Never == 100                   \* no minutes to the planned flood level
Heavy == 15
LinkKm == 5
RainKm == 10
SameKm == 2
FreshSlots == 3                \* FRESH_MINUTES; a gauge 30 minutes behind the newest is out, too

Regions == {Gauges[s].region : s \in DOMAIN Gauges} \cup {RainGauges[g].region : g \in DOMAIN RainGauges} \cup {Unknown}
InKm(place) == place.km \in Nat

(* What assess_station can make of a gauge: without any level it is unrated *)
(* also while it is missing; severe alone rates no reading.                 *)
ResultsOf(s) ==
    {a \in Assessed :
        IF a.quality = "missing" THEN a.stage = (IF Gauges[s].levels = {} THEN "unrated" ELSE NoStage)
        ELSE a.stage = "unrated" <=> Gauges[s].levels \subseteq {"severe"}}

ASSUME BoardAssumption ==
    /\ IsFiniteSet(DOMAIN Gauges) /\ DOMAIN Gauges \subseteq Nat /\ \A s \in DOMAIN Gauges : InKm(Gauges[s])
    /\ IsFiniteSet(DOMAIN RainGauges) /\ DOMAIN RainGauges \subseteq Nat /\ \A g \in DOMAIN RainGauges : InKm(RainGauges[g])
    /\ \A g \in DOMAIN RegionGroups : RegionGroups[g] \cap DOMAIN RegionGroups = {} /\ Everywhere \notin RegionGroups[g]
    /\ Regions \cap DOMAIN RegionGroups = {} /\ Everywhere \notin Regions \cup DOMAIN RegionGroups
    /\ \A files \in Files : Len(files) \in Nat /\ DOMAIN files = 1 .. Len(files) /\ \A j \in DOMAIN files : InKm(files[j])
    /\ Len(Operational) \in Nat /\ DOMAIN Operational = 1 .. Len(Operational)
    /\ \A i, j \in DOMAIN Operational :
          /\ Operational[i].gauge \in DOMAIN Gauges /\ InKm(Operational[i])
          /\ i # j => Operational[i].id # Operational[j].id      \* FACILITIES is a dictionary
    /\ \A a \in Assessed :
          /\ a.stage = NoStage \/ \E k \in DOMAIN Stages : a.stage = Stages[k]
          /\ a.quality \in Grades /\ (a.stage = NoStage => a.quality = "missing")
          /\ a.minutes \in Int /\ a.rising \in BOOLEAN
    /\ \A s \in DOMAIN Gauges : \E a \in ResultsOf(s) : a.quality = "missing"
    /\ Amounts \subseteq Nat /\ AgeCap \in Nat /\ AgeCap > 2 * FreshSlots

VARIABLES
    rows,     \* the rows of the files
    catalogue,\* what facility_catalog made of them, once for the process
    station,  \* what the newest frame has of each gauge
    fall      \* [age, mm] of the newest slot of each rain gauge, or {}

boardVars == <<rows, catalogue, station, fall>>

Distance(a, b) == IF a > b THEN a - b ELSE b - a

(* The sum of a function's numbers, as the number of pairs that count it.   *)
Total(f) == Cardinality(UNION {{x} \X (1 .. f[x]) : x \in DOMAIN f})

(* Tuples are compared from the left; sorted() gives the k-th place to the  *)
(* one with k - 1 before it.                                                *)
Sooner(a, b) == \E k \in DOMAIN a : a[k] < b[k] /\ \A j \in 1 .. (k - 1) : a[j] = b[j]
Sorted(set, key) ==
    [k \in 1 .. Cardinality(set) |-> CHOOSE x \in set : Cardinality({y \in set : Sooner(key[y], key[x])}) = k - 1]

(* region_members, in_region.  As a bug: a group is taken for a region.     *)
InRegionNamed(value, region) == region = Everywhere \/ value = region
InRegion(value, region) ==
    region = Everywhere \/ value \in (IF region \in DOMAIN RegionGroups THEN RegionGroups[region] ELSE {region})

-----------------------------------------------------------------------------
(* facility_catalog: the registry, then the rows of the files, without the  *)
(* ids already seen and the second segment of one road or park.             *)
Nearest(places, km, limit) ==
    {s \in DOMAIN places :
        /\ Distance(places[s].km, km) <= limit
        /\ \A t \in DOMAIN places : LET there == Distance(places[t].km, km)
                                        here == Distance(places[s].km, km)
                                    IN here < there \/ (here = there /\ s <= t)}
Linked(row) ==
    LET near == Nearest(Gauges, row.km, LinkKm)
        region == IF row.region = Unknown /\ near # {} THEN Gauges[CHOOSE s \in near : TRUE].region ELSE row.region
    IN [id |-> row.id, name |-> row.name, km |-> row.km, group |-> row.group, region |-> region, gauge |-> near,
        tier |-> IF near = {} THEN "rain_only" ELSE "watch"]
Registered(row) ==
    [id |-> row.id, name |-> row.name, km |-> row.km, group |-> row.group, region |-> Gauges[row.gauge].region,
     gauge |-> {row.gauge}, tier |-> "operational"]
Segment(placed, row) == \E p \in placed : p.key = row.key /\ Distance(p.km, row.km) < SameKm
Taken(sofar, row) ==
    IF row.id \in sofar.seen THEN sofar
    ELSE IF Segment(sofar.placed, row) THEN [sofar EXCEPT !.seen = @ \cup {row.id}]
    ELSE [seen |-> sofar.seen \cup {row.id}, placed |-> sofar.placed \cup {row}, out |-> Append(sofar.out, Linked(row))]
CatalogueOf(files) ==
    LET registry == [i \in DOMAIN Operational |-> Registered(Operational[i])]
        upto[n \in 0 .. Len(files)] ==
            IF n = 0 THEN [seen |-> {registry[i].id : i \in DOMAIN registry}, placed |-> {}, out |-> registry]
            ELSE Taken(upto[n - 1], files[n])
    IN upto[Len(files)].out
Links(s) == {i \in DOMAIN catalogue : s \in catalogue[i].gauge}

-----------------------------------------------------------------------------
(* rain_frame, live: the newest slot of every gauge that still reports.     *)
Reporting ==
    LET with == {g \in DOMAIN fall : fall[g] # {}}
        age(g) == (CHOOSE x \in fall[g] : TRUE).age
        newest == Min({AgeCap} \cup {age(g) : g \in with})
    IN {g \in with : newest <= FreshSlots /\ age(g) - newest <= FreshSlots}
Intensity(g) == (CHOOSE x \in fall[g] : TRUE).mm

(* nearby_rain, _rain_near_point: the nearest that has a reading.           *)
RainBeside(km) ==
    LET near == {g \in Reporting : Distance(RainGauges[g].km, km) <= RainKm}
        first == {g \in near : \A h \in near \ {g} :
                     LET here == Distance(RainGauges[g].km, km)
                         there == Distance(RainGauges[h].km, km) IN here < there \/ (here = there /\ g < h)}
    IN IF first = {} THEN 0 ELSE Intensity(CHOOSE g \in first : TRUE)

RainSummary(region) ==
    LET in == {g \in Reporting : InRegion(RainGauges[g].region, region)}
    IN [available |-> Reporting # {}, reporting |-> Cardinality(in),
        raining |-> Cardinality({g \in in : Intensity(g) > 0}), heavy |-> Cardinality({g \in in : Intensity(g) >= Heavy})]

-----------------------------------------------------------------------------
(* _priority, with the place in the catalogue last (sort is stable), and    *)
(* _facility_priority, with that place for the name.                        *)
StationKey(s) ==
    LET r == station[s] IN <<IF r.stage = NoStage THEN 1 ELSE -RankOf(r.stage), r.minutes, IF r.rising THEN -1 ELSE 0, s>>
FacilityRow(i) ==
    LET f == catalogue[i]
        r == station[CHOOSE s \in f.gauge : TRUE]
    IN [at |-> i, region |-> f.region, group |-> f.group, stage |-> IF f.gauge = {} THEN NoStage ELSE r.stage,
        minutes |-> IF f.gauge = {} THEN Never ELSE r.minutes, rain |-> RainBeside(f.km)]
FacilityKey(f) ==
    LET elevated == IF AtLeast(f.stage, "attention") THEN RankOf(f.stage) ELSE 0
    IN <<-elevated, IF elevated # 0 THEN f.minutes ELSE 0, -f.rain, f.minutes, f.at>>

Overview(region, floor, limit) ==
    LET all == {s \in DOMAIN Gauges : InRegion(Gauges[s].region, region)}
        of(r) == {s \in all : Gauges[s].region = r}
        selected == {s \in all : floor = NoStage \/ AtLeast(station[s].stage, floor)}
        rainOf(r) == IF of(r) = {} THEN {} ELSE {g \in Reporting : RainGauges[g].region = r}
    IN [by_stage |-> [k \in DOMAIN Stages |-> Cardinality({s \in all : station[s].stage = Stages[k]})],
        quality |-> [q \in Grades |-> Cardinality({s \in all : station[s].quality = q})],
        rising |-> Cardinality({s \in all : station[s].rising}),
        total |-> Cardinality(all), facilities |-> Total([s \in all |-> Cardinality(Links(s))]),
        heavy |-> Cardinality({s \in all : RainBeside(Gauges[s].km) >= Heavy}),
        regions |-> [r \in {Gauges[s].region : s \in all} |->
            [stations |-> Cardinality(of(r)),
             max_stage |-> Max({1} \cup {RankOf(station[s].stage) : s \in {x \in of(r) : station[x].stage # NoStage}}),
             advisory |-> Cardinality({s \in of(r) : AtLeast(station[s].stage, "advisory")}),
             facilities |-> Total([s \in of(r) |-> Cardinality(Links(s))]),
             raining |-> Cardinality({g \in rainOf(r) : Intensity(g) > 0}),
             heavy |-> Cardinality({g \in rainOf(r) : Intensity(g) >= Heavy})]],
        rain |-> RainSummary(region),
        top |-> SubSeq(Sorted(selected, [s \in selected |-> StationKey(s)]), 1, Min({limit, Cardinality(selected)}))]

FacilityStatus(region, group) ==
    LET out == {f \in {FacilityRow(i) : i \in DOMAIN catalogue} :
                  InRegion(f.region, region) /\ group \in {Everywhere, f.group}}
    IN [total |-> Cardinality(out), attention |-> Cardinality({f \in out : AtLeast(f.stage, "attention")}),
        advisory |-> Cardinality({f \in out : AtLeast(f.stage, "advisory")}),
        heavy |-> Cardinality({f \in out : f.rain >= Heavy}),
        facilities |-> Sorted(out, [f \in out |-> FacilityKey(f)])]

-----------------------------------------------------------------------------
(* The next frame: a gauge's reading changes; a rain gauge gives its slot   *)
(* or falls behind.                                                         *)
NextReading(s) == \E a \in ResultsOf(s) : station' = [station EXCEPT ![s] = a] /\ UNCHANGED <<rows, catalogue, fall>>
NextSlots ==
    \E come \in SUBSET DOMAIN RainGauges : \E mm \in Amounts :
        /\ fall' = [g \in DOMAIN fall |->
               IF g \in come THEN {[age |-> 0, mm |-> mm]}
               ELSE {[x EXCEPT !.age = Min({AgeCap, @ + 1})] : x \in fall[g]}]
        /\ UNCHANGED <<rows, catalogue, station>>

BoardInit ==
    /\ rows \in Files /\ catalogue = CatalogueOf(rows)
    /\ station \in [DOMAIN Gauges -> {a \in Assessed : a.quality = "missing"}]
    /\ \A s \in DOMAIN Gauges : station[s] \in ResultsOf(s)
    /\ fall = [g \in DOMAIN RainGauges |-> {}]
BoardNext == NextSlots \/ \E s \in DOMAIN Gauges : NextReading(s)
BoardSpec == BoardInit /\ [][BoardNext]_boardVars

-----------------------------------------------------------------------------
Filters == Regions \cup DOMAIN RegionGroups \cup {Everywhere}
Above(o, floor) == Total([k \in RankOf(floor) .. Len(Stages) |-> o.by_stage[k]])

Expected(region) == {s \in DOMAIN Gauges : InRegion(Gauges[s].region, region) /\ Gauges[s].levels # {}}

(* The regions of an overview add up to its counts, and a group's overview  *)
(* to those of its regions; every gauge is counted at a stage, but for one  *)
(* that has levels and no reading; rain in a region without a gauge is only *)
(* in the rain's own count.                                                 *)
RegionsAddUp ==
    \A region \in Filters :
        LET o == Overview(region, NoStage, 1)
            listed == DOMAIN o.regions
        IN /\ Total([r \in listed |-> o.regions[r].stations]) = o.total
           /\ Total([r \in listed |-> o.regions[r].advisory]) = Above(o, "advisory")
           /\ Total(o.by_stage) = o.total - Cardinality({s \in Expected(region) : station[s].quality = "missing"})
           /\ Total([r \in listed |-> o.regions[r].facilities]) = o.facilities
           /\ Total([r \in listed |-> o.regions[r].raining])
                + Total([r \in {x \in Regions \ listed : InRegion(x, region)} |-> RainSummary(r).raining]) = o.rain.raining
           /\ \A r \in listed : o.regions[r].advisory > 0 <=> o.regions[r].max_stage >= RankOf("advisory")
           /\ region \in DOMAIN RegionGroups =>
                 /\ \A k \in DOMAIN Stages :
                       o.by_stage[k] = Total([r \in RegionGroups[region] |-> Overview(r, NoStage, 1).by_stage[k]])
                 /\ FacilityStatus(region, Everywhere).total =
                       Total([r \in RegionGroups[region] |-> FacilityStatus(r, Everywhere).total])

(* The two boards show one frame: nationwide, a facility is at a stage when *)
(* the gauge it is counted with is, and by regions they differ by just the  *)
(* facilities whose gauge lies in another one.                              *)
BoardsAgree ==
    \A region \in Regions \cup {Everywhere} :
        LET f == FacilityStatus(region, Everywhere)
            in(s) == InRegion(Gauges[s].region, region)
            counted == {i \in DOMAIN catalogue : \E s \in catalogue[i].gauge : in(s) /\ AtLeast(station[s].stage, "advisory")}
            here == {i \in DOMAIN catalogue : InRegion(catalogue[i].region, region)}
        IN f.advisory - Cardinality(counted) =
              Cardinality({i \in here : \E s \in catalogue[i].gauge : ~in(s) /\ AtLeast(station[s].stage, "advisory")})
              - Cardinality(counted \ here)

(* What comes first is what needs attention first: nothing left out of a    *)
(* list is at a higher stage than what is in it, or at the same stage and   *)
(* sooner at the planned flood level; below attention, where it rains more. *)
MostUrgentFirst ==
    /\ \A floor \in {NoStage, "attention"} : \A limit \in 1 .. 2 :
          LET o == Overview(Everywhere, floor, limit)
              shown == {o.top[k] : k \in DOMAIN o.top}
              out == {s \in DOMAIN Gauges \ shown : station[s].stage # NoStage /\ (floor = NoStage \/ AtLeast(station[s].stage, floor))}
          IN \A s \in out : \A t \in shown :
                /\ AtLeast(station[t].stage, station[s].stage)
                /\ station[t].stage = station[s].stage => station[t].minutes <= station[s].minutes
    /\ LET list == FacilityStatus(Everywhere, Everywhere).facilities
       IN \A k \in 1 .. (Len(list) - 1) :
             LET a == list[k] b == list[k + 1]
             IN IF AtLeast(b.stage, "attention") THEN AtLeast(a.stage, b.stage)
                ELSE AtLeast(a.stage, "attention") \/ a.rain >= b.rain

(* Every place of the files is on the board, itself or the segment of the   *)
(* same road or park within 2 km that came before it; no id twice.          *)
PlacesKept ==
    LET ids == {catalogue[i].id : i \in DOMAIN catalogue}
    IN /\ Cardinality(ids) = Len(catalogue)
       /\ \A j \in DOMAIN rows : rows[j].id \in ids \/
             \E i \in 1 .. (j - 1) : \/ rows[i].id = rows[j].id
                                     \/ rows[i].id \in ids /\ rows[i].key = rows[j].key
                                        /\ Distance(rows[i].km, rows[j].km) < SameKm

(* All of it, of every frame with something in it, in whatever order        *)
(* readings and slots come, stop or come late.                              *)
SomethingCame == (\E s \in DOMAIN Gauges : station[s].quality # "missing") \/ \E g \in DOMAIN fall : fall[g] # {}
BoardsTellOneFrame == PlacesKept /\ (SomethingCame => RegionsAddUp /\ BoardsAgree /\ MostUrgentFirst)
=============================================================================
