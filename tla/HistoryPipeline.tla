--------------------------- MODULE HistoryPipeline ---------------------------
(***************************************************************************)
(* The hourly water levels behind the research results, from the provider  *)
(* to the served model: data/scripts/collect_hrfco_history.py (fetch, qc,  *)
(* events), audit_hrfco_quality.py with backend/app/history_quality.py,    *)
(* train_rise_model.py, and the server's backend/app/rise_model.py.  Every *)
(* script is a process of its own and they meet only in files, which no    *)
(* script locks or replaces in one step: a script may read a file another  *)
(* is writing, and may be killed between two writes or within one.         *)
(*                                                                         *)
(* A file of rows is the set of the hours it holds, written oldest first,  *)
(* and its SHA-256 is what it holds.  One script of a kind runs at a time. *)
(***************************************************************************)
EXTENDS Integers, Sequences, FiniteSets, FiniteSetsExt

CONSTANTS
    Stations, Years,
    HoursOf,      \* the hours of a year
    Blank,        \* hours that came without a value
    Policies,     \* versions of the quality policy: the hours it quarantines
    InputLags, TargetLeads,   \* INPUT_LAGS_H, TARGET_LEADS_H
    None,         \* no such file, or Python's None
    Torn,         \* a file whose writing was cut off
    MaxScripts, MaxKills      \* bounds on the scripts started and killed

Trainings == [run : Nat, upper : BOOLEAN]   \* a training, and whether it made an upper model
Hours == UNION {HoursOf[y] : y \in Years}

(* A quality csv: what it is an audit of, and the rows written so far.      *)
Masks == [of : SUBSET Hours, policy : Policies, rows : SUBSET Hours]

ASSUME PipelineAssumption ==
    /\ Years \subseteq Int /\ HoursOf \in [Years -> SUBSET Int] /\ IsFiniteSet(Hours)
    /\ Blank \subseteq Hours /\ Policies \subseteq SUBSET Hours
    /\ InputLags \subseteq Nat /\ TargetLeads \subseteq Nat \ {0} /\ 0 \in InputLags
    /\ MaxScripts \in Nat /\ MaxKills \in Nat /\ None # Torn
    /\ None \notin Trainings \cup Masks

VARIABLES
    policy,       \* hrfco-quality-policy.json
    raw,          \* per station and year: "none", "torn", "whole", "empty"
    csv,          \* per station: the hours of waterlevel_<code>_1H.csv, or None
    manifest,     \* hrfco-history.json: the hash of each csv, or None (no entry); or Torn
    mask,         \* per station: its quality csv, or None
    report,       \* hrfco-quality.json: [policy, entries], None or Torn
    events,       \* hrfco-events.json: [masks, policy, counted], None or Torn
    model,        \* the model files: the training that wrote each, None or Torn
    fetch, qc, audit, count, train,   \* the scripts
    served,       \* the server's lru_caches, and how far they are filled
    scripts, kills,
    behind,       \* history: stations whose csv was written after its record
    crossed,      \* history: stations whose csv was written while count read it
    edited,       \* history: the policy was edited since the running audit began
    prior,        \* history: stations without a mask of an audit begun since the last edit
    unread        \* history: stations whose csv was written since an audit read it

disk    == <<policy, raw, csv, manifest, mask, report, events, model>>
masking == <<edited, prior, unread>>
history == <<behind, crossed, masking>>
bounds  == <<scripts, kills>>
pipelineVars == <<disk, fetch, qc, audit, count, train, served, history, bounds>>

Off == [at |-> "off"]
Readable(file) == file \notin {None, Torn}

(* The hours of a station, written by open("w") and a row at a time.        *)
Extended(rows, whole) == rows \cup {Min(whole \ rows)}

-----------------------------------------------------------------------------
(* audit_hourly.  Every hour from the first row to the last has a reading,  *)
(* usable if it came with a value and is not quarantined; a training window *)
(* is usable if all its inputs and targets are.                             *)
Span(rows) == IF rows = {} THEN {} ELSE {h \in Hours : Min(rows) <= h /\ h <= Max(rows)}
Usable(of, quarantined) == of \ (Blank \cup quarantined)
Window(h) == {h - lag : lag \in InputLags} \cup {h + lead : lead \in TargetLeads}
UsableWindows(of, quarantined) == {h \in of : Window(h) \subseteq Usable(of, quarantined)}

Whole(m) == m.rows = Span(m.of)

-----------------------------------------------------------------------------
Start == scripts < MaxScripts /\ scripts' = scripts + 1

(* fetch.  A raw answer is kept for good once its file exists, an error     *)
(* body with a good HTTP status too; a torn one raises in json.loads.       *)
Merged(s, years) == UNION {HoursOf[y] : y \in {x \in years : raw[s][x] = "whole"}}

StartFetch(s, years) ==
    /\ fetch = Off /\ Start
    /\ fetch' = [at |-> "raw", station |-> s, years |-> years, todo |-> years]
    /\ UNCHANGED <<disk, qc, audit, count, train, served, history, kills>>

Chunk == Min(fetch.todo)
RawOf(s, y, state) ==
    raw' = [raw EXCEPT ![s] = [x \in Years |-> IF x = y THEN state ELSE raw[s][x]]]

FetchChunk ==
    /\ fetch.at = "raw" /\ fetch.todo # {}
    /\ LET s == fetch.station
           go == [at |-> "raw", station |-> s, years |-> fetch.years, todo |-> fetch.todo \ {Chunk}]
       IN \/ raw[s][Chunk] \in {"whole", "empty"} /\ fetch' = go /\ UNCHANGED raw
          \/ raw[s][Chunk] = "torn" /\ fetch' = Off /\ UNCHANGED raw
          \/ /\ raw[s][Chunk] = "none"
             /\ \/ \E state \in {"whole", "empty"} : RawOf(s, Chunk, state) /\ fetch' = go
                \/ fetch' = Off /\ UNCHANGED raw
    /\ UNCHANGED <<policy, csv, manifest, mask, report, events, model,
                   qc, audit, count, train, served, history, bounds>>

(* The csv of a station changes; a count that reads it is crossed.          *)
WriteCsv(s, rows) ==
    /\ csv' = [csv EXCEPT ![s] = rows]
    /\ behind' = behind \cup {s}
    /\ crossed' = IF count = Off THEN crossed ELSE crossed \cup {s}
    /\ unread' = unread \cup {s}
    /\ UNCHANGED <<policy, raw, manifest, mask, report, events, model,
                   qc, audit, count, train, served, edited, prior, bounds>>

(* All chunks are there.  As a bug: the csv is opened for appending.         *)
FetchAppend ==
    /\ fetch.at = "raw" /\ fetch.todo = {}
    /\ WriteCsv(fetch.station, IF csv[fetch.station] = None THEN {} ELSE csv[fetch.station])
    /\ fetch' = [at |-> "csv", station |-> fetch.station,
                 rows |-> Merged(fetch.station, fetch.years)]
FetchOpen ==
    /\ fetch.at = "raw" /\ fetch.todo = {}
    /\ WriteCsv(fetch.station, {})
    /\ fetch' = [at |-> "csv", station |-> fetch.station,
                 rows |-> Merged(fetch.station, fetch.years)]

FetchRow ==
    /\ fetch.at = "csv" /\ csv[fetch.station] # fetch.rows
    /\ WriteCsv(fetch.station, Extended(csv[fetch.station], fetch.rows))
    /\ UNCHANGED fetch

(* record: the entry replaces the station's; a torn manifest raises.  As a  *)
(* bug: it replaces those of every station.                                 *)
NoEntries == [s \in Stations |-> None]
RecordAlone(s, hash) == manifest' = [x \in Stations |-> IF x = s THEN hash ELSE None]
RecordEntry(s, hash) == manifest' = [manifest EXCEPT ![s] = hash]
Record ==
    /\ fetch.at = "csv" /\ csv[fetch.station] = fetch.rows
    /\ fetch' = Off
    /\ IF manifest = Torn
       THEN UNCHANGED <<manifest, behind, qc>>
       ELSE /\ RecordEntry(fetch.station, csv[fetch.station])
            /\ behind' = behind \ {fetch.station}
            /\ qc' = IF qc = Off THEN Off
                     ELSE [at |-> "write", entries |-> qc.entries,
                           meanwhile |-> qc.meanwhile \cup {fetch.station}]
    /\ UNCHANGED <<policy, raw, csv, mask, report, events, model,
                   audit, count, train, served, crossed, masking, bounds>>

(* qc: its flags go into the entry of the manifest it has read; what was    *)
(* recorded meanwhile is lost.                                              *)
StartQc ==
    /\ qc = Off /\ Start
    /\ manifest \notin {NoEntries, Torn}
    /\ qc' = [at |-> "write", entries |-> manifest, meanwhile |-> {}]
    /\ UNCHANGED <<disk, fetch, audit, count, train, served, history, kills>>
QcWrite ==
    /\ qc # Off /\ qc' = Off
    /\ manifest' = qc.entries
    /\ behind' = behind \cup qc.meanwhile
    /\ UNCHANGED <<policy, raw, csv, mask, report, events, model,
                   fetch, audit, count, train, served, crossed, masking, bounds>>

-----------------------------------------------------------------------------
(* audit_hrfco_quality: the masks of the given stations, then the report of *)
(* these stations and no other.                                             *)
StartAudit(stations) ==
    /\ audit = Off /\ Start
    /\ audit' = [at |-> "next", policy |-> policy, todo |-> stations, entries |-> NoEntries]
    /\ edited' = FALSE
    /\ UNCHANGED <<disk, fetch, qc, count, train, served, behind, crossed, prior, unread, kills>>

MaskOf(s, m) == mask' = [mask EXCEPT ![s] = m]

AuditRead(s) ==
    /\ audit.at = "next" /\ s \in audit.todo
    /\ IF csv[s] = None
       THEN /\ audit' = [at |-> "next", policy |-> audit.policy, todo |-> audit.todo \ {s},
                         entries |-> audit.entries]
            /\ UNCHANGED <<mask, prior, unread>>
       ELSE /\ audit' = [at |-> "mask", policy |-> audit.policy, todo |-> audit.todo \ {s},
                         entries |-> audit.entries, station |-> s]
            /\ MaskOf(s, [of |-> csv[s], policy |-> audit.policy, rows |-> {}])
            /\ prior' = IF edited THEN prior ELSE prior \ {s}
            /\ unread' = unread \ {s}
    /\ UNCHANGED <<policy, raw, csv, manifest, report, events, model,
                   fetch, qc, count, train, served, behind, crossed, edited, bounds>>

AuditRow ==
    /\ audit.at = "mask" /\ ~Whole(mask[audit.station])
    /\ LET m == mask[audit.station]
       IN MaskOf(audit.station, [of |-> m.of, policy |-> m.policy,
                                 rows |-> Extended(m.rows, Span(m.of))])
    /\ UNCHANGED <<policy, raw, csv, manifest, report, events, model,
                   fetch, qc, audit, count, train, served, history, bounds>>

(* The entry: the hashes of what was read and of the file that was written. *)
AuditEntry ==
    /\ audit.at = "mask" /\ Whole(mask[audit.station])
    /\ LET m == mask[audit.station]
       IN audit' = [at |-> "next", policy |-> audit.policy, todo |-> audit.todo,
                    entries |-> [audit.entries EXCEPT ![audit.station] =
                        [audited |-> m.of # {}, source |-> m.of, quality |-> m]]]
    /\ UNCHANGED <<disk, fetch, qc, count, train, served, history, bounds>>

AuditReport ==
    /\ audit.at = "next" /\ audit.todo = {}
    /\ report' = [policy |-> audit.policy, entries |-> audit.entries]
    /\ audit' = Off
    /\ UNCHANGED <<policy, raw, csv, manifest, mask, events, model,
                   fetch, qc, count, train, served, history, bounds>>

-----------------------------------------------------------------------------
(* events: summarize_events over every csv there is; any doubt raises and   *)
(* nothing is written.  The rows of a station are read first, then its hash *)
(* and its mask are held against the report.                                *)
StartCount(masks) ==
    /\ count = Off /\ Start
    /\ masks => Readable(report)
    /\ count' = [at |-> "next", masks |-> masks, report |-> IF masks THEN report ELSE None,
                 todo |-> {s \in Stations : csv[s] # None},
                 counted |-> NoEntries]
    /\ crossed' = {}
    /\ UNCHANGED <<disk, fetch, qc, audit, train, served, behind, masking, kills>>

CountStep(at, s, rows) ==
    count' = [at |-> at, masks |-> count.masks, report |-> count.report,
              todo |-> count.todo \ {s}, counted |-> count.counted, station |-> s, rows |-> rows]
CountDone(s, hours) ==
    count' = [at |-> "next", masks |-> count.masks, report |-> count.report,
              todo |-> count.todo \ {s}, counted |-> [count.counted EXCEPT ![s] = hours]]
counting == <<disk, fetch, qc, audit, train, served, history, bounds>>

CountRead(s) ==
    /\ count.at = "next" /\ s \in count.todo
    /\ IF count.masks THEN CountStep("source", s, csv[s]) ELSE CountDone(s, csv[s] \ Blank)
    /\ UNCHANGED counting

(* load_event_reading_mask.                                                 *)
SourceTrusted(s, entry) == entry # None /\ entry.audited /\ csv[s] = entry.source
CountSource ==
    /\ count.at = "source"
    /\ IF SourceTrusted(count.station, count.report.entries[count.station])
       THEN CountStep("mask", count.station, count.rows) ELSE count' = Off
    /\ UNCHANGED counting

MaskCovers(m, entry) == m # None /\ m.rows # {} /\ count.rows \subseteq m.rows
MaskTrusted(m, entry) ==
    m # None /\ m = entry.quality /\ m.rows # {} /\ count.rows \subseteq m.rows
CountMask ==
    /\ count.at = "mask"
    /\ LET s == count.station
           m == mask[s]
       IN IF MaskTrusted(m, count.report.entries[s])
          THEN CountDone(s, count.rows \cap Usable(m.of, m.policy)) ELSE count' = Off
    /\ UNCHANGED counting

CountWrite ==
    /\ count.at = "next" /\ count.todo = {}
    /\ events' = [masks |-> count.masks, report |-> count.report, counted |-> count.counted,
                  crossed |-> crossed]
    /\ count' = Off
    /\ UNCHANGED <<policy, raw, csv, manifest, mask, report, model,
                   fetch, qc, audit, train, served, history, bounds>>

-----------------------------------------------------------------------------
(* train_rise_model: the rows of every csv, those whose training window the *)
(* mask marks usable if there is a mask; its hash is not looked at.  As a   *)
(* bug: those whose own reading is usable.                                  *)
StartTrain(masks, upper) ==
    /\ train = Off /\ Start
    /\ train' = [at |-> "next", masks |-> masks, upper |-> upper,
                 todo |-> {s \in Stations : csv[s] # None},
                 rows |-> NoEntries]
    /\ UNCHANGED <<disk, fetch, qc, audit, count, served, history, kills>>

training == <<disk, fetch, qc, audit, count, served, history, bounds>>

TrainRead(s) ==
    /\ train.at = "next" /\ s \in train.todo
    /\ train' = IF csv[s] = {} THEN Off
                ELSE [at |-> "mask", masks |-> train.masks, upper |-> train.upper,
                      todo |-> train.todo \ {s}, rows |-> train.rows,
                      station |-> s, read |-> csv[s]]
    /\ UNCHANGED training

Complete(rows) == {h \in rows : Window(h) \subseteq rows \ Blank}
MaskedByReading(rows, m) == Complete(rows) \cap m.rows \cap Usable(m.of, m.policy)
Masked(rows, m) == Complete(rows) \cap m.rows \cap UsableWindows(m.of, m.policy)

TrainMask ==
    /\ train.at = "mask"
    /\ LET s == train.station
           m == IF train.masks THEN mask[s] ELSE None
           used == IF m = None THEN Complete(train.read) ELSE Masked(train.read, m)
       IN train' = [at |-> "next", masks |-> train.masks, upper |-> train.upper,
                    todo |-> train.todo,
                    rows |-> [train.rows EXCEPT ![s] = used]]
    /\ UNCHANGED training

(* Without any row pd.concat or the fit raises.  Otherwise the files are    *)
(* written one after the other.  As a bug: the upper model comes last.      *)
TrainFit ==
    /\ train.at = "next" /\ train.todo = {}
    /\ train' = IF \E s \in Stations : train.rows[s] \notin {None, {}}
                THEN [at |-> "write", run |-> scripts, upper |-> train.upper, written |-> 0]
                ELSE Off
    /\ UNCHANGED training

OutputsUpperLast(t) ==
    IF t.upper THEN <<"model", "stats", "card", "upper">> ELSE <<"model", "stats", "card">>
Outputs(t) ==
    IF t.upper THEN <<"upper", "model", "stats", "card">> ELSE <<"model", "stats", "card">>

Output == Outputs(train)[train.written + 1]
TrainWrite ==
    /\ train.at = "write"
    /\ model' = [model EXCEPT ![Output] = [run |-> train.run, upper |-> train.upper]]
    /\ train' = IF train.written + 1 = Len(Outputs(train)) THEN Off
                ELSE [at |-> "write", run |-> train.run, upper |-> train.upper,
                      written |-> train.written + 1]
    /\ UNCHANGED <<policy, raw, csv, manifest, mask, report, events,
                   fetch, qc, audit, count, served, history, bounds>>

-----------------------------------------------------------------------------
(* The server: load_model at the first forecast, load_upper_model at the    *)
(* first one that predicts.  Both are kept for the life of the process, the *)
(* answer that there is no file too; a torn file raises and is not kept.    *)
Asleep == [at |-> "none", model |-> None, stats |-> None, card |-> None, upper |-> None]
Loads(at, m, stats, card, upper) ==
    served' = [at |-> at, model |-> m, stats |-> stats, card |-> card, upper |-> upper]
serving == <<disk, fetch, qc, audit, count, train, history, bounds>>

LoadModel ==
    /\ served.at = "none"
    /\ IF model["model"] = None \/ model["stats"] = None THEN Loads("absent", None, None, None, None)
       ELSE model["model"] # Torn /\ Loads("stats", model["model"], None, None, None)
    /\ UNCHANGED serving
LoadStats ==
    /\ served.at = "stats"
    /\ IF model["stats"] = Torn THEN served' = Asleep
       ELSE Loads("card", served.model, model["stats"], None, None)
    /\ UNCHANGED serving
LoadCard ==
    /\ served.at = "card"
    /\ IF model["card"] = Torn THEN served' = Asleep
       ELSE Loads("loaded", served.model, served.stats, model["card"], None)
    /\ UNCHANGED serving
LoadUpper ==
    /\ served.at = "loaded" /\ model["upper"] # Torn
    /\ Loads("complete", served.model, served.stats, served.card, model["upper"])
    /\ UNCHANGED serving
ServerRestarts == served.at # "none" /\ served' = Asleep /\ UNCHANGED serving

-----------------------------------------------------------------------------
(* The policy is edited by hand.                                            *)
EditPolicy(p) ==
    /\ policy' = p /\ p # policy
    /\ edited' = (audit # Off) /\ prior' = Stations
    /\ UNCHANGED <<raw, csv, manifest, mask, report, events, model,
                   fetch, qc, audit, count, train, served, behind, crossed, unread, bounds>>

(* A script is killed; the file it was writing may be cut off.              *)
Kill == kills < MaxKills /\ kills' = kills + 1
KillFetch ==
    /\ fetch # Off /\ Kill /\ fetch' = Off
    /\ \/ UNCHANGED <<raw, manifest>>
       \/ /\ fetch.at = "raw" /\ fetch.todo # {} /\ raw[fetch.station][Chunk] = "none"
          /\ RawOf(fetch.station, Chunk, "torn") /\ UNCHANGED manifest
       \/ /\ fetch.at = "csv" /\ csv[fetch.station] = fetch.rows
          /\ manifest' = Torn /\ UNCHANGED raw
    /\ UNCHANGED <<policy, csv, mask, report, events, model,
                   qc, audit, count, train, served, history, scripts>>
KillQc ==
    /\ qc # Off /\ Kill /\ qc' = Off
    /\ manifest' \in {manifest, Torn}
    /\ UNCHANGED <<policy, raw, csv, mask, report, events, model,
                   fetch, audit, count, train, served, history, scripts>>
KillAudit ==
    /\ audit # Off /\ Kill /\ audit' = Off
    /\ report' \in IF audit.at = "next" /\ audit.todo = {} THEN {report, Torn} ELSE {report}
    /\ UNCHANGED <<policy, raw, csv, manifest, mask, events, model,
                   fetch, qc, count, train, served, history, scripts>>
KillCount ==
    /\ count # Off /\ Kill /\ count' = Off
    /\ events' \in IF count.at = "next" /\ count.todo = {} THEN {events, Torn} ELSE {events}
    /\ UNCHANGED <<policy, raw, csv, manifest, mask, report, model,
                   fetch, qc, audit, train, served, history, scripts>>
KillTrain ==
    /\ train # Off /\ Kill /\ train' = Off
    /\ model' \in {model} \cup (IF train.at = "write" THEN {[model EXCEPT ![Output] = Torn]} ELSE {})
    /\ UNCHANGED <<policy, raw, csv, manifest, mask, report, events,
                   fetch, qc, audit, count, served, history, scripts>>

-----------------------------------------------------------------------------
PipelineInit ==
    /\ policy \in Policies
    /\ raw = [s \in Stations |-> [y \in Years |-> "none"]]
    /\ csv = [s \in Stations |-> None] /\ mask = [s \in Stations |-> None]
    /\ manifest = NoEntries /\ report = None /\ events = None
    /\ model = [f \in {"upper", "model", "stats", "card"} |-> None]
    /\ fetch = Off /\ qc = Off /\ audit = Off /\ count = Off /\ train = Off
    /\ served = Asleep
    /\ scripts = 0 /\ kills = 0 /\ behind = {} /\ crossed = {}
    /\ edited = FALSE /\ prior = Stations /\ unread = Stations

Fetch ==
    \/ \E s \in Stations, years \in (SUBSET Years) \ {{}} : StartFetch(s, years)
    \/ fetch # Off /\ (FetchChunk \/ FetchOpen \/ FetchRow \/ Record \/ KillFetch)
Qc == StartQc \/ QcWrite \/ KillQc
Audit ==
    \/ \E stations \in (SUBSET Stations) \ {{}} : StartAudit(stations)
    \/ audit # Off /\ (AuditRow \/ AuditEntry \/ AuditReport \/ KillAudit)
    \/ audit # Off /\ \E s \in Stations : AuditRead(s)
Count ==
    \/ \E masks \in BOOLEAN : StartCount(masks)
    \/ count # Off /\ (CountSource \/ CountMask \/ CountWrite \/ KillCount)
    \/ count # Off /\ \E s \in Stations : CountRead(s)
Train ==
    \/ \E masks, upper \in BOOLEAN : StartTrain(masks, upper)
    \/ train # Off /\ (TrainMask \/ TrainFit \/ TrainWrite \/ KillTrain)
    \/ train # Off /\ \E s \in Stations : TrainRead(s)
Serve == LoadModel \/ LoadStats \/ LoadCard \/ LoadUpper \/ ServerRestarts

PipelineNext ==
    \/ Fetch \/ Qc \/ Audit \/ Count \/ Train \/ Serve
    \/ \E p \in Policies : EditPolicy(p)
PipelineSpec == PipelineInit /\ [][PipelineNext]_pipelineVars

-----------------------------------------------------------------------------
(* Types; what a script writes is what it has set out to write.             *)
PipelineTypeOK ==
    /\ policy \in Policies
    /\ raw \in [Stations -> [Years -> {"none", "torn", "whole", "empty"}]]
    /\ csv \in [Stations -> (SUBSET Hours) \cup {None}]
    /\ manifest \in [Stations -> (SUBSET Hours) \cup {None}] \cup {Torn}
    /\ \A s \in Stations : mask[s] # None =>
           mask[s] \in Masks /\ mask[s].rows \subseteq Span(mask[s].of)
    /\ fetch # Off /\ fetch.at = "csv" => csv[fetch.station] \subseteq fetch.rows
    /\ audit # Off /\ audit.at = "mask" => mask[audit.station] # None
    /\ scripts \in 0 .. MaxScripts /\ kills \in 0 .. MaxKills
    /\ behind \subseteq Stations /\ crossed \subseteq Stations
    /\ edited \in BOOLEAN /\ prior \subseteq Stations /\ unread \subseteq Stations

(* The event counts rest on the audit they name: of every station exactly   *)
(* the readings that this audit, under the policy the file names, found     *)
(* usable; fewer only if a fetch wrote the csv meanwhile, because the rows  *)
(* are read before they are hashed.  (WORKLOG: a stale audit is kept from   *)
(* being applied silently to the latest file.)                              *)
EventsAreTheAudits ==
    Readable(events) /\ events.masks =>
        \A s \in Stations : events.counted[s] # None =>
            LET usable == Usable(events.report.entries[s].source, events.report.policy)
            IN /\ events.counted[s] \subseteq usable
               /\ s \notin events.crossed => events.counted[s] = usable

(* The manifest tells the csv on disk, unless the csv is being written, its *)
(* record was cut off or refused, or a qc wrote the manifest back.          *)
ManifestTellsCsv ==
    manifest # Torn =>
        \A s \in Stations \ behind : manifest[s] = csv[s]

(* Training does not look at what a mask is of.  Once an audit begun since  *)
(* the policy was last edited has come to a station, no row picked there    *)
(* has an input or a target that the policy in force quarantines, whatever  *)
(* was fetched, killed or half written; and no other row is left out if the *)
(* mask is complete and neither the csv it was made of nor the one that was *)
(* read has been written since.  A mask of an audit begun before the edit,  *)
(* and a station without a mask, keep to no policy in force.                *)
Sound(rows, quarantined) == {h \in Complete(rows) : Window(h) \cap quarantined = {}}
Picks(s) ==
    /\ train # Off /\ train.at = "mask" /\ train.masks /\ train.station = s
    /\ train' # Off /\ train'.at = "next"
KeepsToPolicy ==
    \A s \in Stations \ prior : Picks(s) =>
        /\ train'.rows[s] \subseteq Sound(train.read, policy)
        /\ Whole(mask[s]) /\ s \notin unread /\ csv[s] = train.read =>
              train'.rows[s] = Sound(train.read, policy)
TrainedByPolicy == [][KeepsToPolicy]_pipelineVars

(* The upper bound that is shown beside a forecast is never of an older     *)
(* training than the forecast, if that training made one: the files are     *)
(* written and read in opposite orders.                                     *)
UpperNotOlder ==
    served.at = "complete" /\ served.model.upper =>
        served.upper # None /\ served.upper.run >= served.model.run
=============================================================================
