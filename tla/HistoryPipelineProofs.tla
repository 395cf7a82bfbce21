----------------------- MODULE HistoryPipelineProofs -----------------------
(***************************************************************************)
(* What the event counts and the training rows rest on, for any stations,  *)
(* years, policies and number of scripts.                                  *)
(***************************************************************************)
EXTENDS HistoryPipeline, SieveProofs

-----------------------------------------------------------------------------
(* Of a report, and of the entries an audit has made so far: the mask of an *)
(* entry is of the entry's source and under the report's policy.            *)
Consistent(entries, p) ==
    \A s \in Stations : entries[s] # None =>
        entries[s].quality.of = entries[s].source /\ entries[s].quality.policy = p

(* What was counted, held against the report.                               *)
Faithful(rep, counted, cross) ==
    \A s \in Stations : counted[s] # None =>
        LET usable == Usable(rep.entries[s].source, rep.policy)
        IN counted[s] \subseteq usable /\ (s \notin cross => counted[s] = usable)

ReportInv == Readable(report) => Consistent(report.entries, report.policy)

AuditInv ==
    /\ DOMAIN mask = Stations
    /\ audit # Off =>
         /\ DOMAIN audit.entries = Stations
         /\ Consistent(audit.entries, audit.policy)
         /\ audit.at = "mask" =>
              audit.station \in Stations /\ mask[audit.station].policy = audit.policy

(* A station under count whose csv was not written since is counted by the  *)
(* rows its csv holds, and these are the audited ones once the hash agreed. *)
CountInv ==
    count # Off /\ count.masks =>
        /\ Consistent(count.report.entries, count.report.policy)
        /\ DOMAIN count.counted = Stations
        /\ Faithful(count.report, count.counted, crossed)
        /\ count.at \in {"source", "mask"} =>
             /\ count.station \in Stations
             /\ count.station \notin crossed => csv[count.station] = count.rows
        /\ count.at = "mask" =>
             /\ count.report.entries[count.station] # None
             /\ count.station \notin crossed =>
                  count.rows = count.report.entries[count.station].source

EventsInv ==
    Readable(events) /\ events.masks => Faithful(events.report, events.counted, events.crossed)

CountedInv == ReportInv /\ AuditInv /\ CountInv /\ EventsInv

(* Steps that touch none of the files the counts rest on.                   *)
LEMMA CountedQuiet ==
    ASSUME CountedInv, UNCHANGED <<csv, mask, report, events, audit, count, crossed>>
    PROVE  CountedInv'
BY DEF CountedInv, ReportInv, AuditInv, CountInv, EventsInv, Consistent, Faithful

LEMMA CountedInit == PipelineInit => CountedInv
BY DEF PipelineInit, NoEntries, CountedInv, ReportInv, AuditInv, CountInv, EventsInv, Readable, Off

(* A csv is written: what is counted of it is crossed from then on.         *)
LEMMA CountedWhileWritten ==
    ASSUME CountedInv, NEW s, NEW rows, WriteCsv(s, rows)
    PROVE  CountedInv'
<1>1. ReportInv' /\ AuditInv' /\ EventsInv'
  BY DEF CountedInv, ReportInv, AuditInv, EventsInv, WriteCsv, Consistent, Faithful
<1>2. CountInv'
  <2> SUFFICES ASSUME count' # Off, count'.masks PROVE CountInv'
    BY DEF CountInv
  <2>1. count' = count /\ count # Off /\ crossed' = crossed \cup {s} /\ csv' = [csv EXCEPT ![s] = rows]
    BY DEF WriteCsv
  <2>2. Faithful(count.report, count.counted, crossed')
    BY <2>1 DEF CountedInv, CountInv, Faithful
  <2>3. \A x : x \notin crossed' => x \notin crossed /\ csv'[x] = csv[x]
    BY <2>1
  <2> QED BY <2>1, <2>2, <2>3 DEF CountedInv, CountInv, Consistent
<1> QED BY <1>1, <1>2 DEF CountedInv

(* The audit writes masks and, at its end, the report.                      *)
LEMMA CountedWhileAudited ==
    ASSUME CountedInv,
           \/ \E stations \in SUBSET Stations : StartAudit(stations)
           \/ audit # Off /\ \E s \in Stations : AuditRead(s)
           \/ audit # Off /\ (AuditRow \/ AuditEntry \/ AuditReport \/ KillAudit)
    PROVE  CountedInv'
<1>1. UNCHANGED <<csv, count, events, crossed>>
  BY DEF StartAudit, AuditRead, AuditRow, AuditEntry, AuditReport, KillAudit, disk, history, bounds
<1>2. CountInv' /\ EventsInv'
  BY <1>1 DEF CountedInv, CountInv, EventsInv, Consistent, Faithful
<1>3. CASE \E stations \in SUBSET Stations : StartAudit(stations)
  <2>1. ReportInv' BY <1>3 DEF CountedInv, ReportInv, StartAudit, disk, Consistent
  <2>2. AuditInv' BY <1>3 DEF CountedInv, AuditInv, StartAudit, disk, Consistent, NoEntries
  <2> QED BY <1>2, <2>1, <2>2 DEF CountedInv
<1>4. CASE audit # Off /\ \E s \in Stations : AuditRead(s)
  <2> PICK s \in Stations : AuditRead(s) BY <1>4
  <2>1. ReportInv' BY DEF CountedInv, ReportInv, AuditRead, Consistent
  <2>2. AuditInv' BY <1>4 DEF CountedInv, AuditInv, AuditRead, MaskOf, Consistent
  <2> QED BY <1>2, <2>1, <2>2 DEF CountedInv
<1>5. CASE audit # Off /\ AuditRow
  <2>1. ReportInv' BY <1>5 DEF CountedInv, ReportInv, AuditRow, Consistent
  <2>2. AuditInv' BY <1>5 DEF CountedInv, AuditInv, AuditRow, MaskOf, Consistent
  <2> QED BY <1>2, <2>1, <2>2 DEF CountedInv
<1>6. CASE audit # Off /\ AuditEntry
  <2>1. ReportInv' BY <1>6 DEF CountedInv, ReportInv, AuditEntry, disk, Consistent
  <2>2. AuditInv' BY <1>6 DEF CountedInv, AuditInv, AuditEntry, disk, Consistent
  <2> QED BY <1>2, <2>1, <2>2 DEF CountedInv
<1>7. CASE audit # Off /\ AuditReport
  <2>1. ReportInv' BY <1>7 DEF CountedInv, AuditInv, ReportInv, AuditReport, Consistent
  <2>2. AuditInv' BY <1>7 DEF CountedInv, AuditInv, AuditReport, Consistent
  <2> QED BY <1>2, <2>1, <2>2 DEF CountedInv
<1>8. CASE audit # Off /\ KillAudit
  <2>1. ReportInv' BY <1>8 DEF CountedInv, ReportInv, KillAudit, Consistent, Readable
  <2>2. AuditInv' BY <1>8 DEF CountedInv, AuditInv, KillAudit, Consistent
  <2> QED BY <1>2, <2>1, <2>2 DEF CountedInv
<1> QED BY <1>3, <1>4, <1>5, <1>6, <1>7, <1>8

(* The count.                                                               *)
LEMMA CountedWhileCounting ==
    ASSUME CountedInv,
           \/ \E masks \in BOOLEAN : StartCount(masks)
           \/ count # Off /\ \E s \in Stations : CountRead(s)
           \/ count # Off /\ (CountSource \/ CountMask \/ CountWrite \/ KillCount)
    PROVE  CountedInv'
<1>1. UNCHANGED <<csv, mask, report, audit>>
  BY DEF StartCount, CountRead, CountSource, CountMask, CountWrite, KillCount, counting, disk, history, bounds
<1>2. ReportInv' /\ AuditInv'
  BY <1>1 DEF CountedInv, ReportInv, AuditInv, Consistent
<1>3. CASE \E masks \in BOOLEAN : StartCount(masks)
  <2> PICK masks \in BOOLEAN : StartCount(masks) BY <1>3
  <2>1. EventsInv' BY DEF CountedInv, EventsInv, StartCount, disk, Faithful
  <2>2. CountInv' BY <1>1 DEF CountedInv, CountInv, ReportInv, StartCount, Faithful, Consistent, NoEntries
  <2> QED BY <1>2, <2>1, <2>2 DEF CountedInv
<1>4. CASE count # Off /\ \E s \in Stations : CountRead(s)
  <2> PICK s \in Stations : CountRead(s) BY <1>4
  <2>1. EventsInv' BY DEF CountedInv, EventsInv, CountRead, counting, disk, Faithful
  <2>2. crossed' = crossed BY DEF CountRead, counting, history
  <2>3. CASE ~count.masks
    BY <1>2, <2>1, <2>3 DEF CountedInv, CountInv, CountRead, CountDone
  <2>4. CASE count.masks
    <3>1. count' = [at |-> "source", masks |-> count.masks, report |-> count.report,
                    todo |-> count.todo \ {s}, counted |-> count.counted,
                    station |-> s, rows |-> csv[s]]
      BY <2>4 DEF CountRead, CountStep
    <3>2. CountInv'
      BY <1>1, <1>4, <2>2, <2>4, <3>1 DEF CountedInv, CountInv, Faithful, Consistent
    <3> QED BY <1>2, <2>1, <3>2 DEF CountedInv
  <2> QED BY <2>3, <2>4
<1>5. CASE count # Off /\ CountSource
  <2>1. EventsInv' BY <1>5 DEF CountedInv, EventsInv, CountSource, counting, disk, Faithful
  <2>2. crossed' = crossed BY <1>5 DEF CountSource, counting, history
  <2>3. CASE count' = Off BY <1>2, <2>1, <2>3 DEF CountedInv, CountInv
  <2>4. CASE SourceTrusted(count.station, count.report.entries[count.station])
    <3>1. count' = [at |-> "mask", masks |-> count.masks, report |-> count.report,
                    todo |-> count.todo \ {count.station}, counted |-> count.counted,
                    station |-> count.station, rows |-> count.rows]
      BY <1>5, <2>4 DEF CountSource, CountStep
    <3>2. CountInv'
      BY <1>1, <1>5, <2>2, <2>4, <3>1 DEF CountedInv, CountInv, CountSource, SourceTrusted, Faithful, Consistent
    <3> QED BY <1>2, <2>1, <3>2 DEF CountedInv
  <2> QED BY <1>5, <2>3, <2>4 DEF CountSource
<1>6. CASE count # Off /\ CountMask
  <2>1. EventsInv' BY <1>6 DEF CountedInv, EventsInv, CountMask, counting, disk, Faithful
  <2>2. crossed' = crossed BY <1>6 DEF CountMask, counting, history
  <2> DEFINE s == count.station
             m == mask[s]
             entry == count.report.entries[s]
             used == count.rows \cap Usable(m.of, m.policy)
  <2>3. CASE count' = Off BY <1>2, <2>1, <2>3 DEF CountedInv, CountInv
  <2>4. CASE MaskTrusted(m, entry)
    <3>1. count' = [at |-> "next", masks |-> count.masks, report |-> count.report,
                    todo |-> count.todo \ {s}, counted |-> [count.counted EXCEPT ![s] = used]]
      BY <1>6, <2>4 DEF CountMask, CountDone
    <3> SUFFICES ASSUME count.masks PROVE CountInv'
      BY <1>2, <2>1, <3>1 DEF CountedInv, CountInv
    <3>2. /\ s \in Stations /\ entry # None
          /\ s \notin crossed => count.rows = entry.source
      BY <1>6 DEF CountedInv, CountInv, CountMask
    <3>3. m.of = entry.source /\ m.policy = count.report.policy
      BY <1>6, <2>4, <3>2 DEF CountedInv, CountInv, Consistent, MaskTrusted
    <3>4. /\ used \subseteq Usable(entry.source, count.report.policy)
          /\ s \notin crossed => used = Usable(entry.source, count.report.policy)
      BY <3>2, <3>3 DEF Usable
    <3>5. Faithful(count.report, [count.counted EXCEPT ![s] = used], crossed)
      BY <1>6, <3>2, <3>4 DEF CountedInv, CountInv, Faithful
    <3> QED BY <1>6, <2>2, <3>1, <3>5 DEF CountedInv, CountInv
  <2> QED BY <1>6, <2>3, <2>4 DEF CountMask
<1>7. CASE count # Off /\ CountWrite
  BY <1>2, <1>7 DEF CountedInv, CountInv, EventsInv, CountWrite
<1>8. CASE count # Off /\ KillCount
  <2>1. CountInv' BY <1>8 DEF CountInv, KillCount
  <2>2. EventsInv' BY <1>8 DEF CountedInv, EventsInv, KillCount, Readable
  <2> QED BY <1>2, <2>1, <2>2 DEF CountedInv
<1> QED BY <1>3, <1>4, <1>5, <1>6, <1>7, <1>8

LEMMA CountedStep == CountedInv /\ [PipelineNext]_pipelineVars => CountedInv'
<1> SUFFICES ASSUME CountedInv, [PipelineNext]_pipelineVars PROVE CountedInv'
  OBVIOUS
<1> USE DEF disk, history, bounds
<1>1. CASE Fetch
  <2>1. CASE \E s \in Stations, years \in (SUBSET Years) \ {{}} : StartFetch(s, years)
    BY <2>1, CountedQuiet DEF StartFetch
  <2>2. CASE FetchChunk BY <2>2, CountedQuiet DEF FetchChunk
  <2>3. CASE FetchOpen BY <2>3, CountedWhileWritten DEF FetchOpen
  <2>4. CASE FetchRow BY <2>4, CountedWhileWritten DEF FetchRow
  <2>5. CASE Record BY <2>5, CountedQuiet DEF Record
  <2>6. CASE KillFetch BY <2>6, CountedQuiet DEF KillFetch
  <2> QED BY <1>1, <2>1, <2>2, <2>3, <2>4, <2>5, <2>6 DEF Fetch
<1>2. CASE Qc
  BY <1>2, CountedQuiet DEF Qc, StartQc, QcWrite, KillQc
<1>3. CASE Audit BY <1>3, CountedWhileAudited DEF Audit
<1>4. CASE Count BY <1>4, CountedWhileCounting DEF Count
<1>5. CASE Train
  BY <1>5, CountedQuiet DEF Train, StartTrain, TrainRead, TrainMask, TrainFit, TrainWrite, KillTrain, training
<1>6. CASE Serve
  BY <1>6, CountedQuiet DEF Serve, LoadModel, LoadStats, LoadCard, LoadUpper, ServerRestarts, serving
<1>7. CASE \E p \in Policies : EditPolicy(p)
  BY <1>7, CountedQuiet DEF EditPolicy
<1>8. CASE UNCHANGED pipelineVars
  BY <1>8, CountedQuiet DEF pipelineVars
<1> QED BY <1>1, <1>2, <1>3, <1>4, <1>5, <1>6, <1>7, <1>8 DEF PipelineNext

(* However fetches, audits, edits of the policy and kills interleave with   *)
(* them, the event counts are exactly the readings their audit found        *)
(* usable, fewer only for a station that was fetched meanwhile.             *)
THEOREM CountsAreTheAudits == PipelineSpec => []EventsAreTheAudits
<1>1. CountedInv => EventsAreTheAudits
  BY DEF CountedInv, EventsInv, Faithful, EventsAreTheAudits
<1> QED BY CountedInit, CountedStep, <1>1, PTL DEF PipelineSpec

-----------------------------------------------------------------------------
(* The manifest.  What qc will write back agrees with the csv of a station  *)
(* that was neither written nor recorded since qc read the manifest.        *)
Tells(entries, except) ==
    DOMAIN entries = Stations /\ \A s \in Stations \ except : entries[s] = csv[s]

ManifestInv ==
    /\ manifest # Torn => Tells(manifest, behind)
    /\ qc # Off => Tells(qc.entries, behind \cup qc.meanwhile)

LEMMA ManifestWhileWritten ==
    ASSUME ManifestInv, NEW s, NEW rows, WriteCsv(s, rows)
    PROVE  ManifestInv'
<1>1. \A x : x \notin behind' => x \notin behind /\ csv'[x] = csv[x]
  BY DEF WriteCsv
<1>2. UNCHANGED <<manifest, qc>> BY DEF WriteCsv
<1>3. ASSUME NEW entries, NEW except, Tells(entries, behind \cup except)
      PROVE  Tells(entries, behind \cup except)'
  <2> SUFFICES ASSUME entries' = entries, except' = except PROVE Tells(entries, behind \cup except)'
    OBVIOUS
  <2> QED BY <1>1, <1>3 DEF Tells
<1> QED BY <1>1, <1>2, <1>3 DEF ManifestInv, Tells

LEMMA ManifestStep == ManifestInv /\ [PipelineNext]_pipelineVars => ManifestInv'
<1> SUFFICES ASSUME ManifestInv, [PipelineNext]_pipelineVars PROVE ManifestInv'
  OBVIOUS
<1> USE DEF disk, history, bounds
<1>1. CASE UNCHANGED <<csv, manifest, qc, behind>>
  BY <1>1 DEF ManifestInv, Tells
<1>2. CASE FetchOpen \/ FetchRow
  BY <1>2, ManifestWhileWritten DEF FetchOpen, FetchRow
<1>3. CASE Record
  <2>1. CASE manifest = Torn
    BY <1>1, <1>3, <2>1 DEF Record
  <2>2. CASE manifest # Torn
    <3>1. /\ manifest' = [manifest EXCEPT ![fetch.station] = csv[fetch.station]]
          /\ behind' = behind \ {fetch.station} /\ csv' = csv
      BY <1>3, <2>2 DEF Record, RecordEntry
    <3>3. Tells(manifest, behind)'
      BY <2>2, <3>1 DEF ManifestInv, Tells
    <3>4. CASE qc = Off
      BY <1>3, <2>2, <3>3, <3>4 DEF ManifestInv, Record
    <3>5. CASE qc # Off
      <4>1. qc'.entries = qc.entries /\ qc'.meanwhile = qc.meanwhile \cup {fetch.station}
        BY <1>3, <2>2, <3>5 DEF Record
      <4>2. behind' \cup qc'.meanwhile = behind \cup qc.meanwhile \cup {fetch.station}
        BY <3>1, <4>1
      <4> QED BY <3>1, <3>3, <3>5, <4>1, <4>2 DEF ManifestInv, Tells
    <3> QED BY <3>4, <3>5
  <2> QED BY <2>1, <2>2
<1>4. CASE StartQc
  <2>1. manifest # Torn /\ qc'.entries = manifest /\ qc'.meanwhile = {}
    BY <1>4 DEF StartQc
  <2> QED BY <1>4, <2>1 DEF ManifestInv, StartQc, Tells
<1>5. CASE QcWrite
  <2>1. /\ manifest' = qc.entries /\ behind' = behind \cup qc.meanwhile /\ csv' = csv
        /\ qc # Off /\ qc' = Off
    BY <1>5 DEF QcWrite
  <2> QED BY <2>1 DEF ManifestInv, Tells
<1>6. CASE KillQc
  BY <1>6 DEF ManifestInv, KillQc, Tells
<1>7. CASE KillFetch
  BY <1>7 DEF ManifestInv, KillFetch, Tells
<1>8. CASE Fetch
  BY <1>1, <1>2, <1>3, <1>7, <1>8 DEF Fetch, StartFetch, FetchChunk
<1>9. CASE Audit
  BY <1>1, <1>9 DEF Audit, StartAudit, AuditRead, AuditRow, AuditEntry, AuditReport, KillAudit
<1>10. CASE Count
  BY <1>1, <1>10 DEF Count, StartCount, CountRead, CountSource, CountMask, CountWrite, KillCount, counting
<1>11. CASE Train
  BY <1>1, <1>11 DEF Train, StartTrain, TrainRead, TrainMask, TrainFit, TrainWrite, KillTrain, training
<1>12. CASE Serve \/ \E p \in Policies : EditPolicy(p)
  BY <1>1, <1>12 DEF Serve, LoadModel, LoadStats, LoadCard, LoadUpper, ServerRestarts, serving, EditPolicy
<1>13. CASE UNCHANGED pipelineVars BY <1>1, <1>13 DEF pipelineVars
<1> QED BY <1>4, <1>5, <1>6, <1>8, <1>9, <1>10, <1>11, <1>12, <1>13 DEF PipelineNext, Qc

(* The manifest holds the hash of every csv on disk but those being         *)
(* written, cut off or refused before their record, or written back by qc.  *)
THEOREM ManifestIsCurrent == PipelineSpec => []ManifestTellsCsv
<1>1. PipelineInit => ManifestInv
  BY DEF PipelineInit, ManifestInv, Tells, NoEntries
<1>2. ManifestInv => ManifestTellsCsv
  BY DEF ManifestInv, ManifestTellsCsv, Tells
<1> QED BY <1>1, <1>2, ManifestStep, PTL DEF PipelineSpec

-----------------------------------------------------------------------------
(* The model that is served.                                                *)
Trained(f) == f \notin {None, Torn}

(* The upper model on disk is not older than m, or cut off.                 *)
UpperReaches(m) ==
    m.upper => \/ model["upper"] = Torn
               \/ model["upper"] \in Trainings /\ model["upper"].run >= m.run

Loaded == served.at \in {"stats", "card", "loaded", "complete"}

(* No file and nothing served is of a later training than the one running.  *)
NoneAfter(n) ==
    /\ \A f \in {"upper", "model", "stats", "card"} : Trained(model[f]) => model[f].run <= n
    /\ Loaded => served.model.run <= n

UpperInv ==
    /\ scripts \in Nat
    /\ DOMAIN model = {"upper", "model", "stats", "card"}
    /\ \A f \in {"upper", "model", "stats", "card"} : Trained(model[f]) => model[f] \in Trainings
    /\ NoneAfter(scripts)
    /\ Trained(model["model"]) => UpperReaches(model["model"])
    /\ Loaded => served.model \in Trainings /\ UpperReaches(served.model)
    /\ served.at = "complete" /\ served.model.upper =>
         served.upper \in Trainings /\ served.upper.run >= served.model.run
    /\ train # Off => train.upper \in BOOLEAN
    /\ train # Off /\ train.at = "write" =>
         /\ train.run \in Nat /\ train.run <= scripts /\ train.written \in Nat
         /\ train.written < Len(Outputs(train))
         /\ NoneAfter(train.run)
         /\ train.upper /\ train.written > 0 =>
              \/ model["upper"] = Torn
              \/ model["upper"] \in Trainings /\ model["upper"].run >= train.run

(* The order of the outputs.                                                *)
LEMMA OutputOrder ==
    ASSUME NEW t
    PROVE  /\ t.upper => Outputs(t) = <<"upper", "model", "stats", "card">>
           /\ ~t.upper => Outputs(t) = <<"model", "stats", "card">>
BY DEF Outputs

(* Steps that neither write a model file nor load one.                      *)
LEMMA UpperQuiet ==
    ASSUME UpperInv, UNCHANGED <<model, served>>, scripts' \in {scripts, scripts + 1},
           train' = train \/ train' = Off \/ (train'.at # "write" /\ train'.upper \in BOOLEAN)
    PROVE  UpperInv'
<1>1. scripts' \in Nat /\ NoneAfter(scripts)'
  BY DEF UpperInv, NoneAfter, Loaded, Trained, Trainings
<1>2. \A m : UpperReaches(m) => UpperReaches(m)'
  BY DEF UpperReaches
<1>3. (Trained(model["model"]) => UpperReaches(model["model"]))'
  BY <1>2 DEF UpperInv, Trained
<1>4. (Loaded => served.model \in Trainings /\ UpperReaches(served.model))'
  BY <1>2 DEF UpperInv, Loaded
<1>5. ASSUME train' # Off, train'.at = "write"
      PROVE  /\ train'.run \in Nat /\ train'.run <= scripts' /\ train'.written \in Nat
             /\ train'.written < Len(Outputs(train'))
             /\ NoneAfter(train.run)'
             /\ train'.upper /\ train'.written > 0 =>
                  \/ model'["upper"] = Torn
                  \/ model'["upper"] \in Trainings /\ model'["upper"].run >= train'.run
  <2>1. train' = train BY <1>5
  <2>2. NoneAfter(train.run)' BY <1>5, <2>1 DEF UpperInv, NoneAfter, Loaded, Trained
  <2>3. Outputs(train') = Outputs(train) BY <2>1
  <2> QED BY <1>5, <2>1, <2>2, <2>3 DEF UpperInv
<1>6. (train # Off => train.upper \in BOOLEAN)'
  BY DEF UpperInv
<1> QED BY <1>1, <1>3, <1>4, <1>5, <1>6 DEF UpperInv, Trained

(* The training has its rows and begins to write.                           *)
LEMMA UpperFit ==
    ASSUME UpperInv, train # Off, TrainFit
    PROVE  UpperInv'
<1>1. UNCHANGED <<model, served, scripts>>
  BY DEF TrainFit, training, disk, bounds
<1>2. CASE train' = Off
  BY <1>1, <1>2, UpperQuiet
<1>3. CASE train' = [at |-> "write", run |-> scripts, upper |-> train.upper,
                     written |-> 0]
  <2>1. \A n : NoneAfter(n) => NoneAfter(n)' BY <1>1 DEF NoneAfter, Loaded, Trained
  <2>2. \A m : UpperReaches(m) => UpperReaches(m)' BY <1>1 DEF UpperReaches
  <2>3. Len(Outputs(train')) \in {3, 4}
    BY <1>3, OutputOrder DEF UpperInv
  <2>4. (/\ train.run \in Nat /\ train.run <= scripts /\ train.written = 0
         /\ train.written < Len(Outputs(train)) /\ NoneAfter(train.run))'
    <3>1. train'.run = scripts /\ train'.written = 0 BY <1>3
    <3>2. NoneAfter(scripts)' BY <1>1, <2>1 DEF UpperInv
    <3>3. NoneAfter(train.run)' BY <1>1, <3>1, <3>2
    <3>4. scripts \in Nat BY DEF UpperInv
    <3>5. train'.run \in Nat /\ train'.run <= scripts' BY <1>1, <3>1, <3>4
    <3>6. train'.written < Len(Outputs(train')) BY <2>3, <3>1, SMTT(30)
    <3> QED BY <3>1, <3>3, <3>5, <3>6
  <2>5. (Trained(model["model"]) => UpperReaches(model["model"]))'
    BY <1>1, <2>2 DEF UpperInv, Trained
  <2>6. (Loaded => served.model \in Trainings /\ UpperReaches(served.model))'
    BY <1>1, <2>2 DEF UpperInv, Loaded
  <2> QED BY <1>1, <1>3, <2>1, <2>3, <2>4, <2>5, <2>6 DEF UpperInv, Trained
<1> QED BY <1>2, <1>3 DEF TrainFit

(* A training writes its next file.                                         *)
LEMMA UpperWhileWritten ==
    ASSUME UpperInv, train # Off, TrainWrite
    PROVE  UpperInv'
<1> DEFINE new == [run |-> train.run, upper |-> train.upper]
<1>1. /\ model' = [model EXCEPT ![Output] = new]
      /\ train.at = "write" /\ UNCHANGED <<served, scripts>>
  BY DEF TrainWrite, bounds
<1>2. new \in Trainings /\ new # None /\ new.run = train.run /\ new.upper = train.upper
  BY <1>1, PipelineAssumption DEF UpperInv, Trainings
<1>3. /\ train.upper => Outputs(train) = <<"upper", "model", "stats", "card">>
      /\ ~train.upper => Outputs(train) = <<"model", "stats", "card">>
  BY OutputOrder
<1>4. /\ train.written \in Nat /\ train.written < Len(Outputs(train))
      /\ Output = Outputs(train)[train.written + 1]
  BY <1>1 DEF UpperInv, Output
<1>5. /\ Output \in {"upper", "model", "stats", "card"}
      /\ Output = "upper" <=> train.upper /\ train.written = 0
  BY <1>1, <1>3, <1>4 DEF UpperInv
<1>6. \A n \in {train.run, scripts} : NoneAfter(n)'
  <2>1. \A f \in {"upper", "model", "stats", "card"} : model'[f] = new \/ model'[f] = model[f]
    BY <1>1 DEF UpperInv
  <2>2. NoneAfter(train.run) /\ NoneAfter(scripts) /\ train.run <= scripts
    BY <1>1 DEF UpperInv
  <2>3. train.run \in Nat /\ scripts \in Nat
    BY <1>1 DEF UpperInv
  <2> QED BY <1>1, <1>2, <2>1, <2>2, <2>3 DEF NoneAfter, Loaded, Trained
<1>7. ASSUME NEW m, m.run \in Nat, m.run <= train.run, UpperReaches(m)
      PROVE  UpperReaches(m)'
  BY <1>1, <1>2, <1>5, <1>7 DEF UpperReaches, UpperInv
<1>8. train.upper =>
         \/ model'["upper"] = Torn
         \/ model'["upper"] \in Trainings /\ model'["upper"].run >= train.run
  <2>1. CASE Output = "upper" BY <1>1, <1>2, <2>1 DEF UpperInv, Trainings
  <2>2. CASE Output # "upper" BY <1>1, <1>4, <1>5, <2>2 DEF UpperInv
  <2> QED BY <2>1, <2>2
<1>9. (Trained(model["model"]) => UpperReaches(model["model"]))'
  <2>1. CASE Output = "model"
    <3>1. model'["model"] = new BY <1>1, <2>1 DEF UpperInv
    <3> QED BY <1>2, <1>8, <3>1 DEF UpperReaches
  <2>2. CASE Output # "model"
    <3>1. model'["model"] = model["model"] BY <1>1, <2>2 DEF UpperInv
    <3> QED BY <1>1, <1>7, <3>1 DEF UpperInv, Trained, NoneAfter, Trainings
  <2> QED BY <2>1, <2>2
<1>10. (Loaded => served.model \in Trainings /\ UpperReaches(served.model))'
  BY <1>1, <1>7 DEF UpperInv, Loaded, NoneAfter, Trainings
<1>11. \A f \in {"upper", "model", "stats", "card"} : Trained(model[f])' => model'[f] \in Trainings
  BY <1>1, <1>2 DEF UpperInv, Trained
<1>12. ASSUME train' # Off
       PROVE  /\ train'.at = "write" /\ train'.run = train.run /\ train'.upper = train.upper
              /\ train'.written = train.written + 1
              /\ train'.written \in Nat /\ train'.written < Len(Outputs(train'))
  <2>1. /\ train'.at = "write" /\ train'.run = train.run /\ train'.upper = train.upper
        /\ train'.written = train.written + 1 /\ train.written + 1 # Len(Outputs(train))
    BY <1>12 DEF TrainWrite
  <2>2. Outputs(train') = Outputs(train) BY <2>1 DEF Outputs
  <2>3. Len(Outputs(train)) \in Nat BY <1>1, <1>3 DEF UpperInv
  <2> QED BY <1>4, <2>1, <2>2, <2>3
<1> QED BY <1>1, <1>6, <1>8, <1>9, <1>10, <1>11, <1>12 DEF UpperInv

(* A training is killed; the file it was writing may be cut off.            *)
LEMMA UpperWhenKilled ==
    ASSUME UpperInv, KillTrain
    PROVE  UpperInv'
<1>1. train # Off /\ train' = Off /\ UNCHANGED <<served, scripts>>
  BY DEF KillTrain
<1>2. /\ DOMAIN model' = DOMAIN model
      /\ \A f \in DOMAIN model : model'[f] = model[f] \/ model'[f] = Torn
  BY DEF KillTrain
<1>3. \A m : UpperReaches(m) => UpperReaches(m)'
  BY <1>2 DEF UpperReaches, UpperInv
<1>4. NoneAfter(scripts)'
  BY <1>1, <1>2 DEF UpperInv, NoneAfter, Loaded, Trained
<1>5. (Trained(model["model"]) => UpperReaches(model["model"]))'
  BY <1>2, <1>3 DEF UpperInv, Trained
<1>6. (Loaded => served.model \in Trainings /\ UpperReaches(served.model))'
  BY <1>1, <1>3 DEF UpperInv, Loaded
<1> QED BY <1>1, <1>2, <1>4, <1>5, <1>6 DEF UpperInv, Trained

(* The server loads.                                                        *)
LEMMA UpperWhileServed ==
    ASSUME UpperInv, Serve
    PROVE  UpperInv'
<1>1. UNCHANGED <<model, train, scripts>>
  BY DEF Serve, LoadModel, LoadStats, LoadCard, LoadUpper, ServerRestarts, serving, disk, bounds
<1>2. ASSUME Loaded' => /\ served'.model \in Trainings /\ UpperReaches(served'.model)
                        /\ \/ Loaded /\ served'.model = served.model
                           \/ served'.model = model["model"] /\ Trained(model["model"]),
             served'.at = "complete" /\ served'.model.upper =>
                served'.upper \in Trainings /\ served'.upper.run >= served'.model.run
      PROVE  UpperInv'
  <2>1. \A n : NoneAfter(n) => NoneAfter(n)'
    BY <1>1, <1>2 DEF NoneAfter, Trained
  <2>2. \A m : UpperReaches(m) => UpperReaches(m)' BY <1>1 DEF UpperReaches
  <2>3. (Loaded => served.model \in Trainings /\ UpperReaches(served.model))'
    BY <1>2, <2>2
  <2>4. (Trained(model["model"]) => UpperReaches(model["model"]))'
    BY <1>1, <2>2 DEF UpperInv, Trained
  <2> QED BY <1>1, <1>2, <2>1, <2>3, <2>4 DEF UpperInv, Trained
<1>3. CASE LoadModel
  <2>1. served'.at = "stats" => served'.model = model["model"] /\ Trained(model["model"])
    BY <1>3 DEF LoadModel, Loads, Trained
  <2>2. served'.at \in {"stats", "absent"} BY <1>3 DEF LoadModel, Loads
  <2> QED BY <1>2, <2>1, <2>2 DEF UpperInv, Loaded
<1>4. CASE LoadStats
  <2>1. Loaded BY <1>4 DEF LoadStats, Loaded
  <2>2. Loaded' => served'.model = served.model /\ served'.at = "card"
    BY <1>4 DEF LoadStats, Loads, Loaded, Asleep
  <2> QED BY <1>2, <2>1, <2>2 DEF UpperInv, Loaded
<1>5. CASE LoadCard
  <2>1. Loaded BY <1>5 DEF LoadCard, Loaded
  <2>2. Loaded' => served'.model = served.model /\ served'.at = "loaded"
    BY <1>5 DEF LoadCard, Loads, Loaded, Asleep
  <2> QED BY <1>2, <2>1, <2>2 DEF UpperInv, Loaded
<1>6. CASE LoadUpper
  <2>1. Loaded BY <1>6 DEF LoadUpper, Loaded
  <2>2. served'.at = "complete" /\ served'.model = served.model /\ served'.upper = model["upper"]
        /\ model["upper"] # Torn
    BY <1>6 DEF LoadUpper, Loads
  <2>3. served.model \in Trainings /\ UpperReaches(served.model)
    BY <2>1 DEF UpperInv
  <2>4. served.model.upper => model["upper"] \in Trainings /\ model["upper"].run >= served.model.run
    BY <2>2, <2>3 DEF UpperReaches
  <2> QED BY <1>2, <2>1, <2>2, <2>3, <2>4
<1>7. CASE ServerRestarts
  BY <1>2, <1>7 DEF ServerRestarts, Asleep, Loaded
<1> QED BY <1>3, <1>4, <1>5, <1>6, <1>7 DEF Serve

LEMMA UpperStep == UpperInv /\ [PipelineNext]_pipelineVars => UpperInv'
<1> SUFFICES ASSUME UpperInv, [PipelineNext]_pipelineVars PROVE UpperInv'
  OBVIOUS
<1> USE DEF disk, bounds
<1>1. CASE Fetch
  BY <1>1, UpperQuiet DEF Fetch, StartFetch, FetchChunk, FetchOpen, FetchRow, WriteCsv, Record, KillFetch, Start
<1>2. CASE Qc
  BY <1>2, UpperQuiet DEF Qc, StartQc, QcWrite, KillQc, Start
<1>3. CASE Audit
  BY <1>3, UpperQuiet DEF Audit, StartAudit, AuditRead, AuditRow, AuditEntry, AuditReport, KillAudit, Start
<1>4. CASE Count
  BY <1>4, UpperQuiet DEF Count, StartCount, CountRead, CountSource, CountMask, CountWrite, KillCount, counting, Start
<1>5. CASE Train
  <2>1. CASE \E masks, upper \in BOOLEAN : StartTrain(masks, upper)
    BY <2>1, UpperQuiet DEF StartTrain, Start
  <2>2. CASE train # Off /\ \E s \in Stations : TrainRead(s)
    BY <2>2, UpperQuiet DEF TrainRead, training, UpperInv
  <2>3. CASE train # Off /\ TrainMask
    BY <2>3, UpperQuiet DEF TrainMask, training, UpperInv
  <2>4. CASE train # Off /\ TrainFit
    BY <2>4, UpperFit
  <2>5. CASE train # Off /\ TrainWrite
    BY <2>5, UpperWhileWritten
  <2>6. CASE KillTrain
    BY <2>6, UpperWhenKilled
  <2> QED BY <1>5, <2>1, <2>2, <2>3, <2>4, <2>5, <2>6 DEF Train
<1>6. CASE Serve
  BY <1>6, UpperWhileServed
<1>7. CASE \E p \in Policies : EditPolicy(p)
  BY <1>7, UpperQuiet DEF EditPolicy
<1>8. CASE UNCHANGED pipelineVars
  BY <1>8, UpperQuiet DEF pipelineVars
<1> QED BY <1>1, <1>2, <1>3, <1>4, <1>5, <1>6, <1>7, <1>8 DEF PipelineNext

(* Wherever a training is killed and whenever the server loads: the upper   *)
(* bound it shows is not of an older training than the forecast beside it.  *)
THEOREM UpperIsNotOlder == PipelineSpec => []UpperNotOlder
<1>1. PipelineInit => UpperInv
  BY DEF PipelineInit, UpperInv, NoneAfter, Loaded, Trained, Asleep, Off
<1>2. UpperInv => UpperNotOlder
  BY PipelineAssumption DEF UpperInv, UpperNotOlder
<1> QED BY <1>1, <1>2, UpperStep, PTL DEF PipelineSpec

-----------------------------------------------------------------------------
(* The types, and what they rest on: a script writes hours of its station,  *)
(* and an audit the mask of a station, that it has set out to write.        *)
DiskTypes ==
    /\ policy \in Policies
    /\ raw \in [Stations -> [Years -> {"none", "torn", "whole", "empty"}]]
    /\ csv \in [Stations -> (SUBSET Hours) \cup {None}]
    /\ manifest \in [Stations -> (SUBSET Hours) \cup {None}] \cup {Torn}

MaskTypes ==
    /\ DOMAIN mask = Stations
    /\ \A s \in Stations : mask[s] # None =>
           mask[s] \in Masks /\ mask[s].rows \subseteq Span(mask[s].of)

FetchTypes ==
    fetch # Off =>
        /\ fetch.station \in Stations /\ fetch.at \in {"raw", "csv"}
        /\ fetch.at = "raw" => fetch.years \subseteq Years
        /\ fetch.at = "csv" => fetch.rows \subseteq Hours /\ csv[fetch.station] \subseteq fetch.rows

QcTypes ==
    qc # Off =>
        /\ qc.entries \in [Stations -> (SUBSET Hours) \cup {None}]
        /\ qc.meanwhile \subseteq Stations

AuditTypes ==
    audit # Off =>
        /\ audit.policy \in Policies
        /\ audit.at = "mask" => audit.station \in Stations /\ mask[audit.station] # None

BoundTypes ==
    /\ scripts \in 0 .. MaxScripts /\ kills \in 0 .. MaxKills
    /\ behind \subseteq Stations /\ crossed \subseteq Stations

FilesInv == DiskTypes /\ MaskTypes /\ FetchTypes /\ QcTypes /\ AuditTypes /\ BoundTypes

(* Steps that touch no file but what is made of the csv.                    *)
LEMMA FilesQuiet ==
    ASSUME FilesInv, UNCHANGED <<raw, csv, manifest, mask, fetch, qc, audit>>,
           policy' \in Policies, BoundTypes'
    PROVE  FilesInv'
BY DEF FilesInv, DiskTypes, MaskTypes, FetchTypes, QcTypes, AuditTypes

LEMMA Bounds ==
    ASSUME BoundTypes, UNCHANGED <<behind, crossed>>,
           \/ UNCHANGED <<scripts, kills>>
           \/ Start /\ kills' = kills
           \/ Kill /\ scripts' = scripts
    PROVE  BoundTypes'
BY PipelineAssumption DEF BoundTypes, Start, Kill

(* A row more of a file is one of the rows it lacks.                        *)
LEMMA ExtendedKeeps ==
    ASSUME NEW rows, NEW whole, rows \subseteq whole, whole \subseteq Hours, rows # whole
    PROVE  Extended(rows, whole) \subseteq whole
<1>1. IsFiniteSet(whole \ rows)
  BY PipelineAssumption, FS_Subset
<1>2. whole \ rows \subseteq Int /\ whole \ rows # {}
  BY PipelineAssumption, ZenonT(30) DEF Hours
<1>3. Min(whole \ rows) \in whole \ rows
  BY <1>1, <1>2, FiniteHasLeast
<1> QED BY <1>3 DEF Extended

(* The fetch writes a csv.                                                  *)
LEMMA FilesWhileWritten ==
    ASSUME FilesInv, NEW s \in Stations, NEW rows \in SUBSET Hours, WriteCsv(s, rows),
           FetchTypes'
    PROVE  FilesInv'
<1>1. DiskTypes' BY DEF FilesInv, DiskTypes, WriteCsv
<1>2. MaskTypes' /\ QcTypes' /\ AuditTypes'
  BY DEF FilesInv, MaskTypes, QcTypes, AuditTypes, WriteCsv
<1>3. BoundTypes' BY DEF FilesInv, BoundTypes, WriteCsv, bounds
<1> QED BY <1>1, <1>2, <1>3 DEF FilesInv

LEMMA FilesWhileFetched ==
    ASSUME FilesInv,
           \/ \E s \in Stations, years \in (SUBSET Years) \ {{}} : StartFetch(s, years)
           \/ fetch # Off /\ (FetchChunk \/ FetchOpen \/ FetchRow \/ Record \/ KillFetch)
    PROVE  FilesInv'
<1> USE DEF disk, history, bounds
<1>1. CASE \E s \in Stations, years \in (SUBSET Years) \ {{}} : StartFetch(s, years)
  <2>1. BoundTypes' BY <1>1, Bounds DEF FilesInv, StartFetch
  <2>2. FetchTypes' BY <1>1 DEF FetchTypes, StartFetch
  <2> QED BY <1>1, <2>1, <2>2 DEF FilesInv, DiskTypes, MaskTypes, QcTypes, AuditTypes, StartFetch
<1>2. CASE fetch # Off /\ FetchChunk
  <2>1. BoundTypes' BY <1>2, Bounds DEF FilesInv, FetchChunk
  <2>2. FetchTypes' BY <1>2 DEF FilesInv, FetchTypes, FetchChunk
  <2>3. raw' \in [Stations -> [Years -> {"none", "torn", "whole", "empty"}]]
    BY <1>2 DEF FilesInv, DiskTypes, FetchTypes, FetchChunk, RawOf
  <2> QED BY <1>2, <2>1, <2>2, <2>3 DEF FilesInv, DiskTypes, MaskTypes, QcTypes, AuditTypes, FetchChunk
<1>3. CASE fetch # Off /\ FetchOpen
  <2>1. fetch.station \in Stations /\ fetch.years \subseteq Years
    BY <1>3 DEF FilesInv, FetchTypes, FetchOpen
  <2>2. Merged(fetch.station, fetch.years) \subseteq Hours
    BY <2>1 DEF Merged, Hours
  <2>3. csv'[fetch.station] = {}
    BY <1>3, <2>1 DEF FilesInv, DiskTypes, FetchOpen, WriteCsv
  <2>4. FetchTypes' BY <1>3, <2>1, <2>2, <2>3 DEF FetchTypes, FetchOpen
  <2> QED BY <1>3, <2>1, <2>4, FilesWhileWritten DEF FetchOpen
<1>4. CASE fetch # Off /\ FetchRow
  <2> DEFINE more == Extended(csv[fetch.station], fetch.rows)
  <2>1. /\ fetch.station \in Stations /\ fetch.at = "csv" /\ fetch.rows \subseteq Hours
        /\ csv[fetch.station] \subseteq fetch.rows /\ csv[fetch.station] # fetch.rows
    BY <1>4 DEF FilesInv, FetchTypes, FetchRow
  <2>2. more \subseteq fetch.rows BY <2>1, ExtendedKeeps
  <2>3. WriteCsv(fetch.station, more) /\ fetch' = fetch
    BY <1>4 DEF FetchRow
  <2> HIDE DEF more
  <2>4. csv'[fetch.station] = more
    BY <2>1, <2>3 DEF FilesInv, DiskTypes, WriteCsv
  <2>5. FetchTypes' BY <1>4, <2>1, <2>2, <2>3, <2>4 DEF FetchTypes
  <2>6. more \in SUBSET Hours BY <2>1, <2>2
  <2> QED BY <2>1, <2>3, <2>5, <2>6, FilesWhileWritten
<1>5. CASE fetch # Off /\ Record
  <2>1. fetch.station \in Stations /\ csv[fetch.station] \in SUBSET Hours
    BY <1>5 DEF FilesInv, FetchTypes, Record
  <2>2. manifest' \in [Stations -> (SUBSET Hours) \cup {None}] \cup {Torn}
    BY <1>5, <2>1 DEF FilesInv, DiskTypes, Record, RecordEntry
  <2>3. QcTypes'
    BY <1>5, <2>1 DEF FilesInv, QcTypes, Record
  <2>4. BoundTypes' BY <1>5 DEF FilesInv, BoundTypes, Record
  <2>5. FetchTypes' BY <1>5 DEF FetchTypes, Record
  <2> QED BY <1>5, <2>2, <2>3, <2>4, <2>5 DEF FilesInv, DiskTypes, MaskTypes, AuditTypes, Record
<1>6. CASE fetch # Off /\ KillFetch
  <2>1. BoundTypes' BY <1>6, Bounds DEF FilesInv, KillFetch
  <2>2. raw' \in [Stations -> [Years -> {"none", "torn", "whole", "empty"}]]
    BY <1>6 DEF FilesInv, DiskTypes, FetchTypes, KillFetch, RawOf
  <2>3. manifest' \in {manifest, Torn} BY <1>6 DEF KillFetch
  <2>4. FetchTypes' BY <1>6 DEF FetchTypes, KillFetch
  <2> QED BY <1>6, <2>1, <2>2, <2>3, <2>4 DEF FilesInv, DiskTypes, MaskTypes, QcTypes, AuditTypes, KillFetch
<1> QED BY <1>1, <1>2, <1>3, <1>4, <1>5, <1>6

LEMMA FilesWhileFlagged ==
    ASSUME FilesInv, Qc
    PROVE  FilesInv'
<1> USE DEF disk, history, bounds
<1>1. CASE StartQc
  <2>1. BoundTypes' BY <1>1, Bounds DEF FilesInv, StartQc
  <2>2. QcTypes' BY <1>1 DEF FilesInv, DiskTypes, QcTypes, StartQc
  <2> QED BY <1>1, <2>1, <2>2 DEF FilesInv, DiskTypes, MaskTypes, FetchTypes, AuditTypes, StartQc
<1>2. CASE QcWrite
  <2>1. BoundTypes' BY <1>2 DEF FilesInv, BoundTypes, QcTypes, QcWrite
  <2>2. DiskTypes' BY <1>2 DEF FilesInv, DiskTypes, QcTypes, QcWrite
  <2> QED BY <1>2, <2>1, <2>2 DEF FilesInv, MaskTypes, FetchTypes, QcTypes, AuditTypes, QcWrite
<1>3. CASE KillQc
  <2>1. BoundTypes' BY <1>3, Bounds DEF FilesInv, KillQc
  <2>2. DiskTypes' BY <1>3 DEF FilesInv, DiskTypes, KillQc
  <2> QED BY <1>3, <2>1, <2>2 DEF FilesInv, MaskTypes, FetchTypes, QcTypes, AuditTypes, KillQc
<1> QED BY <1>1, <1>2, <1>3 DEF Qc

(* The audit opens a mask and writes its rows.                              *)
LEMMA MaskWritten ==
    ASSUME MaskTypes, NEW s \in Stations, NEW m \in Masks, m.rows \subseteq Span(m.of),
           MaskOf(s, m)
    PROVE  MaskTypes' /\ mask'[s] = m /\ m # None
BY PipelineAssumption DEF MaskTypes, MaskOf, Span

(* A row more of the mask: it is of the same csv and the same policy.       *)
LEMMA RowWritten ==
    ASSUME FilesInv, audit # Off, AuditRow
    PROVE  /\ MaskTypes' /\ mask'[audit.station] # None /\ audit' = audit
           /\ audit.station \in Stations /\ mask[audit.station] # None
           /\ mask'[audit.station].of = mask[audit.station].of
           /\ mask'[audit.station].policy = mask[audit.station].policy
           /\ \A s \in Stations \ {audit.station} : mask'[s] = mask[s]
<1> DEFINE m == mask[audit.station]
           longer == [of |-> m.of, policy |-> m.policy, rows |-> Extended(m.rows, Span(m.of))]
<1>1. /\ audit.station \in Stations /\ m # None /\ m \in Masks /\ m.rows \subseteq Span(m.of)
      /\ m.rows # Span(m.of)
  BY DEF FilesInv, MaskTypes, AuditTypes, AuditRow, Whole
<1>2. Span(m.of) \subseteq Hours BY DEF Span
<1>3. longer.rows \subseteq Span(m.of)
  BY <1>1, <1>2, ExtendedKeeps
<1>4. longer \in Masks
  BY <1>1, <1>2, <1>3 DEF Masks
<1>5. MaskOf(audit.station, longer) /\ audit' = audit
  BY DEF AuditRow
<1>6. longer.of = m.of /\ longer.policy = m.policy OBVIOUS
<1>7. \A s \in Stations \ {audit.station} : mask'[s] = mask[s]
  BY <1>1, <1>5 DEF FilesInv, MaskTypes, MaskOf
<1> HIDE DEF longer
<1>8. MaskTypes' /\ mask'[audit.station] = longer /\ longer # None
  BY <1>1, <1>3, <1>4, <1>5, <1>6, MaskWritten DEF FilesInv
<1> QED BY <1>1, <1>5, <1>6, <1>7, <1>8

LEMMA FilesWhileAudited ==
    ASSUME FilesInv,
           \/ \E stations \in (SUBSET Stations) \ {{}} : StartAudit(stations)
           \/ audit # Off /\ (AuditRow \/ AuditEntry \/ AuditReport \/ KillAudit)
           \/ audit # Off /\ \E s \in Stations : AuditRead(s)
    PROVE  FilesInv'
<1> USE DEF disk, history, bounds
<1>1. /\ UNCHANGED <<policy, raw, csv, manifest, fetch, qc>>
      /\ BoundTypes'
  BY Bounds DEF FilesInv, StartAudit, AuditRow, AuditEntry, AuditReport, KillAudit, AuditRead
<1>2. DiskTypes' /\ FetchTypes' /\ QcTypes'
  BY <1>1 DEF FilesInv, DiskTypes, FetchTypes, QcTypes
<1>3. CASE \E stations \in (SUBSET Stations) \ {{}} : StartAudit(stations)
  BY <1>1, <1>2, <1>3 DEF FilesInv, DiskTypes, MaskTypes, AuditTypes, StartAudit, Span
<1>4. CASE audit # Off /\ AuditRow
  <2>1. MaskTypes' /\ mask'[audit.station] # None /\ audit' = audit
    BY <1>4, RowWritten
  <2>2. AuditTypes' BY <2>1 DEF FilesInv, AuditTypes
  <2> QED BY <1>1, <1>2, <2>1, <2>2 DEF FilesInv
<1>5. CASE audit # Off /\ (AuditEntry \/ AuditReport \/ KillAudit)
  <2>1. mask' = mask BY <1>5 DEF AuditEntry, AuditReport, KillAudit
  <2>2. audit' = Off \/ (audit'.at = "next" /\ audit'.policy = audit.policy)
    BY <1>5 DEF AuditEntry, AuditReport, KillAudit
  <2>3. MaskTypes' BY <2>1 DEF FilesInv, MaskTypes, Span
  <2>4. AuditTypes' BY <1>5, <2>2 DEF FilesInv, AuditTypes
  <2> QED BY <1>1, <1>2, <2>3, <2>4 DEF FilesInv
<1>6. CASE audit # Off /\ \E s \in Stations : AuditRead(s)
  <2> PICK s \in Stations : AuditRead(s) BY <1>6
  <2> DEFINE fresh == [of |-> csv[s], policy |-> audit.policy, rows |-> {}]
  <2>1. CASE csv[s] = None
    <3>1. mask' = mask /\ audit'.at = "next" /\ audit'.policy = audit.policy
      BY <2>1 DEF AuditRead
    <3>2. MaskTypes' BY <3>1 DEF FilesInv, MaskTypes, Span
    <3>3. AuditTypes' BY <1>6, <3>1 DEF FilesInv, AuditTypes
    <3> QED BY <1>1, <1>2, <3>2, <3>3 DEF FilesInv
  <2>2. CASE csv[s] # None
    <3>1. csv[s] \in SUBSET Hours /\ audit.policy \in Policies
      BY <1>6, <2>2 DEF FilesInv, DiskTypes, AuditTypes
    <3>2. fresh \in Masks /\ fresh.rows \subseteq Span(fresh.of)
      BY <3>1 DEF Masks
    <3>3. MaskOf(s, fresh) BY <2>2 DEF AuditRead
    <3>4. audit'.station = s /\ audit'.policy = audit.policy
      BY <2>2 DEF AuditRead
    <3> HIDE DEF fresh
    <3>5. MaskTypes' /\ mask'[s] # None
      BY <3>2, <3>3, MaskWritten DEF FilesInv
    <3>6. AuditTypes' BY <3>1, <3>4, <3>5 DEF AuditTypes
    <3> QED BY <1>1, <1>2, <3>5, <3>6 DEF FilesInv
  <2> QED BY <2>1, <2>2
<1> QED BY <1>3, <1>4, <1>5, <1>6

LEMMA FilesStep == FilesInv /\ [PipelineNext]_pipelineVars => FilesInv'
<1> SUFFICES ASSUME FilesInv, [PipelineNext]_pipelineVars PROVE FilesInv'
  OBVIOUS
<1> USE DEF disk, history, bounds
<1>1. CASE Fetch BY <1>1, FilesWhileFetched DEF Fetch
<1>2. CASE Qc BY <1>2, FilesWhileFlagged
<1>3. CASE Audit BY <1>3, FilesWhileAudited DEF Audit
<1>4. CASE Count
  <2>1. UNCHANGED <<policy, raw, csv, manifest, mask, fetch, qc, audit>>
    BY <1>4 DEF Count, StartCount, CountRead, CountSource, CountMask, CountWrite, KillCount, counting
  <2>2. CASE \E masks \in BOOLEAN : StartCount(masks)
    <3>1. Start /\ kills' = kills /\ behind' = behind /\ crossed' = {}
      BY <2>2 DEF StartCount
    <3>2. BoundTypes' BY <3>1, PipelineAssumption DEF FilesInv, BoundTypes, Start
    <3> QED BY <2>1, <3>2, FilesQuiet DEF FilesInv, DiskTypes
  <2>3. CASE count # Off /\ \E s \in Stations : CountRead(s)
    <3>1. BoundTypes' BY <2>3, Bounds DEF FilesInv, CountRead, counting
    <3> QED BY <2>1, <3>1, FilesQuiet DEF FilesInv, DiskTypes
  <2>4. CASE count # Off /\ (CountSource \/ CountMask \/ CountWrite \/ KillCount)
    <3>1. BoundTypes' BY <2>4, Bounds DEF FilesInv, CountSource, CountMask, CountWrite, KillCount, counting
    <3> QED BY <2>1, <3>1, FilesQuiet DEF FilesInv, DiskTypes
  <2> QED BY <1>4, <2>2, <2>3, <2>4 DEF Count
<1>5. CASE Train
  <2>1. BoundTypes'
    BY <1>5, Bounds DEF FilesInv, Train, StartTrain, TrainRead, TrainMask, TrainFit, TrainWrite, KillTrain, training
  <2>2. UNCHANGED <<policy, raw, csv, manifest, mask, fetch, qc, audit>>
    BY <1>5 DEF Train, StartTrain, TrainRead, TrainMask, TrainFit, TrainWrite, KillTrain, training
  <2> QED BY <2>1, <2>2, FilesQuiet DEF FilesInv, DiskTypes
<1>6. CASE Serve
  <2>1. UNCHANGED <<disk, fetch, qc, audit, history, bounds>>
    BY <1>6 DEF Serve, LoadModel, LoadStats, LoadCard, LoadUpper, ServerRestarts, serving
  <2>2. BoundTypes' BY <2>1, Bounds DEF FilesInv
  <2> QED BY <2>1, <2>2, FilesQuiet DEF FilesInv, DiskTypes
<1>7. CASE \E p \in Policies : EditPolicy(p)
  <2>1. BoundTypes' BY <1>7, Bounds DEF FilesInv, EditPolicy
  <2> QED BY <1>7, <2>1, FilesQuiet DEF EditPolicy
<1>8. CASE UNCHANGED pipelineVars
  <2>1. BoundTypes' BY <1>8, Bounds DEF FilesInv, pipelineVars
  <2> QED BY <1>8, <2>1, FilesQuiet DEF FilesInv, DiskTypes, pipelineVars
<1> QED BY <1>1, <1>2, <1>3, <1>4, <1>5, <1>6, <1>7, <1>8 DEF PipelineNext

-----------------------------------------------------------------------------
(* The training.  Where an audit begun since the last edit has been, the    *)
(* mask is one of the policy in force; where the csv was not written since  *)
(* an audit read it, one of the csv on disk: also while its rows are still  *)
(* being written.                                                           *)
MaskInv ==
    /\ edited \in BOOLEAN /\ prior \subseteq Stations /\ unread \subseteq Stations
    /\ audit # Off /\ ~edited => audit.policy = policy
    /\ edited => prior = Stations
    /\ \A s \in Stations \ prior : mask[s] # None /\ mask[s].policy = policy
    /\ \A s \in Stations \ unread : mask[s] # None /\ mask[s].of = csv[s]
    /\ train # Off /\ train.at \in {"next", "mask"} => DOMAIN train.rows = Stations

(* Steps that touch no policy, csv or mask.                                 *)
LEMMA MaskQuiet ==
    ASSUME MaskInv, UNCHANGED <<policy, csv, mask, masking>>,
           \/ audit' = audit \/ audit' = Off
           \/ audit # Off /\ audit'.policy = audit.policy,
           \/ train' = train \/ train' = Off
           \/ train'.at = "write"
           \/ DOMAIN train'.rows = Stations
    PROVE  MaskInv'
BY DEF MaskInv, masking, Off

LEMMA MaskWhileFetched ==
    ASSUME FilesInv, MaskInv, Fetch
    PROVE  MaskInv'
<1> USE DEF disk, history, bounds
<1>1. ASSUME NEW rows, fetch # Off, WriteCsv(fetch.station, rows)
      PROVE  MaskInv'
  <2>1. /\ UNCHANGED <<policy, mask, audit, train, edited, prior>>
        /\ csv' = [csv EXCEPT ![fetch.station] = rows] /\ unread' = unread \cup {fetch.station}
    BY <1>1 DEF WriteCsv
  <2>2. fetch.station \in Stations BY <1>1 DEF FilesInv, FetchTypes
  <2> QED BY <2>1, <2>2 DEF MaskInv
<1>2. CASE \E s \in Stations, years \in (SUBSET Years) \ {{}} : StartFetch(s, years)
  BY <1>2, MaskQuiet DEF StartFetch
<1>3. CASE fetch # Off /\ (FetchOpen \/ FetchRow)
  BY <1>1, <1>3 DEF FetchOpen, FetchRow
<1>4. CASE FetchChunk \/ Record \/ KillFetch
  BY <1>4, MaskQuiet DEF FetchChunk, Record, KillFetch
<1> QED BY <1>2, <1>3, <1>4 DEF Fetch

LEMMA MaskWhileAudited ==
    ASSUME FilesInv, MaskInv, Audit
    PROVE  MaskInv'
<1> USE DEF disk, history, bounds
<1>1. CASE \E stations \in (SUBSET Stations) \ {{}} : StartAudit(stations)
  <2>1. /\ UNCHANGED <<policy, csv, mask, train, prior, unread>>
        /\ edited' = FALSE /\ audit'.policy = policy
    BY <1>1 DEF StartAudit
  <2> QED BY <2>1 DEF MaskInv
<1>2. CASE audit # Off /\ AuditRow
  <2>1. UNCHANGED <<policy, csv, masking, audit, train>>
    BY <1>2 DEF AuditRow
  <2>2. \A s \in Stations : mask[s] # None =>
           mask'[s] # None /\ mask'[s].of = mask[s].of /\ mask'[s].policy = mask[s].policy
    BY <1>2, RowWritten
  <2> QED BY <2>1, <2>2 DEF MaskInv, masking
<1>3. CASE audit # Off /\ (AuditEntry \/ AuditReport \/ KillAudit)
  BY <1>3, MaskQuiet DEF AuditEntry, AuditReport, KillAudit
<1>4. CASE audit # Off /\ \E s \in Stations : AuditRead(s)
  <2> PICK s \in Stations : AuditRead(s) BY <1>4
  <2> DEFINE fresh == [of |-> csv[s], policy |-> audit.policy, rows |-> {}]
  <2>1. CASE csv[s] = None
    BY <1>4, <2>1, MaskQuiet DEF AuditRead, masking
  <2>2. CASE csv[s] # None
    <3>1. /\ MaskOf(s, fresh) /\ audit'.policy = audit.policy
          /\ prior' = IF edited THEN prior ELSE prior \ {s}
          /\ unread' = unread \ {s}
          /\ UNCHANGED <<policy, csv, train, edited>>
      BY <2>2 DEF AuditRead
    <3>2. fresh \in Masks /\ fresh.rows \subseteq Span(fresh.of)
      BY <1>4, <2>2 DEF FilesInv, DiskTypes, AuditTypes, Masks
    <3>3. fresh.of = csv[s] /\ fresh.policy = audit.policy OBVIOUS
    <3>4. \A x \in Stations \ {s} : mask'[x] = mask[x]
      BY <3>1 DEF FilesInv, MaskTypes, MaskOf
    <3> HIDE DEF fresh
    <3>5. mask'[s] = fresh /\ fresh # None
      BY <3>1, <3>2, MaskWritten DEF FilesInv
    <3>6. ~edited => audit.policy = policy BY <1>4 DEF MaskInv
    <3>7. \A x \in Stations \ prior' : mask'[x] # None /\ mask'[x].policy = policy
      <4> TAKE x \in Stations \ prior'
      <4>1. CASE x = s
        <5>1. ~edited BY <3>1, <4>1 DEF MaskInv
        <5> QED BY <3>3, <3>5, <3>6, <4>1, <5>1
      <4>2. CASE x # s
        <5>1. x \in Stations \ prior BY <3>1, <4>2
        <5> QED BY <3>4, <4>2, <5>1 DEF MaskInv
      <4> QED BY <4>1, <4>2
    <3>8. \A x \in Stations \ unread' : mask'[x] # None /\ mask'[x].of = csv[x]
      <4> TAKE x \in Stations \ unread'
      <4>1. CASE x = s BY <3>3, <3>5, <4>1
      <4>2. CASE x # s
        <5>1. x \in Stations \ unread BY <3>1, <4>2
        <5> QED BY <3>4, <4>2, <5>1 DEF MaskInv
      <4> QED BY <4>1, <4>2
    <3> QED BY <1>4, <3>1, <3>6, <3>7, <3>8 DEF MaskInv
  <2> QED BY <2>1, <2>2
<1> QED BY <1>1, <1>2, <1>3, <1>4 DEF Audit

LEMMA MaskStep == FilesInv /\ MaskInv /\ [PipelineNext]_pipelineVars => MaskInv'
<1> SUFFICES ASSUME FilesInv, MaskInv, [PipelineNext]_pipelineVars PROVE MaskInv'
  OBVIOUS
<1> USE DEF disk, history, bounds
<1>1. CASE Fetch BY <1>1, MaskWhileFetched
<1>2. CASE Qc BY <1>2, MaskQuiet DEF Qc, StartQc, QcWrite, KillQc
<1>3. CASE Audit BY <1>3, MaskWhileAudited
<1>4. CASE Count
  BY <1>4, MaskQuiet DEF Count, StartCount, CountRead, CountSource, CountMask, CountWrite, KillCount, counting
<1>5. CASE Train
  <2>1. UNCHANGED <<policy, csv, mask, masking, audit>>
    BY <1>5 DEF Train, StartTrain, TrainRead, TrainMask, TrainFit, TrainWrite, KillTrain, training
  <2>2. CASE \E masks, upper \in BOOLEAN : StartTrain(masks, upper)
    BY <2>1, <2>2, MaskQuiet DEF StartTrain, NoEntries
  <2>3. CASE train # Off /\ \E s \in Stations : TrainRead(s)
    BY <2>1, <2>3, MaskQuiet DEF MaskInv, TrainRead
  <2>4. CASE train # Off /\ TrainMask
    <3>1. DOMAIN train'.rows = Stations BY <2>4 DEF MaskInv, TrainMask
    <3> QED BY <2>1, <3>1, MaskQuiet
  <2>5. CASE train # Off /\ (TrainFit \/ TrainWrite \/ KillTrain)
    BY <2>1, <2>5, MaskQuiet DEF TrainFit, TrainWrite, KillTrain
  <2> QED BY <1>5, <2>2, <2>3, <2>4, <2>5 DEF Train
<1>6. CASE Serve
  BY <1>6, MaskQuiet DEF Serve, LoadModel, LoadStats, LoadCard, LoadUpper, ServerRestarts, serving
<1>7. CASE \E p \in Policies : EditPolicy(p)
  <2>1. /\ UNCHANGED <<csv, mask, audit, train, unread>>
        /\ edited' = (audit # Off) /\ prior' = Stations
    BY <1>7 DEF EditPolicy
  <2> QED BY <2>1 DEF MaskInv
<1>8. CASE UNCHANGED pipelineVars
  BY <1>8, MaskQuiet DEF pipelineVars
<1> QED BY <1>1, <1>2, <1>3, <1>4, <1>5, <1>6, <1>7, <1>8 DEF PipelineNext

LEMMA HoursAreInts == Hours \subseteq Int
<1> SUFFICES ASSUME NEW h \in Hours PROVE h \in Int
  OBVIOUS
<1> PICK y \in Years : h \in HoursOf[y] BY DEF Hours
<1> QED BY PipelineAssumption

(* A finite set of numbers lies between its least and its greatest.         *)
LEMMA InSpan ==
    ASSUME NEW rows, rows \subseteq Hours
    PROVE  rows \subseteq Span(rows)
<1> SUFFICES ASSUME rows # {} PROVE rows \subseteq Span(rows)
  OBVIOUS
<1> DEFINE Back == {0 - h : h \in rows}
<1>1. IsFiniteSet(rows) BY PipelineAssumption, FS_Subset
<1>2. rows \subseteq Int BY PipelineAssumption, HoursAreInts
<1>3. \A h \in rows : Min(rows) <= h BY <1>1, <1>2, FiniteHasLeast
<1>4. Back \subseteq Int
  <2> SUFFICES ASSUME NEW h \in rows PROVE 0 - h \in Int
    OBVIOUS
  <2> QED BY <1>2
<1>5. Back # {} /\ IsFiniteSet(Back)
  <2> DEFINE back == [h \in rows |-> 0 - h]
  <2>1. back \in Surjection(rows, Back) BY DEF Surjection
  <2> HIDE DEF back, Back
  <2>2. IsFiniteSet(Back) BY <1>1, <2>1, FS_Surjection
  <2>3. Back # {} BY <2>1 DEF Surjection
  <2> QED BY <2>2, <2>3
<1> HIDE DEF Back
<1>6. Min(Back) \in Back /\ \A x \in Back : Min(Back) <= x BY <1>4, <1>5, FiniteHasLeast
<1>7. PICK g \in rows : Min(Back) = 0 - g BY <1>6 DEF Back
<1>8. \A h \in rows : g >= h
  <2> TAKE h \in rows
  <2>1. 0 - h \in Back BY DEF Back
  <2>2. 0 - g <= 0 - h BY <1>6, <1>7, <2>1
  <2>3. g \in Int /\ h \in Int BY <1>2
  <2> QED BY <2>2, <2>3
<1>9. Max(rows) \in rows /\ \A h \in rows : Max(rows) >= h BY <1>8 DEF Max
<1>10. Min(rows) \in Int /\ Max(rows) \in Int BY <1>1, <1>2, <1>9, FiniteHasLeast
<1> QED BY <1>2, <1>3, <1>9, <1>10 DEF Span

(* What training picks by a mask, under the policy of the mask.             *)
LEMMA MaskedSound ==
    ASSUME NEW rows, NEW m
    PROVE  /\ Masked(rows, m) \subseteq Sound(rows, m.policy)
           /\ m.of = rows /\ m.of \subseteq Hours /\ Whole(m) => Masked(rows, m) = Sound(rows, m.policy)
<1>1. Masked(rows, m) \subseteq Sound(rows, m.policy)
  BY DEF Masked, UsableWindows, Usable, Sound
<1>2. ASSUME m.of = rows, m.of \subseteq Hours, Whole(m)
      PROVE  Sound(rows, m.policy) \subseteq Masked(rows, m)
  <2>1. rows \subseteq m.rows BY <1>2, InSpan DEF Whole
  <2>2. SUFFICES ASSUME NEW h \in Sound(rows, m.policy) PROVE h \in Masked(rows, m)
    OBVIOUS
  <2>3. h \in Complete(rows) /\ h \in rows
        /\ Window(h) \subseteq rows \ Blank /\ Window(h) \cap m.policy = {}
    BY DEF Sound, Complete
  <2>4. h \in UsableWindows(rows, m.policy) BY <2>3 DEF UsableWindows, Usable
  <2> QED BY <1>2, <2>1, <2>3, <2>4 DEF Masked
<1> QED BY <1>1, <1>2

LEMMA FilesInit == PipelineInit => FilesInv
BY PipelineAssumption
   DEF PipelineInit, NoEntries, FilesInv, DiskTypes, MaskTypes, FetchTypes, QcTypes, AuditTypes, BoundTypes

LEMMA MaskInit == PipelineInit => MaskInv
BY DEF PipelineInit, MaskInv

(* However fetches, audits, edits and kills interleave with it: a training  *)
(* keeps to the policy in force wherever an audit begun since its last edit *)
(* has been, though it never asks what a mask is of, and it leaves out no   *)
(* other row where nobody wrote the csv since the audit and its own read.   *)
THEOREM TrainingKeepsToPolicy == PipelineSpec => TrainedByPolicy
<1>1. FilesInv /\ MaskInv /\ [PipelineNext]_pipelineVars => [KeepsToPolicy]_pipelineVars
  <2> SUFFICES ASSUME FilesInv, MaskInv, PipelineNext,
                      NEW s \in Stations \ prior, Picks(s)
               PROVE  /\ train'.rows[s] \subseteq Sound(train.read, policy)
                      /\ Whole(mask[s]) /\ s \notin unread /\ csv[s] = train.read =>
                            train'.rows[s] = Sound(train.read, policy)
    BY DEF KeepsToPolicy
  <2>1. /\ train # Off /\ train.at = "mask" /\ train.masks /\ train.station = s
        /\ train' # Off /\ train'.at = "next"
    BY DEF Picks
  <2>2. TrainMask
    <3>1. train' # train BY <2>1
    <3> USE DEF disk, history, bounds
    <3>2. ~(Fetch \/ Qc \/ Audit \/ Count \/ Serve \/ \E p \in Policies : EditPolicy(p))
      BY <3>1 DEF Fetch, StartFetch, FetchChunk, FetchOpen, FetchRow, WriteCsv, Record, KillFetch,
                  Qc, StartQc, QcWrite, KillQc,
                  Audit, StartAudit, AuditRead, AuditRow, AuditEntry, AuditReport, KillAudit,
                  Count, StartCount, CountRead, CountSource, CountMask, CountWrite, KillCount, counting,
                  Serve, LoadModel, LoadStats, LoadCard, LoadUpper, ServerRestarts, serving, EditPolicy
    <3>3. Train BY <3>2 DEF PipelineNext
    <3> QED BY <2>1, <3>3 DEF Train, StartTrain, TrainRead, TrainFit, TrainWrite, KillTrain
  <2>3. mask[s] # None /\ mask[s].policy = policy BY DEF MaskInv
  <2>4. train'.rows[s] = Masked(train.read, mask[s])
    <3>1. DOMAIN train.rows = Stations BY <2>1 DEF MaskInv
    <3> QED BY <2>1, <2>2, <2>3, <3>1 DEF TrainMask
  <2>5. mask[s].of \subseteq Hours BY <2>3 DEF FilesInv, MaskTypes, Masks
  <2>6. s \notin unread => mask[s].of = csv[s] BY DEF MaskInv
  <2> QED BY <2>3, <2>4, <2>5, <2>6, MaskedSound
<1> QED BY FilesInit, MaskInit, <1>1, FilesStep, MaskStep, PTL DEF PipelineSpec, TrainedByPolicy

-----------------------------------------------------------------------------
(* Whatever scripts are started and killed beside each other: a csv being   *)
(* fetched holds hours of that fetch and no other, a mask marks hours from  *)
(* the first to the last row of what it audits, and an audit that writes    *)
(* rows has a mask to write them to.                                        *)
THEOREM PipelineTypeOKHolds == PipelineSpec => []PipelineTypeOK
<1>1. FilesInv /\ MaskInv => PipelineTypeOK
  BY DEF FilesInv, DiskTypes, MaskTypes, FetchTypes, AuditTypes, BoundTypes, MaskInv, PipelineTypeOK
<1> QED BY FilesInit, MaskInit, <1>1, FilesStep, MaskStep, PTL DEF PipelineSpec
=============================================================================
