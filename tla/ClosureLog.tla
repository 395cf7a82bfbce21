----------------------------- MODULE ClosureLog -----------------------------
(***************************************************************************)
(* The append-only closure records of backend/app/closure_log.py: a JSON   *)
(* line per record or amendment in one file, merged on every read.  The    *)
(* confirmation log of decision_log.py is written and read the same way,   *)
(* without amendments.                                                     *)
(*                                                                         *)
(* _append holds the lock for one write, _lines for one read; end_record   *)
(* reads, checks, appends and reads again, and other requests come between.*)
(* A write may fail when the disk is full: nothing, a part of the line or  *)
(* all of it is then in the file.  What lies after the last line feed is   *)
(* glued to the next line that is written.                                 *)
(***************************************************************************)
EXTENDS Sieve, SequencesExt

CONSTANTS
    Facilities, Threads, None, Garbage,
    MaxTime,       \* wall times operators enter
    MaxRequests    \* bound on the write requests

Times == 1 .. MaxTime
Numbers == 1 .. MaxRequests

Records == [type : {"record"}, no : Numbers, facility : Facilities,
            kind : {"CLOSED", "NOT_CLOSED"}, start : Times, end : Times \cup {None}]
Amendments == [type : {"amendment"}, no : Numbers, facility : Facilities,
               record : Numbers, end : Times]
Entries == Records \cup Amendments

ASSUME ConstantsAssumption ==
    /\ {MaxTime, MaxRequests} \subseteq Nat \ {0}
    /\ {None, Garbage} \cap Entries = {}
    /\ None # Garbage /\ None \notin Nat
    /\ None \notin [at : {"checked", "stored"}, entry : Amendments]

VARIABLES
    file,       \* the lines: entries, or Garbage that json.loads refuses
    tail,       \* the text after the last line feed: None, an entry or Garbage
    garbled,    \* a character of several bytes was cut: no read decodes any more
    pending,    \* per thread: the amendment that end_record is working on
    requests,   \* write requests so far; an entry's number, and a record's uuid
    acked,      \* history: entries whose request was answered with 200
    torn        \* history: writes that left a part of a line

vars == <<file, tail, garbled, pending, requests, acked, torn>>

-----------------------------------------------------------------------------
Lines == IF tail = None THEN file ELSE Append(file, tail)

Opens(r, a) ==
    /\ r.type = "record" /\ a.type = "amendment"
    /\ r.no = a.record /\ r.facility = a.facility

(* The lines that take part in the merge of list_records: json.loads        *)
(* accepts them, and an amendment needs its record on an earlier line.      *)
Amends(lines, i, j) ==
    lines[i] # Garbage /\ lines[j] # Garbage /\ i < j /\ Opens(lines[i], lines[j])
InEffect(lines) ==
    {j \in DOMAIN lines :
        /\ lines[j] # Garbage
        /\ lines[j].type = "record" \/ \E i \in DOMAIN lines : Amends(lines, i, j)}
EnteredIn(lines) == {lines[j] : j \in InEffect(lines)}
Entered == EnteredIn(Lines)

(* list_records: each record with the end its last amendment gives it.      *)
EndOf(lines, i) ==
    LET ams == {j \in DOMAIN lines : Amends(lines, i, j)}
    IN IF ams = {} THEN lines[i].end ELSE lines[Max(ams)].end
Listed(f) ==
    {[no |-> Lines[i].no, kind |-> Lines[i].kind, start |-> Lines[i].start, end |-> EndOf(Lines, i)] :
        i \in {k \in InEffect(Lines) : Lines[k].type = "record" /\ Lines[k].facility = f}}

(* A whole line reaches the file.  As bugs: the file is opened for writing  *)
(* instead of appending; an amendment is written over its record.           *)
StoredByRewriting(e) == file' = <<e>> /\ tail' = None
StoredOverRecord(e) ==
    /\ IF e.type = "amendment" /\ \E i \in DOMAIN file : file[i] # Garbage /\ Opens(file[i], e)
         THEN file' = [i \in DOMAIN file |-> IF file[i] # Garbage /\ Opens(file[i], e) THEN e ELSE file[i]]
         ELSE file' = Append(file, IF tail = None THEN e ELSE Garbage)
    /\ tail' = None
Stored(e) ==
    /\ file' = Append(file, IF tail = None THEN e ELSE Garbage)
    /\ tail' = None

(* _append raises OSError.                                                  *)
NotStored(e) ==
    \/ UNCHANGED <<file, tail, garbled, torn>>
    \/ \* the rest is written when the file is closed
       Stored(e) /\ UNCHANGED <<garbled, torn>>
    \/ \* a part of the line, or the line without its line feed
       /\ tail' \in IF tail = None THEN {Garbage, e} ELSE {Garbage}
       /\ garbled' \in IF tail' = Garbage THEN {garbled, TRUE} ELSE {garbled}
       /\ torn' = torn + 1
       /\ UNCHANGED file

-----------------------------------------------------------------------------
Init ==
    /\ file = <<>> /\ tail = None /\ garbled = FALSE
    /\ pending = [t \in Threads |-> None]
    /\ requests = 0 /\ acked = {} /\ torn = 0

(* The validators of ClosureRecordCreate.  As a bug: the reopening time is  *)
(* not compared with the start.                                             *)
ConsistentKindOnly(r) == r.kind = "NOT_CLOSED" => r.end = None
Consistent(r) ==
    /\ r.kind = "NOT_CLOSED" => r.end = None
    /\ r.end # None => r.end > r.start

AppendRecord(r) ==
    /\ requests < MaxRequests /\ r.no = requests + 1
    /\ Consistent(r)
    /\ \/ Stored(r) /\ acked' = acked \cup {r} /\ UNCHANGED <<garbled, torn>>
       \/ NotStored(r) /\ UNCHANGED acked
    /\ requests' = requests + 1
    /\ UNCHANGED pending

(* end_record up to its _append; a LookupError, a ValueError or a file that *)
(* cannot be decoded ends the request.  As a bug: an unknown id is let pass.*)
EndRecordUnknown(t, a) ==
    /\ pending[t] = None
    /\ requests < MaxRequests /\ a.no = requests + 1
    /\ ~garbled
    /\ \A r \in Listed(a.facility) : r.no = a.record => r.kind = "CLOSED" /\ a.end > r.start
    /\ pending' = [pending EXCEPT ![t] = [at |-> "checked", entry |-> a]]
    /\ requests' = requests + 1
    /\ UNCHANGED <<file, tail, garbled, acked, torn>>
EndRecord(t, a) ==
    /\ pending[t] = None
    /\ requests < MaxRequests /\ a.no = requests + 1
    /\ ~garbled
    /\ \E r \in Listed(a.facility) : r.no = a.record /\ r.kind = "CLOSED" /\ a.end > r.start
    /\ pending' = [pending EXCEPT ![t] = [at |-> "checked", entry |-> a]]
    /\ requests' = requests + 1
    /\ UNCHANGED <<file, tail, garbled, acked, torn>>

AppendAmendment(t) ==
    /\ pending[t] # None /\ pending[t].at = "checked"
    /\ \/ /\ Stored(pending[t].entry)
          /\ pending' = [pending EXCEPT ![t].at = "stored"]
          /\ UNCHANGED <<garbled, torn>>
       \/ /\ NotStored(pending[t].entry)
          /\ pending' = [pending EXCEPT ![t] = None]
    /\ UNCHANGED <<requests, acked>>

(* The second list_records: the record is found and returned, or next()     *)
(* finds nothing and raises.                                                *)
ReturnRecord(t) ==
    /\ pending[t] # None /\ pending[t].at = "stored"
    /\ LET a == pending[t].entry
           found == ~garbled /\ \E r \in Listed(a.facility) : r.no = a.record
       IN acked' = IF found THEN acked \cup {a} ELSE acked
    /\ pending' = [pending EXCEPT ![t] = None]
    /\ UNCHANGED <<file, tail, garbled, requests, torn>>

Next ==
    \/ \E r \in Records : AppendRecord(r)
    \/ \E t \in Threads :
          \/ \E a \in Amendments : EndRecord(t, a)
          \/ AppendAmendment(t) \/ ReturnRecord(t)

Spec == Init /\ [][Next]_vars

-----------------------------------------------------------------------------
(* A pending amendment and a stored one name a record entered before them.  *)
TypeOK ==
    /\ file \in Seq(Entries \cup {Garbage})
    /\ tail \in Entries \cup {None, Garbage}
    /\ garbled \in BOOLEAN /\ requests \in 0 .. MaxRequests /\ torn \in Nat
    /\ acked \subseteq Entries
    /\ pending \in [Threads -> [at : {"checked", "stored"}, entry : Amendments] \cup {None}]
    /\ \A t \in Threads : pending[t] # None => pending[t].entry.record < pending[t].entry.no

(* However end_record's check and its append interleave with other requests *)
(* and failed writes, no closure is listed as reopened before it began, and *)
(* a decision not to close never gets a reopening time.                     *)
EndsAfterStart ==
    \A f \in Facilities : \A r \in Listed(f) :
        r.end # None => r.kind = "CLOSED" /\ r.end > r.start

(* An operator's confirmed entry can go missing only through a write that   *)
(* was cut off before it: no more entries are lost than writes were torn.   *)
LostAtMostTorn == Cardinality(acked \ Entered) <= torn

(* "Records are never rewritten [...] the original entry stays auditable"   *)
(* (docstring): what the file holds is a ledger that only grows, but for an *)
(* entry of a failed write that nobody was told is stored.                  *)
Effective == Sieve(Lines, Entered)
Ledger == INSTANCE ClosureLedger WITH ledger <- Effective, confirmed <- acked \cap Entered
IsLedger == Ledger!LedgerSpec
=============================================================================
