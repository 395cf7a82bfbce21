--------------------------- MODULE ClosureLedger ---------------------------
(***************************************************************************)
(* What the closure log promises to the season scorecard and to an audit   *)
(* (docstring of backend/app/closure_log.py): entries are only ever added, *)
(* an amendment names a closure that was entered before it, and an entry   *)
(* that was confirmed to the operator stays.                               *)
(***************************************************************************)
EXTENDS Integers, Sequences, SequencesExt

CONSTANT Entries   \* every record and amendment an operator can enter

VARIABLES
    ledger,        \* the entries in effect, oldest first
    confirmed      \* those whose operator was told they are stored

ledgerVars == <<ledger, confirmed>>

(* The record an amendment belongs to.                                      *)
Opens(r, a) ==
    /\ r.type = "record" /\ a.type = "amendment"
    /\ r.no = a.record /\ r.facility = a.facility

Admissible(e) ==
    /\ \A f \in ToSet(ledger) : f.no # e.no
    /\ e.type = "amendment" =>
         \E r \in ToSet(ledger) : Opens(r, e) /\ r.kind = "CLOSED" /\ e.end > r.start

LedgerInit == ledger = <<>> /\ confirmed = {}

Enter(e) ==
    /\ Admissible(e)
    /\ ledger' = Append(ledger, e)
    /\ confirmed' \in {confirmed, confirmed \cup {e}}

Confirm(e) ==
    /\ e \in ToSet(ledger)
    /\ confirmed' = confirmed \cup {e}
    /\ UNCHANGED ledger

(* Only the last entry may go, and only while nobody was told it is stored. *)
Withdraw ==
    /\ ledger # <<>>
    /\ Last(ledger) \notin confirmed
    /\ ledger' = Front(ledger)
    /\ UNCHANGED confirmed

LedgerNext == Withdraw \/ \E e \in Entries : Enter(e) \/ Confirm(e)

LedgerSpec == LedgerInit /\ [][LedgerNext]_ledgerVars
=============================================================================
