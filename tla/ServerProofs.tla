----------------------------- MODULE ServerProofs -----------------------------
(***************************************************************************)
(* The file of closures and what it promises, what the Agent tells of a    *)
(* board, and the lists of the watch board.                                *)
(***************************************************************************)
EXTENDS ClosureLog, BoardAgent, BoardViews, FiniteSets, FunctionTheorems, SequenceTheorems, SieveProofs

-----------------------------------------------------------------------------
(***************************************************************************)
(* For every set of facilities and threads and every bound: the types of   *)
(* the closure log, that no closure is listed as reopened before it began, *)
(* and that no more confirmed entries are lost than writes were torn.      *)
(***************************************************************************)

(* Who is in the file, and which amendments a thread will still confirm.    *)
Present == {Lines[i] : i \in DOMAIN Lines} \ {Garbage}
Working(t) == pending[t] # None
Returning ==
    {pending[t].entry : t \in {u \in Threads :
        /\ Working(u) /\ pending[u].at = "stored"
        /\ \E r \in Entered : Opens(r, pending[u].entry)}}

(* Every number is given once, and an amendment refers to an older entry.   *)
Numbered ==
    /\ \A e \in Present \cup acked : e.no <= requests
    /\ \A r, s \in Present : r.type = "record" /\ s.type = "record" /\ r.no = s.no => r = s
    /\ \A t \in Threads : Working(t) =>
          /\ pending[t].entry.no <= requests
          /\ pending[t].entry \notin acked
          /\ \A u \in Threads : Working(u) /\ u # t => pending[u].entry # pending[t].entry
    /\ \A a \in Present : a.type = "amendment" => a.record < a.no

(* What end_record has checked stays true of every record it could mean.    *)
Suits(r, a) == Opens(r, a) => r.kind = "CLOSED" /\ a.end > r.start
Checked ==
    /\ \A r \in Present : r.type = "record" => Consistent(r)
    /\ \A r, a \in Present : Suits(r, a)
    /\ \A t \in Threads : Working(t) => \A r \in Present : Suits(r, pending[t].entry)

(* The entries that are lost, or will be once their thread confirms them;   *)
(* each has cost a torn write, and one that has cost nothing yet lies at    *)
(* the end of the file.  Nobody was told of what lies there.                *)
Lost == (acked \cup Returning) \ Entered
Spent == IF tail = None THEN 0 ELSE 1
Accounted ==
    /\ IsFiniteSet(Lost) /\ Cardinality(Lost) + Spent <= torn
    /\ tail \notin acked
    /\ \A t \in Threads : Working(t) /\ pending[t].at = "stored" => pending[t].entry # tail

LogInv == TypeOK /\ Numbered /\ Checked /\ Accounted

-----------------------------------------------------------------------------
(* The last amendment is one of the amendments.                             *)
LEMMA MaxIsElement ==
    ASSUME NEW S, S \subseteq Int, S # {}, IsFiniteSet(S)
    PROVE  Max(S) \in S
<1> DEFINE From(x) == {y \in S : y >= x}
<1>1. \A x \in S : From(x) \in FiniteSubsetsOf(S)
  BY FS_FiniteSubsetsOfFinite
<1>2. {From(x) : x \in S} \subseteq FiniteSubsetsOf(S) /\ {From(x) : x \in S} # {}
  BY <1>1
<1>3. PICK T \in {From(x) : x \in S} :
          \A U \in {From(x) : x \in S} : ~(<<U, T>> \in StrictSubsetOrdering(S))
  BY <1>2, FS_StrictSubsetOrderingWellFounded, WFMin
<1>4. PICK x \in S : T = From(x)
  BY <1>3
<1>5. \A y \in S : x >= y
  <2> SUFFICES ASSUME NEW y \in S, y > x PROVE FALSE
    OBVIOUS
  <2>0. x \in Int /\ y \in Int /\ \A z \in S : z \in Int
    OBVIOUS
  <2>3. ~(x >= y) /\ x >= x
    BY <2>0
  <2>4. \A z \in S : z >= y => z >= x
    BY <2>0
  <2>1. From(y) \subseteq From(x) /\ x \in From(x) /\ x \notin From(y)
    BY <2>3, <2>4
  <2>2. <<From(y), From(x)>> \in StrictSubsetOrdering(S)
    BY <2>1 DEF StrictSubsetOrdering
  <2> QED BY <1>3, <1>4, <2>2
<1> QED BY <1>5 DEF Max

(* A line is written after the others.                                      *)
LEMMA EnteredByAppend ==
    ASSUME NEW s \in Seq(Entries \cup {Garbage}), NEW e \in Entries \cup {Garbage}
    PROVE  /\ EnteredIn(s) \subseteq EnteredIn(Append(s, e))
           /\ EnteredIn(Append(s, e)) \subseteq EnteredIn(s) \cup ({e} \ {Garbage})
           /\ e # Garbage /\ e.type = "record" => e \in EnteredIn(Append(s, e))
           /\ e # Garbage /\ (\E r \in EnteredIn(s) : Opens(r, e)) => e \in EnteredIn(Append(s, e))
<1> DEFINE n == Len(s)
           t == Append(s, e)
<1>1. /\ n \in Nat /\ DOMAIN s = 1 .. n /\ DOMAIN t = 1 .. n + 1
      /\ \A i \in 1 .. n : t[i] = s[i]
      /\ t[n + 1] = e
  OBVIOUS
<1> HIDE DEF n, t
<1>2. \A i, j \in 1 .. n : Amends(s, i, j) <=> Amends(t, i, j)
  BY <1>1 DEF Amends
<1>3. \A j \in 1 .. n : j \in InEffect(s) <=> j \in InEffect(t)
  <2>1. \A i \in DOMAIN t, j \in 1 .. n : Amends(t, i, j) => i \in 1 .. n
    BY <1>1 DEF Amends
  <2> QED BY <1>1, <1>2, <2>1 DEF InEffect
<1>4. InEffect(s) \subseteq 1 .. n /\ InEffect(t) \subseteq 1 .. n + 1
  BY <1>1 DEF InEffect
<1>5. n + 1 \in InEffect(t) => e # Garbage
  BY <1>1 DEF InEffect
<1>6. e # Garbage /\ e.type = "record" => n + 1 \in InEffect(t)
  BY <1>1 DEF InEffect
<1>7. ASSUME e # Garbage, NEW i \in InEffect(s), Opens(s[i], e)
      PROVE  n + 1 \in InEffect(t)
  <2>1. i \in 1 .. n /\ s[i] # Garbage BY <1>4 DEF InEffect
  <2>2. Amends(t, i, n + 1) BY <1>1, <1>7, <2>1 DEF Amends
  <2> QED BY <1>1, <1>7, <2>1, <2>2 DEF InEffect
<1>8. EnteredIn(s) \subseteq EnteredIn(t)
  BY <1>1, <1>3, <1>4 DEF EnteredIn
<1>9. EnteredIn(t) \subseteq EnteredIn(s) \cup ({e} \ {Garbage})
  <2> SUFFICES ASSUME NEW j \in InEffect(t), t[j] \notin EnteredIn(s)
               PROVE  t[j] = e /\ e # Garbage
    BY DEF EnteredIn
  <2>1. j \notin 1 .. n BY <1>1, <1>3 DEF EnteredIn
  <2> QED BY <1>1, <1>4, <1>5, <2>1
<1>10. e # Garbage /\ e.type = "record" => e \in EnteredIn(t)
  BY <1>1, <1>6 DEF EnteredIn
<1>11. e # Garbage /\ (\E r \in EnteredIn(s) : Opens(r, e)) => e \in EnteredIn(t)
  BY <1>1, <1>7 DEF EnteredIn
<1> QED BY <1>8, <1>9, <1>10, <1>11 DEF t

(* The last line no longer parses.                                          *)
LEMMA EnteredByGluing ==
    ASSUME NEW s \in Seq(Entries \cup {Garbage}), NEW e \in Entries \cup {Garbage}
    PROVE  /\ EnteredIn(Append(s, Garbage)) \subseteq EnteredIn(Append(s, e))
           /\ EnteredIn(Append(s, e)) \subseteq EnteredIn(Append(s, Garbage)) \cup {e}
<1>1. EnteredIn(s) \subseteq EnteredIn(Append(s, Garbage))
  BY EnteredByAppend, Garbage \in Entries \cup {Garbage}
<1>2. EnteredIn(Append(s, Garbage)) \subseteq EnteredIn(s) \cup ({Garbage} \ {Garbage})
  BY EnteredByAppend, Garbage \in Entries \cup {Garbage}
<1>3. EnteredIn(s) \subseteq EnteredIn(Append(s, e)) /\ EnteredIn(Append(s, e)) \subseteq EnteredIn(s) \cup {e}
  BY EnteredByAppend
<1> QED BY <1>1, <1>2, <1>3

-----------------------------------------------------------------------------
LEMMA Names ==
    /\ None \notin Entries /\ Garbage \notin Entries /\ None # Garbage /\ None \notin Nat
    /\ \A r \in Entries : r.type = "record" => r \in Records
    /\ \A a \in Entries : a.type = "amendment" => a \in Amendments
    /\ \A r \in Records : r.type = "record" /\ r.no \in Nat
    /\ \A a \in Amendments : a.type = "amendment" /\ a.no \in Nat /\ a.record \in Nat
    /\ MaxRequests \in Nat
BY ConstantsAssumption DEF Entries, Records, Amendments, Numbers

LEMMA LinesType ==
    ASSUME TypeOK
    PROVE  Lines \in Seq(Entries \cup {Garbage}) /\ Present \subseteq Entries
<1>1. Lines \in Seq(Entries \cup {Garbage})
  BY DEF TypeOK, Lines
<1> QED BY <1>1 DEF Present

LEMMA EnteredIsPresent ==
    ASSUME TypeOK
    PROVE  Entered \subseteq Present
BY LinesType DEF Entered, EnteredIn, InEffect, Present

LEMMA WriteTypes ==
    ASSUME TypeOK, NEW e \in Entries,
           (Stored(e) /\ UNCHANGED <<garbled, torn>>) \/ NotStored(e)
    PROVE  garbled' \in BOOLEAN /\ torn' \in Nat
<1>1. CASE UNCHANGED <<garbled, torn>>
  BY <1>1 DEF TypeOK
<1>2. CASE garbled' \in {garbled, TRUE} /\ torn' = torn + 1
  <2>1. torn' \in Nat BY <1>2 DEF TypeOK
  <2>2. garbled \in BOOLEAN BY DEF TypeOK
  <2>3. garbled' \in BOOLEAN BY <1>2, <2>2, Zenon
  <2> QED BY <2>1, <2>3
<1>3. CASE NotStored(e)
  <2>1. (UNCHANGED <<garbled, torn>>) \/ (garbled' \in {garbled, TRUE} /\ torn' = torn + 1)
    BY <1>3, Zenon DEF NotStored
  <2> QED BY <1>1, <1>2, <2>1
<1> QED BY <1>1, <1>3

(* What a write does to the entries, whether it succeeds or not.            *)
LEMMA WriteChanges ==
    ASSUME TypeOK, NEW e \in Entries, Stored(e) \/ NotStored(e)
    PROVE  /\ file' \in Seq(Entries \cup {Garbage}) /\ tail' \in {None, Garbage, tail, e}
           /\ Present' \subseteq Present \cup {e}
           /\ Entered' \subseteq Entered \cup {e}
           /\ Entered \subseteq Entered' \cup {tail}
           /\ tail = None => Entered \subseteq Entered'
           /\ tail = None /\ Stored(e) =>
                /\ e.type = "record" => e \in Entered'
                /\ (\E r \in Entered : Opens(r, e)) => e \in Entered'
<1> USE Names
<1>0. Lines \in Seq(Entries \cup {Garbage}) /\ file \in Seq(Entries \cup {Garbage})
      /\ tail \in Entries \cup {None, Garbage}
  BY LinesType DEF TypeOK
<1>1. CASE UNCHANGED <<file, tail>> /\ ~Stored(e)
  BY <1>1, <1>0 DEF Present, Entered, Lines
<1>2. CASE tail = None /\ \E x \in {e, Garbage} :
             /\ Lines' = Append(Lines, x)
             /\ file' \in {file, Append(file, x)} /\ tail' \in {None, x}
             /\ Stored(e) => x = e
  <2>1. PICK x \in {e, Garbage} :
             /\ Lines' = Append(Lines, x)
             /\ file' \in {file, Append(file, x)} /\ tail' \in {None, x}
             /\ Stored(e) => x = e
    BY <1>2
  <2>2. file' \in Seq(Entries \cup {Garbage}) /\ tail' \in {None, Garbage, e}
    <3>1. x \in Entries \cup {Garbage} BY <2>1
    <3>2. Append(file, x) \in Seq(Entries \cup {Garbage}) BY <1>0, <3>1
    <3> QED BY <1>0, <2>1, <3>2
  <2>3. /\ DOMAIN Lines' = 1 .. Len(Lines) + 1 /\ DOMAIN Lines = 1 .. Len(Lines)
        /\ Len(Lines) \in Nat
        /\ \A i \in 1 .. Len(Lines) : Lines'[i] = Lines[i]
        /\ Lines'[Len(Lines) + 1] = x
    BY <1>0, <2>1
  <2>4. Present' \subseteq Present \cup {e}
    BY <2>1, <2>3 DEF Present
  <2>5. /\ EnteredIn(Lines) \subseteq EnteredIn(Lines')
        /\ EnteredIn(Lines') \subseteq EnteredIn(Lines) \cup ({x} \ {Garbage})
        /\ x # Garbage /\ x.type = "record" => x \in EnteredIn(Lines')
        /\ x # Garbage /\ (\E r \in EnteredIn(Lines) : Opens(r, x)) => x \in EnteredIn(Lines')
    <3>1. x \in Entries \cup {Garbage} BY <2>1
    <3> QED BY <1>0, <2>1, <3>1, EnteredByAppend
  <2> QED BY <1>2, <2>1, <2>2, <2>4, <2>5 DEF Entered
<1>3. CASE tail # None /\ Lines' = Append(file, Garbage)
             /\ file' \in {file, Append(file, Garbage)} /\ tail' \in {None, Garbage}
  <2>1. Lines = Append(file, tail) BY <1>3 DEF Lines
  <2>2. file' \in Seq(Entries \cup {Garbage})
    BY <1>0, <1>3
  <2>3. /\ DOMAIN Lines' = 1 .. Len(file) + 1 /\ DOMAIN Lines = 1 .. Len(file) + 1
        /\ \A i \in 1 .. Len(file) : Lines'[i] = Lines[i]
        /\ Lines'[Len(file) + 1] = Garbage /\ Len(file) \in Nat
    BY <1>0, <1>3, <2>1
  <2>4. Present' \subseteq Present \cup {e}
    BY <2>3 DEF Present
  <2>5. /\ EnteredIn(Lines') \subseteq EnteredIn(Lines)
        /\ EnteredIn(Lines) \subseteq EnteredIn(Lines') \cup {tail}
    <3>1. tail \in Entries \cup {Garbage} BY <1>0, <1>3
    <3> QED BY <1>0, <1>3, <2>1, <3>1, EnteredByGluing
  <2> QED BY <1>3, <2>2, <2>4, <2>5 DEF Entered
<1>4. CASE Stored(e)
  <2>1. CASE tail = None
    <3>1. Lines' = Append(Lines, e) /\ file' = Append(file, e) /\ tail' = None
      BY <1>4, <2>1 DEF Stored, Lines
    <3> QED BY <1>2, <2>1, <3>1
  <2>2. CASE tail # None
    <3>1. Lines' = Append(file, Garbage) /\ file' = Append(file, Garbage) /\ tail' = None
      BY <1>4, <2>2 DEF Stored, Lines
    <3> QED BY <1>3, <2>2, <3>1
  <2> QED BY <2>1, <2>2
<1>5. CASE ~Stored(e) /\ file' = file /\ tail' \in IF tail = None THEN {Garbage, e} ELSE {Garbage}
  <2>1. Lines' = Append(file, tail') BY <1>5 DEF Lines
  <2>2. CASE tail = None
    <3>1. Lines = file BY <2>2 DEF Lines
    <3> QED BY <1>2, <1>5, <2>1, <2>2, <3>1
  <2>3. CASE tail # None
    BY <1>3, <1>5, <2>1, <2>3
  <2> QED BY <2>2, <2>3
<1> QED BY <1>1, <1>4, <1>5 DEF NotStored

-----------------------------------------------------------------------------
(* The bill: a write costs at most the entry it was to store, and only if   *)
(* it was glued to what a torn write had left.                              *)
Bill == IsFiniteSet(Lost) /\ Cardinality(Lost) + Spent <= torn

LEMMA LostByWrite ==
    ASSUME TypeOK, Accounted, NEW e \in Entries,
           \/ Stored(e) /\ torn' = torn
           \/ NotStored(e) /\ acked' \cup Returning' \subseteq acked \cup Returning,
           acked' \cup Returning' \subseteq acked \cup Returning \cup {e},
           tail = None /\ Stored(e) /\ e \in acked' \cup Returning' => e \in Entered'
    PROVE  Bill'
<1>1. tail \notin acked \cup Returning
  BY DEF Accounted, Returning
<1>2. /\ Entered \subseteq Entered' \cup {tail}
      /\ tail = None => Entered \subseteq Entered'
  BY WriteChanges
<1>3. IsFiniteSet(Lost) /\ Cardinality(Lost) \in Nat /\ Cardinality(Lost) + Spent <= torn /\ torn \in Nat
  BY FS_CardinalityType DEF Accounted, TypeOK
<1>4. CASE Lost' \subseteq Lost /\ ((Spent' <= Spent /\ torn' = torn) \/ torn' = torn + 1)
  <2>1. IsFiniteSet(Lost') /\ Cardinality(Lost') <= Cardinality(Lost)
    BY <1>3, <1>4, FS_Subset
  <2>2. Cardinality(Lost') \in Nat BY <2>1, FS_CardinalityType
  <2>3. Spent \in {0, 1} /\ Spent' \in {0, 1} BY DEF Spent
  <2>4. Cardinality(Lost') + Spent' <= torn'
    BY <1>3, <1>4, <2>1, <2>2, <2>3
  <2> QED BY <2>1, <2>4 DEF Bill
<1>5. CASE tail # None /\ tail' = None /\ torn' = torn
  <2>1. Lost' \subseteq Lost \cup {e}
    BY <1>1, <1>2 DEF Lost
  <2>2. /\ IsFiniteSet(Lost \cup {e})
        /\ Cardinality(Lost \cup {e}) <= Cardinality(Lost) + 1
    BY <1>3, FS_AddElement
  <2>3. IsFiniteSet(Lost') /\ Cardinality(Lost') <= Cardinality(Lost \cup {e})
    BY <2>1, <2>2, FS_Subset
  <2>4. Cardinality(Lost') \in Nat /\ Cardinality(Lost \cup {e}) \in Nat
    BY <2>2, <2>3, FS_CardinalityType
  <2>5. Spent = 1 /\ Spent' = 0 BY <1>5 DEF Spent
  <2> QED BY <1>3, <1>5, <2>2, <2>3, <2>4, <2>5 DEF Bill
<1>6. CASE tail = None /\ Stored(e) /\ torn' = torn
  <2>1. Lost' \subseteq Lost
    BY <1>2, <1>6 DEF Lost
  <2>2. Spent = 0 /\ Spent' = 0 BY <1>6 DEF Spent, Stored
  <2> QED BY <1>4, <1>6, <2>1, <2>2
<1>7. CASE NotStored(e) /\ acked' \cup Returning' \subseteq acked \cup Returning
  <2>1. CASE UNCHANGED <<file, tail, torn>>
    <3>1. Entered' = Entered BY <2>1 DEF Entered, Lines
    <3>2. Lost' \subseteq Lost BY <1>7, <3>1 DEF Lost
    <3>3. Spent' = Spent BY <2>1 DEF Spent
    <3> QED BY <1>4, <2>1, <3>2, <3>3 DEF Spent
  <2>2. CASE Stored(e) /\ torn' = torn
    BY <1>5, <1>6, <2>2 DEF Stored
  <2>3. CASE torn' = torn + 1
    <3>1. Lost' \subseteq Lost BY <1>1, <1>2, <1>7 DEF Lost
    <3> QED BY <1>4, <2>3, <3>1
  <2> QED BY <1>7, <2>1, <2>2, <2>3 DEF NotStored
<1>8. CASE Stored(e) /\ torn' = torn
  BY <1>5, <1>6, <1>8 DEF Stored
<1> QED BY <1>7, <1>8

-----------------------------------------------------------------------------
LEMMA LogInit == Init => LogInv
<1> SUFFICES ASSUME Init PROVE LogInv
  OBVIOUS
<1> USE Names DEF Init
<1>1. TypeOK
  <2>1. file \in Seq(Entries \cup {Garbage}) /\ requests \in 0 .. MaxRequests
    OBVIOUS
  <2>2. pending \in [Threads -> [at : {"checked", "stored"}, entry : Amendments] \cup {None}]
        /\ \A t \in Threads : pending[t] = None
    OBVIOUS
  <2> QED BY <2>1, <2>2 DEF TypeOK
<1>2. Lines = <<>> /\ Present = {} /\ Entered = {}
  BY DEF Lines, Present, Entered, EnteredIn, InEffect
<1>3. Numbered /\ Checked
  BY <1>2 DEF Numbered, Checked, Working
<1>4. Returning = {} /\ Lost = {}
  BY DEF Returning, Working, Lost
<1>5. Accounted
  BY <1>4, FS_EmptySet DEF Accounted, Working, Spent
<1> QED BY <1>1, <1>3, <1>5 DEF LogInv

(* A new record has a number that nobody has used or refers to.             *)
LEMMA RecordStep ==
    ASSUME LogInv, NEW r \in Records, AppendRecord(r)
    PROVE  LogInv'
<1> USE Names DEF LogInv
<1>1. /\ r \in Entries /\ (Stored(r) \/ NotStored(r)) /\ Consistent(r)
      /\ requests' = requests + 1 /\ requests + 1 <= MaxRequests /\ r.no = requests + 1
      /\ requests \in Nat /\ pending' = pending
      /\ acked' \in {acked, acked \cup {r}} /\ (~Stored(r) => acked' = acked)
      /\ r.type = "record"
  BY DEF AppendRecord, TypeOK, Entries
<1>2. /\ Present' \subseteq Present \cup {r} /\ Present \subseteq Entries
      /\ tail' \in {None, Garbage, tail, r}
      /\ Entered' \subseteq Entered \cup {r}
      /\ tail = None /\ Stored(r) => r \in Entered'
  BY <1>1, WriteChanges, LinesType
<1>3. TypeOK'
  <2>1. file' \in Seq(Entries \cup {Garbage}) BY <1>1, WriteChanges
  <2>2. tail' \in Entries \cup {None, Garbage} BY <1>1, <1>2 DEF TypeOK
  <2>3. requests' \in 0 .. MaxRequests /\ acked' \subseteq Entries BY <1>1 DEF TypeOK
  <2>4. garbled' \in BOOLEAN /\ torn' \in Nat
    <3>1. (Stored(r) /\ UNCHANGED <<garbled, torn>>) \/ NotStored(r) BY DEF AppendRecord
    <3> QED BY <1>1, <3>1, WriteTypes
  <2> QED BY <1>1, <2>1, <2>2, <2>3, <2>4 DEF TypeOK
<1>4. \A e \in Present \cup acked : e.no \in Nat /\ e.no <= requests
  BY <1>2 DEF Numbered, TypeOK, Entries
<1>5. \A t \in Threads : Working(t) =>
          /\ pending[t].entry \in Amendments /\ pending[t].entry.no <= requests
          /\ pending[t].entry.record < pending[t].entry.no
  BY DEF Numbered, TypeOK, Working
<1>6. \A t \in Threads : Working(t) => ~Opens(r, pending[t].entry) /\ r # pending[t].entry
  BY <1>1, <1>5 DEF Opens
<1>7. \A a \in Present : a.type = "amendment" => a.record < a.no /\ ~Opens(r, a)
  BY <1>1, <1>2, <1>4 DEF Numbered, Opens
<1>8. Numbered'
  BY <1>1, <1>2, <1>4, <1>5, <1>6 DEF Numbered, Working, TypeOK
<1>9. Checked'
  BY <1>1, <1>2, <1>6, <1>7 DEF Checked, Suits, Opens, Working
<1>10. Returning' \subseteq Returning
  BY <1>1, <1>2, <1>6 DEF Returning, Working
<1>11. Bill'
  <2>1. (Stored(r) /\ torn' = torn) \/ (NotStored(r) /\ acked' = acked)
    BY DEF AppendRecord
  <2> QED BY <1>1, <1>2, <1>10, <2>1, LostByWrite
<1>12. (tail \notin acked)'
  <2>1. tail' = r => acked' = acked BY <1>1 DEF AppendRecord, Stored
  <2>2. tail' = tail \/ tail' \in {None, Garbage, r} BY <1>2
  <2>3. r \notin acked BY <1>1, <1>4
  <2>4. tail' = tail /\ tail # None => acked' = acked BY <1>1 DEF Stored
  <2> QED BY <1>1, <2>1, <2>2, <2>3, <2>4 DEF Accounted, TypeOK
<1>13. \A t \in Threads : Working(t)' /\ pending'[t].at = "stored" => pending'[t].entry # tail'
  BY <1>1, <1>2, <1>5, <1>6 DEF Accounted, Working, Entries
<1> QED BY <1>3, <1>8, <1>9, <1>11, <1>12, <1>13 DEF Accounted, Bill

(* end_record finds the record as it is listed; there is no other with its  *)
(* number, so whatever the amendment is later merged into, it fits.         *)
LEMMA EndStep ==
    ASSUME LogInv, NEW t \in Threads, NEW a \in Amendments, EndRecord(t, a)
    PROVE  LogInv'
<1> USE Names DEF LogInv
<1>1. /\ UNCHANGED <<file, tail, garbled, acked, torn>>
      /\ requests' = requests + 1 /\ requests + 1 <= MaxRequests /\ requests \in Nat
      /\ a.no = requests + 1 /\ a \in Entries /\ a.type = "amendment"
      /\ pending' = [pending EXCEPT ![t] = [at |-> "checked", entry |-> a]]
      /\ pending[t] = None
  BY DEF EndRecord, TypeOK, Entries
<1>2. PICK i \in InEffect(Lines) :
          /\ Lines[i].type = "record" /\ Lines[i].no = a.record
          /\ Lines[i].kind = "CLOSED" /\ a.end > Lines[i].start
  BY DEF EndRecord, Listed
<1>3. Lines[i] \in Present /\ Present \subseteq Entries
  BY <1>2, LinesType DEF InEffect, Present
<1>4. \A e \in Present \cup acked : e.no \in Nat /\ e.no <= requests
  BY <1>3 DEF Numbered, TypeOK, Entries
<1>5. a.record < a.no
  BY <1>1, <1>2, <1>3, <1>4
<1>6. \A r \in Present : Suits(r, a)
  BY <1>2, <1>3 DEF Numbered, Suits, Opens
<1>7. Present' = Present /\ Entered' = Entered
  BY <1>1 DEF Present, Entered, Lines
<1>8. \A u \in Threads :
        /\ u # t => pending'[u] = pending[u]
        /\ pending'[t] = [at |-> "checked", entry |-> a]
        /\ pending'[t] # None
  BY <1>1, ConstantsAssumption DEF TypeOK
<1>9. TypeOK'
  <2>1. pending' \in [Threads -> [at : {"checked", "stored"}, entry : Amendments] \cup {None}]
    BY <1>1 DEF TypeOK
  <2>2. requests' \in 0 .. MaxRequests
    BY <1>1
  <2> QED BY <1>1, <1>5, <1>8, <2>1, <2>2 DEF TypeOK
<1>10. \A u \in Threads : Working(u) /\ u # t =>
          pending[u].entry.no \in Nat /\ pending[u].entry.no <= requests
  BY DEF Numbered, TypeOK, Working
<1>11. Numbered'
  <2>1. a \notin acked BY <1>1, <1>4
  <2>2. \A u \in Threads : Working(u) /\ u # t => pending[u].entry # a
    BY <1>1, <1>10
  <2>3. \A e \in Present' \cup acked' : e.no <= requests' BY <1>1, <1>4, <1>7
  <2>4. \A u \in Threads : Working(u)' => pending'[u].entry.no <= requests'
    BY <1>1, <1>8, <1>10 DEF Working
  <2> QED BY <1>1, <1>7, <1>8, <2>1, <2>2, <2>3, <2>4 DEF Numbered, Working
<1>12. Checked'
  BY <1>6, <1>7, <1>8 DEF Checked, Working
<1>13. Returning' = Returning
  BY <1>7, <1>8, <1>1 DEF Returning, Working
<1>14. Accounted'
  BY <1>1, <1>7, <1>8, <1>13 DEF Accounted, Lost, Spent, Working
<1> QED BY <1>9, <1>11, <1>12, <1>14

LEMMA AmendStep ==
    ASSUME LogInv, NEW t \in Threads, AppendAmendment(t)
    PROVE  LogInv'
<1> USE Names DEF LogInv
<1> DEFINE a == pending[t].entry
<1>1. /\ pending[t] # None /\ pending[t].at = "checked" /\ a \in Amendments /\ a \in Entries
      /\ a.type = "amendment" /\ UNCHANGED <<requests, acked>>
      /\ Stored(a) \/ NotStored(a)
  BY DEF AppendAmendment, TypeOK, Entries
<1>2. \/ /\ Stored(a) /\ UNCHANGED <<garbled, torn>>
         /\ pending' = [pending EXCEPT ![t].at = "stored"]
      \/ /\ NotStored(a)
         /\ pending' = [pending EXCEPT ![t] = None]
  BY DEF AppendAmendment
<1>3. /\ \A u \in Threads : u # t => pending'[u] = pending[u]
      /\ \/ Stored(a) /\ torn' = torn /\ pending'[t] = [at |-> "stored", entry |-> a]
         \/ NotStored(a) /\ pending'[t] = None
      /\ pending' \in [Threads -> [at : {"checked", "stored"}, entry : Amendments] \cup {None}]
  <2>1. pending[t] \in [at : {"checked", "stored"}, entry : Amendments]
    BY <1>1 DEF TypeOK
  <2>2. CASE /\ Stored(a) /\ UNCHANGED <<garbled, torn>>
             /\ pending' = [pending EXCEPT ![t].at = "stored"]
    BY <2>1, <2>2 DEF TypeOK
  <2>3. CASE NotStored(a) /\ pending' = [pending EXCEPT ![t] = None]
    BY <2>3 DEF TypeOK
  <2> QED BY <1>2, <2>2, <2>3
<1> HIDE DEF a
<1>4. /\ Present' \subseteq Present \cup {a} /\ Present \subseteq Entries
      /\ file' \in Seq(Entries \cup {Garbage}) /\ tail' \in {None, Garbage, tail, a}
      /\ Entered' \subseteq Entered \cup {a}
      /\ Entered \subseteq Entered' \cup {tail}
      /\ tail = None /\ Stored(a) /\ (\E r \in Entered : Opens(r, a)) => a \in Entered'
  BY <1>1, WriteChanges, LinesType
<1>5. /\ a.no <= requests /\ a.record < a.no /\ a \notin acked
      /\ \A u \in Threads : Working(u) /\ u # t => pending[u].entry # a
      /\ \A r \in Present : Suits(r, a)
  BY <1>1 DEF Numbered, Checked, TypeOK, Working, a
<1>6. \A e : ~Opens(a, e)
  BY <1>1 DEF Opens
<1>7. \A u \in Threads : Working(u)' => Working(u) /\ pending'[u].entry = pending[u].entry
  BY <1>1, <1>3 DEF Working, a
<1>8. TypeOK'
  <2>1. garbled' \in BOOLEAN /\ torn' \in Nat
    <3>1. (Stored(a) /\ UNCHANGED <<garbled, torn>>) \/ NotStored(a) BY <1>2 DEF a
    <3> QED BY <1>1, <3>1, WriteTypes
  <2>2. tail' \in Entries \cup {None, Garbage} BY <1>1, <1>4 DEF TypeOK
  <2>3. \A u \in Threads : pending'[u] # None => pending'[u].entry.record < pending'[u].entry.no
    BY <1>7 DEF Working, TypeOK
  <2> QED BY <1>1, <1>3, <1>4, <2>1, <2>2, <2>3 DEF TypeOK
<1>9. Numbered'
  <2>1. \A e \in Present' \cup acked' : e.no <= requests' BY <1>1, <1>4, <1>5 DEF Numbered
  <2>2. \A r \in Present' : r.type = "record" => r \in Present BY <1>1, <1>4
  <2>3. \A b \in Present' : b.type = "amendment" => b.record < b.no BY <1>4, <1>5 DEF Numbered
  <2>4. \A u \in Threads : Working(u)' =>
          /\ pending'[u].entry.no <= requests' /\ pending'[u].entry \notin acked'
          /\ \A v \in Threads : Working(v)' /\ v # u => pending'[v].entry # pending'[u].entry
    BY <1>1, <1>7 DEF Numbered
  <2> QED BY <2>1, <2>2, <2>3, <2>4 DEF Numbered
<1>10. Checked'
  <2>1. \A r \in Present' : r.type = "record" => r \in Present BY <1>1, <1>4
  <2>2. \A r, b \in Present' : Suits(r, b)
    BY <1>4, <1>5, <1>6 DEF Checked, Suits
  <2>3. \A u \in Threads : Working(u)' => \A r \in Present' : Suits(r, pending'[u].entry)
    BY <1>4, <1>6, <1>7 DEF Checked, Suits
  <2> QED BY <2>1, <2>2, <2>3 DEF Checked
<1>11. \A u \in Threads : u # t /\ Working(u)' /\ pending'[u].at = "stored"
          /\ (\E r \in Entered' : Opens(r, pending'[u].entry)) => pending'[u].entry \in Returning
  BY <1>3, <1>4, <1>6 DEF Returning, Working
<1>12. Returning' \subseteq Returning \cup {a}
  BY <1>1, <1>7, <1>11 DEF Returning, a
<1>13. pending'[t] = None => Returning' \subseteq Returning
  BY <1>11 DEF Returning, Working
<1>14. tail = None /\ Stored(a) /\ a \in Returning' => a \in Entered'
  <2>1. a \in Returning' => \E r \in Entered' : Opens(r, a) BY DEF Returning
  <2> QED BY <1>4, <1>6, <2>1
<1>15. Bill'
  <2>1. acked' \cup Returning' \subseteq acked \cup Returning \cup {a} BY <1>1, <1>12
  <2>2. \/ Stored(a) /\ torn' = torn
        \/ NotStored(a) /\ acked' \cup Returning' \subseteq acked \cup Returning
    BY <1>1, <1>3, <1>13
  <2>3. tail = None /\ Stored(a) /\ a \in acked' \cup Returning' => a \in Entered'
    BY <1>1, <1>5, <1>14
  <2> QED BY <1>1, <2>1, <2>2, <2>3, LostByWrite
<1>16. (tail \notin acked)'
  BY <1>1, <1>4, <1>5 DEF Accounted, TypeOK
<1>17. \A u \in Threads : Working(u)' /\ pending'[u].at = "stored" => pending'[u].entry # tail'
  <2> SUFFICES ASSUME NEW u \in Threads, Working(u)', pending'[u].at = "stored"
               PROVE  pending'[u].entry # tail'
    OBVIOUS
  <2>1. pending'[u].entry \in Entries BY <1>3 DEF Working, Entries
  <2>2. CASE u = t
    <3>1. tail' = None BY <1>3, <2>2 DEF Stored, Working
    <3> QED BY <2>1, <3>1
  <2>3. CASE u # t
    <3>1. pending'[u].entry = pending[u].entry /\ Working(u) /\ pending[u].at = "stored"
      BY <1>3, <2>3 DEF Working
    <3> QED BY <1>4, <1>5, <2>1, <2>3, <3>1 DEF Accounted
  <2> QED BY <2>2, <2>3
<1> QED BY <1>8, <1>9, <1>10, <1>15, <1>16, <1>17 DEF Accounted, Bill

LEMMA ReturnStep ==
    ASSUME LogInv, NEW t \in Threads, ReturnRecord(t)
    PROVE  LogInv'
<1> USE Names DEF LogInv
<1> DEFINE a == pending[t].entry
<1>1. /\ UNCHANGED <<file, tail, garbled, requests, torn>>
      /\ pending[t] # None /\ pending[t].at = "stored" /\ a \in Amendments /\ a \in Entries
      /\ pending' = [pending EXCEPT ![t] = None]
  BY DEF ReturnRecord, TypeOK, Entries
<1>2. acked' = acked \/ (acked' = acked \cup {a} /\ \E r \in Listed(a.facility) : r.no = a.record)
  BY DEF ReturnRecord
<1>3. Present' = Present /\ Entered' = Entered /\ Lines' = Lines
  BY <1>1 DEF Present, Entered, Lines
<1>4. \A u \in Threads : (u # t => pending'[u] = pending[u]) /\ pending'[t] = None
  BY <1>1 DEF TypeOK
<1>5. acked' = acked \cup {a} /\ acked' # acked => a \in Returning
  <2> SUFFICES ASSUME \E r \in Listed(a.facility) : r.no = a.record PROVE a \in Returning
    BY <1>2
  <2>1. PICK i \in InEffect(Lines) :
          Lines[i].type = "record" /\ Lines[i].facility = a.facility /\ Lines[i].no = a.record
    BY DEF Listed
  <2>2. Lines[i] \in Entered BY <2>1 DEF Entered, EnteredIn
  <2>3. Opens(Lines[i], a) BY <1>1, <2>1 DEF Opens
  <2> QED BY <1>1, <2>2, <2>3 DEF Returning, Working
<1> HIDE DEF a
<1>6. TypeOK'
  BY <1>1, <1>2, <1>4 DEF TypeOK
<1>7. a = pending[t].entry /\ Working(t)
  BY <1>1 DEF a, Working
<1>8. Numbered'
  <2>1. a.no <= requests BY <1>7 DEF Numbered
  <2>2. \A u \in Threads : Working(u)' => u # t /\ Working(u) /\ pending'[u] = pending[u]
    BY <1>4 DEF Working
  <2>3. \A u \in Threads : Working(u)' => pending'[u].entry \notin acked'
    BY <1>2, <1>7, <2>2 DEF Numbered
  <2> QED BY <1>1, <1>2, <1>3, <2>1, <2>2, <2>3 DEF Numbered
<1>9. Checked'
  BY <1>3, <1>4 DEF Checked, Working
<1>10. Lost' \subseteq Lost
  <2>1. Returning' \subseteq Returning BY <1>3, <1>4 DEF Returning, Working
  <2> QED BY <1>2, <1>3, <1>5, <2>1 DEF Lost
<1>11. Bill'
  <2>1. IsFiniteSet(Lost') /\ Cardinality(Lost') <= Cardinality(Lost)
    BY <1>10, FS_Subset DEF Accounted
  <2>2. Cardinality(Lost') \in Nat /\ Cardinality(Lost) \in Nat
    BY <2>1, FS_CardinalityType DEF Accounted
  <2>3. Spent' = Spent /\ Spent \in {0, 1} BY <1>1 DEF Spent
  <2> QED BY <1>1, <2>1, <2>2, <2>3 DEF Accounted, Bill, TypeOK
<1>12. (tail \notin acked)'
  BY <1>1, <1>2, <1>7 DEF Accounted
<1>13. \A u \in Threads : Working(u)' /\ pending'[u].at = "stored" => pending'[u].entry # tail'
  BY <1>1, <1>4 DEF Accounted, Working
<1> QED BY <1>6, <1>8, <1>9, <1>11, <1>12, <1>13 DEF Accounted, Bill

LEMMA LogStep == LogInv /\ [Next]_vars => LogInv'
<1> SUFFICES ASSUME LogInv, [Next]_vars PROVE LogInv'
  OBVIOUS
<1>1. CASE UNCHANGED vars
  <2>1. UNCHANGED <<file, tail, garbled, pending, requests, acked, torn>> BY <1>1 DEF vars
  <2>2. Lines' = Lines BY <2>1 DEF Lines
  <2>3. Present' = Present /\ Entered' = Entered BY <2>2 DEF Present, Entered
  <2>4. Returning' = Returning BY <2>1, <2>3 DEF Returning, Working
  <2> QED BY <2>1, <2>3, <2>4
           DEF LogInv, TypeOK, Numbered, Checked, Accounted, Lost, Spent, Working
<1>2. CASE Next
  BY <1>2, RecordStep, EndStep, AmendStep, ReturnStep DEF Next
<1> QED BY <1>1, <1>2

-----------------------------------------------------------------------------
(* The types hold in every state of the closure log.                        *)
THEOREM TypeCorrect == Spec => []TypeOK
<1>1. LogInv => TypeOK BY DEF LogInv
<1> QED BY LogInit, LogStep, <1>1, PTL DEF Spec

(* However checks, writes and failures interleave, no closure is listed as  *)
(* reopened before it began, and no decision not to close as reopened.      *)
THEOREM EndsAreAfterStarts == Spec => []EndsAfterStart
<1>1. LogInv => EndsAfterStart
  <2> SUFFICES ASSUME LogInv, NEW i \in InEffect(Lines), Lines[i].type = "record",
                      EndOf(Lines, i) # None
               PROVE  Lines[i].kind = "CLOSED" /\ EndOf(Lines, i) > Lines[i].start
    BY DEF EndsAfterStart, Listed
  <2> DEFINE ams == {j \in DOMAIN Lines : Amends(Lines, i, j)}
  <2>1. Lines \in Seq(Entries \cup {Garbage}) /\ Lines[i] \in Present /\ Present \subseteq Entries
    BY LinesType DEF LogInv, InEffect, Present
  <2>2. CASE ams = {}
    <3>1. EndOf(Lines, i) = Lines[i].end BY <2>2 DEF EndOf
    <3>2. Lines[i] \in Records BY <2>1, Names
    <3> QED BY <2>1, <3>1, <3>2 DEF LogInv, Checked, Consistent, Records
  <2>3. CASE ams # {}
    <3>1. EndOf(Lines, i) = Lines[Max(ams)].end BY <2>3 DEF EndOf
    <3>2. Max(ams) \in ams
      <4>1. ams \subseteq 1 .. Len(Lines) /\ Len(Lines) \in Nat BY <2>1
      <4>2. IsFiniteSet(1 .. Len(Lines)) BY <4>1, FS_Interval
      <4>3. IsFiniteSet(ams) /\ ams \subseteq Int BY <4>1, <4>2, FS_Subset
      <4> QED BY <2>3, <4>3, MaxIsElement
    <3>3. Lines[Max(ams)] \in Present /\ Opens(Lines[i], Lines[Max(ams)])
      BY <3>2 DEF Amends, Present
    <3> QED BY <2>1, <3>1, <3>3 DEF LogInv, Checked, Suits
  <2> QED BY <2>2, <2>3
<1> QED BY LogInit, LogStep, <1>1, PTL DEF Spec

(* No more confirmed entries are lost than writes were torn.                *)
THEOREM LossIsBounded == Spec => []LostAtMostTorn
<1>1. LogInv => LostAtMostTorn
  <2> SUFFICES ASSUME LogInv PROVE LostAtMostTorn
    OBVIOUS
  <2>1. acked \ Entered \subseteq Lost BY DEF Lost
  <2>2. /\ Cardinality(acked \ Entered) <= Cardinality(Lost)
        /\ IsFiniteSet(acked \ Entered) /\ IsFiniteSet(Lost)
    BY <2>1, FS_Subset DEF LogInv, Accounted
  <2>3. Cardinality(acked \ Entered) \in Nat /\ Cardinality(Lost) \in Nat
    BY <2>2, FS_CardinalityType
  <2>4. Spent \in {0, 1} /\ torn \in Nat BY DEF Spent, LogInv, TypeOK
  <2>5. Cardinality(Lost) + Spent <= torn BY DEF LogInv, Accounted
  <2> QED BY <2>2, <2>3, <2>4, <2>5 DEF LostAtMostTorn
<1> QED BY LogInit, LogStep, <1>1, PTL DEF Spec

-----------------------------------------------------------------------------
(***************************************************************************)
(* The file is a ledger.  A write adds a line, and perhaps spoils what a   *)
(* torn write left behind the last one; the entries in effect are then     *)
(* those of before, with one more at their end or without their last one,  *)
(* because every line has a number of its own.                             *)
(***************************************************************************)
Apart ==
    /\ \A i, j \in DOMAIN Lines :
          Lines[i] # Garbage /\ Lines[j] # Garbage /\ Lines[i].no = Lines[j].no => i = j
    /\ \A t \in Threads : Working(t) =>
          /\ \A u \in Threads : Working(u) /\ u # t => pending[u].entry.no # pending[t].entry.no
          /\ pending[t].at = "checked" => \A e \in Present : e.no # pending[t].entry.no

FileInv == LogInv /\ Apart

LEMMA WriteLines ==
    ASSUME TypeOK, NEW e \in Entries, Stored(e) \/ NotStored(e)
    PROVE  \/ Lines' = Lines
           \/ \E x \in {e, Garbage} : Lines' = Append(Lines, x)
           \/ Lines = Append(file, tail) /\ tail # None /\ Lines' = Append(file, Garbage)
<1> USE Names
<1>1. e # None /\ Garbage # None BY DEF Entries
<1>2. CASE UNCHANGED <<file, tail>> BY <1>2 DEF Lines
<1>3. CASE Stored(e) BY <1>3 DEF Stored, Lines
<1>4. CASE file' = file /\ tail' \in IF tail = None THEN {Garbage, e} ELSE {Garbage}
  BY <1>1, <1>4 DEF Lines
<1> QED BY <1>2, <1>3, <1>4 DEF NotStored

(* One more line, with a number of its own.                                 *)
LEMMA OneMoreLine ==
    ASSUME NEW s \in Seq(Entries \cup {Garbage}), NEW x \in Entries \cup {Garbage},
           x # Garbage => \A i \in DOMAIN s : s[i] # x
    PROVE  /\ Sieve(Append(s, x), EnteredIn(Append(s, x))) =
                IF x \in EnteredIn(Append(s, x)) THEN Append(Sieve(s, EnteredIn(s)), x)
                ELSE Sieve(s, EnteredIn(s))
           /\ EnteredIn(Append(s, x)) =
                EnteredIn(s) \cup (IF x \in EnteredIn(Append(s, x)) THEN {x} ELSE {})
           /\ Garbage \notin EnteredIn(Append(s, x))
           /\ x \in EnteredIn(Append(s, x)) /\ x.type = "amendment" => \E r \in EnteredIn(s) : Opens(r, x)
<1> DEFINE n == Len(s)
           t == Append(s, x)
           T == EnteredIn(s)
           U == EnteredIn(t)
<1>1. T \subseteq U /\ U \subseteq T \cup ({x} \ {Garbage}) BY EnteredByAppend
<1>2. \A i \in DOMAIN s : s[i] \in T <=> s[i] \in U
  <2>1. Garbage \notin T BY DEF EnteredIn, InEffect
  <2> HIDE DEF T, U
  <2> QED BY <1>1, <2>1
<1>3. Garbage \notin U BY DEF EnteredIn, InEffect
<1>4. /\ n \in Nat /\ DOMAIN s = 1 .. n /\ DOMAIN t = 1 .. n + 1
      /\ \A i \in 1 .. n : t[i] = s[i]
      /\ t[n + 1] = x
  OBVIOUS
<1>5. ASSUME x \in U, x.type = "amendment" PROVE \E r \in T : Opens(r, x)
  <2>1. PICK j \in InEffect(t) : t[j] = x BY <1>5 DEF EnteredIn
  <2>2. j \in DOMAIN t /\ x # Garbage BY <1>3, <1>5, <2>1 DEF InEffect
  <2> HIDE DEF n, t
  <2>3. j = n + 1 BY <1>4, <2>1, <2>2
  <2>4. PICK i \in DOMAIN t : Amends(t, i, j) BY <1>5, <2>1 DEF InEffect
  <2>5. i \in 1 .. n /\ t[i] # Garbage /\ Opens(t[i], x) BY <1>4, <2>1, <2>3, <2>4 DEF Amends
  <2>6. s[i] = t[i] /\ s[i] # Garbage /\ s[i].type = "record" BY <1>4, <2>5 DEF Opens
  <2>7. i \in InEffect(s) BY <1>4, <2>5, <2>6 DEF InEffect
  <2> QED BY <2>5, <2>6, <2>7 DEF EnteredIn
<1> HIDE DEF T, U
<1>6. Sieve(t, U) = IF x \in U THEN Append(Sieve(s, T), x) ELSE Sieve(s, T)
  BY <1>2, SieveGrows, SMTT(30)
<1>7. U = T \cup (IF x \in U THEN {x} ELSE {}) BY <1>1, <1>3
<1> QED BY <1>3, <1>5, <1>6, <1>7 DEF T, U, t

LEMMA EffectiveIsEntered ==
    ASSUME TypeOK
    PROVE  /\ Effective \in Seq(Entries \cup {Garbage}) /\ ToSet(Effective) = Entered
<1>1. Lines \in Seq(Entries \cup {Garbage}) BY LinesType
<1>2. \A e \in Entered : \E i \in DOMAIN Lines : Lines[i] = e BY DEF Entered, EnteredIn, InEffect
<1>3. /\ Effective \in Seq(Entries \cup {Garbage})
      /\ \A e : (\E i \in DOMAIN Effective : Effective[i] = e)
                   <=> (e \in Entered /\ \E i \in DOMAIN Lines : Lines[i] = e)
  <2> DEFINE S == Entries \cup {Garbage}
             l == Lines
             T == Entered
             q == Sieve(l, T)
  <2>1. l \in Seq(S) BY <1>1
  <2>2. q = Effective BY DEF Effective
  <2> HIDE DEF S, l, T
  <2>3. q \in Seq(S) BY <2>1, SieveKeeps
  <2>4. \A e : (\E i \in DOMAIN q : q[i] = e) <=> (e \in T /\ \E i \in DOMAIN l : l[i] = e)
    BY <2>1, SieveKeeps
  <2> HIDE DEF q
  <2> QED BY <2>2, <2>3, <2>4 DEF S, l, T
<1> QED BY <1>2, <1>3 DEF ToSet

(* What the next write spoils is the last entry, or nothing.                *)
LEMMA SpoiltLine ==
    ASSUME NEW s \in Seq(Entries \cup {Garbage}), NEW x \in Entries \cup {Garbage},
           x # Garbage => \A i \in DOMAIN s : s[i] # x
    PROVE  /\ EnteredIn(Append(s, Garbage)) = EnteredIn(Append(s, x)) \ {x}
           /\ x \notin EnteredIn(Append(s, x)) =>
                Sieve(Append(s, Garbage), EnteredIn(Append(s, Garbage)))
                    = Sieve(Append(s, x), EnteredIn(Append(s, x)))
           /\ x \in EnteredIn(Append(s, x)) =>
                Sieve(Append(s, x), EnteredIn(Append(s, x)))
                    = Append(Sieve(Append(s, Garbage), EnteredIn(Append(s, Garbage))), x)
<1> DEFINE T == EnteredIn(s)
           U == EnteredIn(Append(s, x))
           V == EnteredIn(Append(s, Garbage))
           p == Sieve(s, T)
           q == Sieve(Append(s, x), U)
           r == Sieve(Append(s, Garbage), V)
<1>1. q = (IF x \in U THEN Append(p, x) ELSE p) /\ U = T \cup (IF x \in U THEN {x} ELSE {})
  BY OneMoreLine
<1>2. r = p /\ V = T
  <2>1. Garbage \in Entries \cup {Garbage} OBVIOUS
  <2>2. /\ r = IF Garbage \in V THEN Append(p, Garbage) ELSE p
        /\ V = T \cup (IF Garbage \in V THEN {Garbage} ELSE {})
        /\ Garbage \notin V
    BY <2>1, OneMoreLine
  <2> HIDE DEF r, p, V, T
  <2> QED BY <2>2
<1>3. x \notin T
  <2>1. \A e \in T : e # Garbage /\ \E i \in DOMAIN s : s[i] = e BY DEF EnteredIn, InEffect
  <2> HIDE DEF T
  <2> QED BY <2>1
<1> HIDE DEF T, U, V, p, q, r
<1>4. V = U \ {x} /\ (x \notin U => r = q) /\ (x \in U => q = Append(r, x))
  BY <1>1, <1>2, <1>3
<1> QED BY <1>4 DEF T, U, V, q, r

-----------------------------------------------------------------------------
(* The steps of the ledger, for any ledger q and any set c of entries that  *)
(* are confirmed.                                                           *)
NewTo(q, e) ==
    /\ \A i \in DOMAIN q : q[i].no # e.no
    /\ e.type = "amendment" =>
         \E i \in DOMAIN q : Opens(q[i], e) /\ q[i].kind = "CLOSED" /\ e.end > q[i].start

(* A write of e, with or without the answer that it is stored.              *)
LEMMA LedgerWrite ==
    ASSUME FileInv, NEW e \in Entries, Stored(e) \/ NotStored(e),
           e \notin acked, acked' \in {acked, acked \cup {e}},
           acked' = acked \/ Stored(e),
           \A f \in Present : f.no # e.no /\ Suits(f, e)
    PROVE  \/ Effective' = Effective /\ (acked \cap Entered)' = acked \cap Entered
           \/ /\ NewTo(Effective, e) /\ Effective' = Append(Effective, e)
              /\ (acked \cap Entered)' \in {acked \cap Entered, (acked \cap Entered) \cup {e}}
           \/ /\ \E x \in Entries \ acked : Effective = Append(Effective', x)
              /\ (acked \cap Entered)' = acked \cap Entered
<1> USE Names
<1>1. /\ TypeOK /\ Lines \in Seq(Entries \cup {Garbage}) /\ Present \subseteq Entries
      /\ Entered \subseteq Present /\ tail \notin acked
      /\ Effective \in Seq(Entries \cup {Garbage}) /\ ToSet(Effective) = Entered
      /\ file \in Seq(Entries \cup {Garbage}) /\ tail \in Entries \cup {None, Garbage}
  BY LinesType, EnteredIsPresent, EffectiveIsEntered DEF FileInv, LogInv, Accounted, TypeOK
<1>2. e \notin Entered /\ e \notin Present /\ \A i \in DOMAIN Lines : Lines[i] # e
  BY <1>1 DEF Present
<1>3. CASE Lines' = Lines
  <2>1. Entered' = Entered /\ Effective' = Effective BY <1>3 DEF Entered, Effective
  <2>2. (acked \cap Entered)' = acked \cap Entered BY <1>2, <2>1
  <2> QED BY <2>1, <2>2
<1>4. ASSUME NEW x \in {e, Garbage}, Lines' = Append(Lines, x)
      PROVE  \/ Effective' = Effective /\ (acked \cap Entered)' = acked \cap Entered
             \/ /\ NewTo(Effective, e) /\ Effective' = Append(Effective, e)
                /\ (acked \cap Entered)' \in {acked \cap Entered, (acked \cap Entered) \cup {e}}
  <2>1. x \in Entries \cup {Garbage} /\ (x # Garbage => \A i \in DOMAIN Lines : Lines[i] # x)
    BY <1>2, <1>4
  <2>2. /\ Effective' = IF x \in Entered' THEN Append(Effective, x) ELSE Effective
        /\ Entered' = Entered \cup (IF x \in Entered' THEN {x} ELSE {})
        /\ Garbage \notin Entered'
        /\ x \in Entered' /\ x.type = "amendment" => \E r \in Entered : Opens(r, x)
    BY <1>1, <1>4, <2>1, OneMoreLine DEF Effective, Entered
  <2>3. CASE x \notin Entered'
    BY <1>2, <2>2, <2>3
  <2>4. CASE x \in Entered'
    <3>1. x = e BY <1>4, <2>2, <2>4
    <3>2. NewTo(Effective, e)
      <4>1. \A i \in DOMAIN Effective : Effective[i] \in Present BY <1>1 DEF ToSet
      <4>2. \A i \in DOMAIN Effective : Effective[i].no # e.no BY <4>1
      <4>3. ASSUME e.type = "amendment"
            PROVE  \E i \in DOMAIN Effective :
                      Opens(Effective[i], e) /\ Effective[i].kind = "CLOSED" /\ e.end > Effective[i].start
        <5>1. PICK r \in Entered : Opens(r, e) BY <2>2, <2>4, <3>1, <4>3
        <5>2. r.kind = "CLOSED" /\ e.end > r.start BY <1>1, <5>1 DEF Suits
        <5>3. PICK i \in DOMAIN Effective : Effective[i] = r BY <1>1, <5>1 DEF ToSet
        <5> QED BY <5>1, <5>2, <5>3
      <4> QED BY <4>2, <4>3 DEF NewTo
    <3>3. Effective' = Append(Effective, e) /\ Entered' = Entered \cup {e}
      BY <2>2, <2>4, <3>1
    <3>4. (acked \cap Entered)' \in {acked \cap Entered, (acked \cap Entered) \cup {e}}
      BY <1>2, <3>3
    <3> QED BY <3>2, <3>3, <3>4
  <2> QED BY <2>3, <2>4
<1>5. CASE Lines = Append(file, tail) /\ tail # None /\ Lines' = Append(file, Garbage)
  <2>1. tail \in Entries \cup {Garbage} BY <1>1, <1>5
  <2>2. tail # Garbage => \A i \in DOMAIN file : file[i] # tail
    <3> SUFFICES ASSUME tail # Garbage, NEW i \in DOMAIN file, file[i] = tail PROVE FALSE
      OBVIOUS
    <3> DEFINE n == Len(file)
    <3>1. n \in Nat /\ DOMAIN file = 1 .. n /\ DOMAIN Lines = 1 .. n + 1
          /\ Lines[i] = file[i] /\ Lines[n + 1] = tail
      BY <1>1, <1>5, <2>1
    <3> HIDE DEF n
    <3>2. i \in DOMAIN Lines /\ n + 1 \in DOMAIN Lines /\ i # n + 1 BY <3>1
    <3> QED BY <3>1, <3>2 DEF FileInv, Apart
  <2>3. /\ Entered' = Entered \ {tail}
        /\ tail \notin Entered => Effective' = Effective
        /\ tail \in Entered => Effective = Append(Effective', tail)
    BY <1>1, <1>5, <2>1, <2>2, SpoiltLine DEF Effective, Entered
  <2>4. (acked \cap Entered)' = acked \cap Entered BY <1>1, <1>2, <2>3
  <2>5. tail \in Entered => tail \in Entries \ acked BY <1>1
  <2> QED BY <2>3, <2>4, <2>5
<1>6. \/ Lines' = Lines
      \/ \E x \in {e, Garbage} : Lines' = Append(Lines, x)
      \/ Lines = Append(file, tail) /\ tail # None /\ Lines' = Append(file, Garbage)
  BY <1>1, WriteLines
<1> QED BY <1>3, <1>4, <1>5, <1>6

-----------------------------------------------------------------------------
LEMMA ApartByWrite ==
    ASSUME FileInv, NEW e \in Entries, Stored(e) \/ NotStored(e), \A f \in Present : f.no # e.no
    PROVE  \A i, j \in DOMAIN Lines' :
              Lines'[i] # Garbage /\ Lines'[j] # Garbage /\ Lines'[i].no = Lines'[j].no => i = j
<1> USE Names
<1>1. /\ TypeOK /\ Lines \in Seq(Entries \cup {Garbage}) /\ file \in Seq(Entries \cup {Garbage})
      /\ tail \in Entries \cup {None, Garbage}
      /\ \A i, j \in DOMAIN Lines :
            Lines[i] # Garbage /\ Lines[j] # Garbage /\ Lines[i].no = Lines[j].no => i = j
  BY LinesType DEF FileInv, LogInv, TypeOK, Apart
<1>2. ASSUME NEW x \in {e, Garbage}, Lines' = Append(Lines, x),
             NEW i \in DOMAIN Lines', NEW j \in DOMAIN Lines',
             Lines'[i] # Garbage, Lines'[j] # Garbage, Lines'[i].no = Lines'[j].no
      PROVE  i = j
  <2> DEFINE n == Len(Lines)
  <2>1. /\ n \in Nat /\ DOMAIN Lines = 1 .. n /\ DOMAIN Lines' = 1 .. n + 1
        /\ \A h \in 1 .. n : Lines'[h] = Lines[h]
        /\ Lines'[n + 1] = x
    BY <1>1, <1>2
  <2> HIDE DEF n
  <2>2. \A h \in 1 .. n : Lines[h] # Garbage => Lines[h].no # e.no
    BY <2>1 DEF Present
  <2> QED BY <1>1, <1>2, <2>1, <2>2
<1>3. ASSUME Lines = Append(file, tail), tail # None, Lines' = Append(file, Garbage),
             NEW i \in DOMAIN Lines', NEW j \in DOMAIN Lines',
             Lines'[i] # Garbage, Lines'[j] # Garbage, Lines'[i].no = Lines'[j].no
      PROVE  i = j
  <2> DEFINE n == Len(file)
  <2>1. tail \in Entries \cup {Garbage} BY <1>1, <1>3
  <2>2. /\ n \in Nat /\ DOMAIN Lines = 1 .. n + 1 /\ DOMAIN Lines' = 1 .. n + 1
        /\ \A h \in 1 .. n : Lines'[h] = Lines[h]
        /\ Lines'[n + 1] = Garbage
    BY <1>1, <1>3, <2>1
  <2> HIDE DEF n
  <2>3. i \in 1 .. n /\ j \in 1 .. n BY <1>3, <2>2
  <2> QED BY <1>1, <1>3, <2>2, <2>3
<1>4. CASE Lines' = Lines
  BY <1>1, <1>4
<1> QED BY <1>1, <1>2, <1>3, <1>4, WriteLines

(* Numbers are given in turn, so a new one is nobody's.                     *)
LEMMA NewNumber ==
    ASSUME LogInv
    PROVE  /\ requests \in Nat
           /\ \A e \in Present \cup acked : e.no \in Nat /\ e.no <= requests
           /\ \A t \in Threads : Working(t) =>
                 pending[t].entry \in Amendments /\ pending[t].entry.no \in Nat /\ pending[t].entry.no <= requests
<1> USE Names
<1>1. \A e \in Present \cup acked : e \in Entries
  BY LinesType DEF LogInv, TypeOK
<1> QED BY <1>1 DEF LogInv, TypeOK, Numbered, Working, Entries

LEMMA FileInit == Init => FileInv
<1> SUFFICES ASSUME Init PROVE FileInv
  OBVIOUS
<1>1. LogInv BY LogInit
<1>2. Lines = <<>> /\ \A t \in Threads : ~Working(t)
  BY DEF Init, Lines, Working
<1> QED BY <1>1, <1>2 DEF FileInv, Apart

(* A step of the closure log keeps the numbers apart and is a step of the   *)
(* ledger, or none.                                                         *)
Shown == <<Effective, acked \cap Entered>>
StepOfLedger ==
    \/ UNCHANGED Shown
    \/ \E e \in Entries :
          /\ NewTo(Effective, e) /\ Effective' = Append(Effective, e)
          /\ (acked \cap Entered)' \in {acked \cap Entered, (acked \cap Entered) \cup {e}}
    \/ \E e \in Entered : UNCHANGED Effective /\ (acked \cap Entered)' = (acked \cap Entered) \cup {e}
    \/ /\ \E x \in Entries \ acked : Effective = Append(Effective', x)
       /\ (acked \cap Entered)' = acked \cap Entered

LEMMA FileRecordStep ==
    ASSUME FileInv, NEW r \in Records, AppendRecord(r)
    PROVE  Apart' /\ StepOfLedger
<1> USE Names
<1>1. /\ r \in Entries /\ r.type = "record" /\ r.no = requests + 1
      /\ Stored(r) \/ NotStored(r)
      /\ acked' \in {acked, acked \cup {r}} /\ (acked' = acked \/ Stored(r))
      /\ pending' = pending /\ TypeOK
  BY DEF AppendRecord, Entries, FileInv, LogInv
<1>2. /\ requests \in Nat
      /\ \A e \in Present \cup acked : e.no \in Nat /\ e.no <= requests
      /\ \A t \in Threads : Working(t) =>
            pending[t].entry.no \in Nat /\ pending[t].entry.no <= requests
  BY NewNumber DEF FileInv
<1>3. r \notin acked /\ \A f \in Present : f.no # r.no
  BY <1>1, <1>2
<1>4. \A f \in Present : Suits(f, r)
  BY <1>1 DEF Suits, Opens
<1>5. StepOfLedger
  BY <1>1, <1>3, <1>4, LedgerWrite DEF StepOfLedger, Shown
<1>6. Present' \subseteq Present \cup {r}
  BY <1>1, WriteChanges
<1>7. Apart'
  BY <1>1, <1>2, <1>3, <1>6, ApartByWrite DEF FileInv, Apart, Working
<1> QED BY <1>5, <1>7

LEMMA FileEndStep ==
    ASSUME FileInv, NEW t \in Threads, NEW a \in Amendments, EndRecord(t, a)
    PROVE  Apart' /\ StepOfLedger
<1> USE Names
<1>1. /\ UNCHANGED <<file, tail, acked>> /\ a.no = requests + 1
      /\ pending' = [pending EXCEPT ![t] = [at |-> "checked", entry |-> a]]
      /\ TypeOK
  BY DEF EndRecord, FileInv, LogInv
<1>2. Lines' = Lines /\ Present' = Present /\ Entered' = Entered /\ Effective' = Effective
  BY <1>1 DEF Lines, Present, Entered, Effective
<1>3. /\ requests \in Nat
      /\ \A e \in Present \cup acked : e.no \in Nat /\ e.no <= requests
      /\ \A u \in Threads : Working(u) =>
            pending[u].entry.no \in Nat /\ pending[u].entry.no <= requests
  BY NewNumber DEF FileInv
<1>4. pending'[t] = [at |-> "checked", entry |-> a] /\ \A u \in Threads : u # t => pending'[u] = pending[u]
  BY <1>1 DEF TypeOK
<1>5. Apart'
  BY <1>1, <1>2, <1>3, <1>4 DEF FileInv, Apart, Working
<1> QED BY <1>1, <1>2, <1>5 DEF StepOfLedger, Shown

LEMMA FileAmendStep ==
    ASSUME FileInv, NEW t \in Threads, AppendAmendment(t)
    PROVE  Apart' /\ StepOfLedger
<1> USE Names
<1> DEFINE a == pending[t].entry
<1>1. /\ pending[t] # None /\ pending[t].at = "checked" /\ a \in Amendments /\ a \in Entries
      /\ acked' = acked /\ TypeOK
      /\ Stored(a) \/ NotStored(a)
  BY DEF AppendAmendment, FileInv, LogInv, TypeOK, Entries
<1>2. /\ \A u \in Threads : u # t => pending'[u] = pending[u]
      /\ pending'[t] = None \/ pending'[t].at # "checked"
      /\ pending'[t] # None => pending'[t].entry = a
  <2>1. CASE pending' = [pending EXCEPT ![t].at = "stored"]
    <3>1. pending[t] \in [at : {"checked", "stored"}, entry : Amendments]
      BY <1>1 DEF TypeOK
    <3> QED BY <1>1, <2>1, <3>1 DEF TypeOK
  <2>2. CASE pending' = [pending EXCEPT ![t] = None]
    BY <1>1, <2>2 DEF TypeOK
  <2> QED BY <2>1, <2>2 DEF AppendAmendment
<1>3. /\ a \notin acked
      /\ \A f \in Present : Suits(f, a) /\ f.no # a.no
      /\ \A u \in Threads : Working(u) /\ u # t => pending[u].entry.no # a.no
  BY <1>1 DEF FileInv, LogInv, Numbered, Checked, Apart, Working
<1> HIDE DEF a
<1>4. StepOfLedger
  BY <1>1, <1>3, LedgerWrite DEF StepOfLedger, Shown
<1>5. Present' \subseteq Present \cup {a}
  BY <1>1, WriteChanges
<1>6. \A i, j \in DOMAIN Lines' :
              Lines'[i] # Garbage /\ Lines'[j] # Garbage /\ Lines'[i].no = Lines'[j].no => i = j
  BY <1>1, <1>3, ApartByWrite
<1>7. a = pending[t].entry /\ Working(t)
  BY <1>1 DEF a, Working
<1>8. ASSUME NEW u \in Threads, Working(u)'
      PROVE  /\ \A v \in Threads : Working(v)' /\ v # u => pending'[v].entry.no # pending'[u].entry.no
             /\ pending'[u].at = "checked" => \A e \in Present' : e.no # pending'[u].entry.no
  <2>1. \A v \in Threads : Working(v)' => Working(v) /\ pending'[v].entry = pending[v].entry
    BY <1>2, <1>7 DEF Working
  <2>2. pending'[u].at = "checked" => u # t /\ pending[u].at = "checked"
    BY <1>2, <1>8 DEF Working
  <2> QED BY <1>3, <1>5, <1>8, <2>1, <2>2 DEF FileInv, Apart
<1>9. Apart'
  BY <1>6, <1>8 DEF Apart
<1> QED BY <1>4, <1>9

LEMMA FileReturnStep ==
    ASSUME FileInv, NEW t \in Threads, ReturnRecord(t)
    PROVE  Apart' /\ StepOfLedger
<1> USE Names
<1> DEFINE a == pending[t].entry
<1>1. /\ UNCHANGED <<file, tail>> /\ acked' \in {acked, acked \cup {a}}
      /\ pending' = [pending EXCEPT ![t] = None]
      /\ TypeOK
  BY DEF ReturnRecord, FileInv, LogInv
<1>2. Lines' = Lines /\ Present' = Present /\ Entered' = Entered /\ Effective' = Effective
  BY <1>1 DEF Lines, Present, Entered, Effective
<1>3. pending'[t] = None /\ \A u \in Threads : u # t => pending'[u] = pending[u]
  BY <1>1 DEF TypeOK
<1> HIDE DEF a
<1>4. Apart'
  BY <1>2, <1>3 DEF FileInv, Apart, Working
<1>5. StepOfLedger
  <2>1. CASE a \in Entered /\ acked' = acked \cup {a}
    <3>1. (acked \cap Entered)' = (acked \cap Entered) \cup {a} BY <1>2, <2>1
    <3> QED BY <1>2, <2>1, <3>1 DEF StepOfLedger
  <2>2. CASE a \notin Entered \/ acked' = acked
    <3>1. (acked \cap Entered)' = acked \cap Entered BY <1>1, <1>2, <2>2
    <3> QED BY <1>2, <3>1 DEF StepOfLedger, Shown
  <2> QED BY <1>1, <2>1, <2>2
<1> QED BY <1>4, <1>5

LEMMA FileStep == FileInv /\ [Next]_vars => FileInv' /\ StepOfLedger
<1> SUFFICES ASSUME FileInv, [Next]_vars PROVE FileInv' /\ StepOfLedger
  OBVIOUS
<1>1. LogInv' BY LogStep DEF FileInv
<1>2. CASE UNCHANGED vars
  <2>1. UNCHANGED <<file, tail, pending, acked>> BY <1>2 DEF vars
  <2>2. Lines' = Lines BY <2>1 DEF Lines
  <2>3. Present' = Present /\ Entered' = Entered /\ Effective' = Effective
    BY <2>2 DEF Present, Entered, Effective
  <2>4. Apart' BY <2>1, <2>2, <2>3 DEF FileInv, Apart, Working
  <2> QED BY <1>1, <2>1, <2>3, <2>4 DEF FileInv, StepOfLedger, Shown
<1>3. CASE Next
  BY <1>1, <1>3, FileRecordStep, FileEndStep, FileAmendStep, FileReturnStep DEF Next, FileInv
<1> QED BY <1>2, <1>3

LEMMA EffectiveType ==
    ASSUME NEW s \in Seq(Entries \cup {Garbage})
    PROVE  Sieve(s, EnteredIn(s)) \in Seq(Entries \cup {Garbage})
<1> DEFINE S == Entries \cup {Garbage}
           T == EnteredIn(s)
<1> HIDE DEF S, T
<1>1. s \in Seq(S) BY DEF S
<1>2. Sieve(s, T) \in Seq(S) BY <1>1, SieveKeeps
<1> QED BY <1>2 DEF S, T

LEMMA LedgerStep ==
    ASSUME FileInv, FileInv', StepOfLedger
    PROVE  [Ledger!LedgerNext]_Ledger!ledgerVars
<1> DEFINE q == Effective
           r == Effective'
           c == acked \cap Entered
           d == (acked \cap Entered)'
<1>1. /\ q \in Seq(Entries \cup {Garbage}) /\ ToSet(q) = Entered
  BY EffectiveIsEntered DEF FileInv, LogInv
<1>2. r \in Seq(Entries \cup {Garbage})
  <2>1. file' \in Seq(Entries \cup {Garbage}) /\ tail' \in Entries \cup {None, Garbage}
    BY DEF FileInv, LogInv, TypeOK
  <2>2. Lines' \in Seq(Entries \cup {Garbage}) BY <2>1 DEF Lines
  <2> QED BY <2>2, EffectiveType DEF Effective, Entered
<1>3. CASE UNCHANGED Shown
  BY <1>3 DEF Shown, Ledger!ledgerVars
<1>4. ASSUME NEW e \in Entries, NewTo(q, e), r = Append(q, e), d \in {c, c \cup {e}}
      PROVE  Ledger!Enter(e)
  BY <1>1, <1>4 DEF NewTo, Ledger!Enter, Ledger!Admissible, Ledger!Opens, Opens, ToSet, Ledger!ToSet
<1>5. ASSUME NEW e \in Entered, r = q, d = c \cup {e}
      PROVE  e \in Entries /\ Ledger!Confirm(e)
  <2>1. e \in Entries BY EnteredIsPresent, LinesType DEF FileInv, LogInv
  <2> QED BY <1>1, <1>5, <2>1 DEF Ledger!Confirm, ToSet, Ledger!ToSet
<1>6. ASSUME NEW x \in Entries \ acked, q = Append(r, x), d = c
      PROVE  Ledger!Withdraw
  <2>1. q # <<>> /\ Ledger!Last(q) = x /\ Ledger!Front(q) = r
    <3> HIDE DEF q, r
    <3> DEFINE n == Len(r)
    <3>1. n \in Nat /\ Len(q) = n + 1 /\ q[n + 1] = x BY <1>2, <1>6
    <3>2. SubSeq(q, 1, n) = r BY <1>2, <1>6
    <3> QED BY <3>1, <3>2 DEF Ledger!Last, Ledger!Front
  <2> QED BY <1>6, <2>1 DEF Ledger!Withdraw
<1> QED BY <1>3, <1>4, <1>5, <1>6 DEF StepOfLedger, Ledger!LedgerNext

(* Whatever requests, failed writes and reads do to the file, what it holds *)
(* is a ledger: entries are only added, an amendment after the closure it   *)
(* names, and only the last entry may go while nobody was told of it.       *)
THEOREM IsLedgerHolds == Spec => IsLedger
<1>1. FileInv /\ [Next]_vars => FileInv'
  BY FileStep
<1>2. FileInv /\ FileInv' /\ [Next]_vars => [Ledger!LedgerNext]_Ledger!ledgerVars
  BY FileStep, LedgerStep
<1>3. Init => Ledger!LedgerInit
  <2> SUFFICES ASSUME Init PROVE Ledger!LedgerInit
    OBVIOUS
  <2>1. TypeOK /\ acked = {} BY LogInit DEF LogInv, Init
  <2>2. Entered = {} BY DEF Init, Lines, Entered, EnteredIn, InEffect
  <2>3. Effective \in Seq(Entries \cup {Garbage}) /\ ToSet(Effective) = {}
    BY <2>1, <2>2, EffectiveIsEntered
  <2>4. Effective = <<>>
    <3> DEFINE q == Effective
    <3>1. q \in Seq(Entries \cup {Garbage}) /\ \A i \in DOMAIN q : FALSE BY <2>3 DEF ToSet
    <3> HIDE DEF q
    <3>2. DOMAIN q = 1 .. Len(q) /\ Len(q) \in Nat BY <3>1
    <3>3. Len(q) = 0 BY <3>1, <3>2
    <3>4. q = <<>> BY <3>1, <3>3
    <3> QED BY <3>4 DEF q
  <2> QED BY <2>1, <2>4 DEF Ledger!LedgerInit
<1> QED BY FileInit, <1>1, <1>2, <1>3, PTL DEF Spec, IsLedger, Ledger!LedgerSpec

-----------------------------------------------------------------------------
(***************************************************************************)
(* What the Agent tells on a board is what its tools found, for every set  *)
(* of questions, calls and counts.                                         *)
(***************************************************************************)

(* What the tools have left: every result is of a call the scope allows,    *)
(* with the user's own values, and holds what that tool returns.            *)
Calls(r) ==
    IF scope = "watch"
      THEN /\ r.call.tool \in DOMAIN Parameters
           /\ \A k \in DOMAIN r.call.params :
                 r.call.params[k] = ask.wrote[k] /\ (k = "limit" => ask.wrote[k] \in 1 .. 20)
      ELSE r.call.tool \in FacilityTools /\ r.tally = {} /\ ~r.minutes
Holds(r) ==
    /\ r.tally \subseteq was
    /\ r.call.tool \notin {"get_station_status", "get_facility_status"} => r.quality = "fresh"
RanInv ==
    /\ scope \in Scopes
    /\ board.count \in was
    /\ \E S : ran \in Seq(S)
    /\ \A i \in DOMAIN ran : Calls(ran[i]) /\ Holds(ran[i])

(* What a reply may say, given what was run: the third conjunct of          *)
(* AnswersKeepToTheTools, for one reply.                                    *)
KeptTo(t) ==
    /\ t.text = "model" =>
          /\ ran # <<>> /\ ~t.answer.unsafe /\ "get_rain_status" \notin Used
          /\ \A i \in DOMAIN ran : ran[i].quality = "fresh"
          /\ \A n \in t.answer.counts : n \in was \/ Tallies = {}
          /\ replay /\ "get_facility_status" \in Used => "past" \in t.answer.names
    /\ t.status = "ANSWERED" =>
          /\ ran # <<>> /\ \A i \in DOMAIN ran : ran[i].quality = "fresh"
          /\ scope = "facility" => {h.tool : h \in FacilityHints(ask)} \subseteq Used
    /\ t.text = "summary" => t.evidence = DOMAIN ran
    /\ "get_rise_forecast" \in Used => "research" \in t.caveats
    /\ "get_rain_status" \in Used => "rain" \in t.caveats
    /\ (\E i \in DOMAIN ran : ran[i].minutes) /\ "baseline" \notin t.caveats =>
          t.text = "model" /\ "forecast" \in t.answer.names
AgentInv == RanInv /\ \A t \in told : KeptTo(t)

-----------------------------------------------------------------------------
(* A result appended is the last one, and the others stay.                  *)
LEMMA AppendedLast ==
    ASSUME NEW S, NEW s \in Seq(S), NEW x
    PROVE  /\ Append(s, x) \in Seq(S \cup {x})
           /\ DOMAIN Append(s, x) = 1 .. (Len(s) + 1) /\ DOMAIN s = 1 .. Len(s)
           /\ \A i \in 1 .. Len(s) : Append(s, x)[i] = s[i]
           /\ Append(s, x)[Len(s) + 1] = x
  <1>1. s \in Seq(S \cup {x}) /\ x \in S \cup {x}
    OBVIOUS
  <1>2. QED
    BY <1>1

(* RanInv carries over to one more result that fits.                        *)
LEMMA OneMoreResult ==
    ASSUME RanInv, NEW r, ran' = Append(ran, r), UNCHANGED <<scope, replay, ask, board, was>>,
           Calls(r), Holds(r)
    PROVE  RanInv'
  <1>1. PICK S : ran \in Seq(S)
    BY DEF RanInv
  <1>2. /\ ran' \in Seq(S \cup {r})
        /\ DOMAIN ran' = 1 .. (Len(ran) + 1) /\ DOMAIN ran = 1 .. Len(ran)
        /\ \A i \in 1 .. Len(ran) : ran'[i] = ran[i]
        /\ ran'[Len(ran) + 1] = r
        /\ Len(ran) \in Nat
    BY <1>1, AppendedLast
  <1>3. ASSUME NEW i \in DOMAIN ran'
        PROVE  (Calls(ran[i]) /\ Holds(ran[i]))'
    <2>1. ran'[i] = r \/ (i \in DOMAIN ran /\ ran'[i] = ran[i])
      BY <1>2, <1>3
    <2>2. Calls(ran'[i]) /\ Holds(ran'[i])
      BY <2>1 DEF RanInv
    <2>3. QED
      BY <2>2 DEF Calls, Holds
  <1>4. QED
    BY <1>2, <1>3 DEF RanInv

(* A tool of the watch board leaves what it may leave.                      *)
LEMMA WatchToolFits ==
    ASSUME RanInv, scope = "watch", NEW call, Runs(call)
    PROVE  RanInv'
  <1>1. Valid(call) /\ UNCHANGED <<scope, replay, ask, board, was>>
    BY DEF Runs
  <1>2. PICK listed \in BOOLEAN, gauged \in BOOLEAN : ran' = Append(ran, Result(call, listed, gauged))
    BY DEF Runs
  <1> DEFINE r == Result(call, listed, gauged)
  <1>3. r.call = call
    BY DEF Result
  <1>4. Calls(r)
    BY <1>1, <1>3 DEF Calls, Valid, InBounds
  <1>5. r.tally \subseteq {board.count} /\ (call.tool \notin {"get_station_status", "get_facility_status"} => r.quality = "fresh")
    BY DEF Result
  <1>6. Holds(r)
    BY <1>3, <1>5 DEF Holds, RanInv
  <1> HIDE DEF r
  <1>7. QED
    BY <1>1, <1>2, <1>4, <1>6, OneMoreResult DEF r

(* So does a tool of a facility's board, which counts no stages.            *)
LEMMA FacilityToolFits ==
    ASSUME RanInv, scope = "facility", NEW tool \in FacilityTools, RunFacilityTool(tool)
    PROVE  RanInv'
  <1> DEFINE call == [tool |-> tool, params |-> [k \in {} |-> {}]]
             r == Result(call, FALSE, FALSE)
  <1>1. ran' = Append(ran, r) /\ UNCHANGED <<scope, replay, ask, board, was>>
    BY DEF RunFacilityTool
  <1>2. r.call.tool = tool
    BY DEF Result
  <1>3. /\ r.tally = {} /\ ~r.minutes
        /\ tool \notin {"get_station_status", "get_facility_status"} => r.quality = "fresh"
    BY DEF Result, FacilityTools, Tallying, Ranked
  <1>4. Calls(r) /\ Holds(r)
    BY <1>2, <1>3 DEF Calls, Holds
  <1> HIDE DEF r
  <1>5. QED
    BY <1>1, <1>4, OneMoreResult

(* What was used and what was tallied, by scope.                            *)
LEMMA UsedByScope ==
    ASSUME RanInv
    PROVE  /\ scope \in {"watch", "facility"}
           /\ Tallies \subseteq was
           /\ ~Unfresh => \A i \in DOMAIN ran : ran[i].quality = "fresh"
           /\ scope = "watch" => Used \subseteq DOMAIN Parameters
           /\ scope = "facility" => /\ Used \subseteq FacilityTools /\ Tallies = {}
                                    /\ ~\E i \in DOMAIN ran : ran[i].minutes
           /\ "get_facility_status" \notin DOMAIN Parameters /\ "get_rise_forecast" \notin DOMAIN Parameters
           /\ "get_rain_status" \notin FacilityTools
  <1>1. \A i \in DOMAIN ran : Calls(ran[i]) /\ Holds(ran[i])
    BY DEF RanInv
  <1>2. scope \in {"watch", "facility"}
    BY DEF RanInv, Scopes
  <1>3. Tallies \subseteq was
    BY <1>1 DEF Tallies, Holds
  <1>4. ~Unfresh => \A i \in DOMAIN ran : ran[i].quality = "fresh"
    BY <1>1 DEF Unfresh, Reading, Holds
  <1>5. scope = "watch" => Used \subseteq DOMAIN Parameters
    BY <1>1 DEF Used, Calls
  <1>6. scope = "facility" => Used \subseteq FacilityTools /\ ~\E i \in DOMAIN ran : ran[i].minutes
    BY <1>1 DEF Used, Calls
  <1>7. scope = "facility" => Tallies = {}
    BY <1>1 DEF Tallies, Calls
  <1>8. /\ "get_facility_status" \notin DOMAIN Parameters /\ "get_rise_forecast" \notin DOMAIN Parameters
        /\ "get_rain_status" \notin FacilityTools
    BY DEF Parameters, FacilityTools
  <1>9. QED
    BY <1>2, <1>3, <1>4, <1>5, <1>6, <1>7, <1>8

(* Whatever the loop ends with, the reply made of it keeps to the tools.    *)
LEMMA ConcludedIsKept ==
    ASSUME RanInv, NEW source \in {"model", "clarification", "unavailable", "registered_tools"},
           NEW status, NEW answer, Conclude(source, status, answer),
           status = "ANSWERED" => ran # <<>>,
           source = "registered_tools" => ran # <<>>
    PROVE  \A t \in told' : KeptTo(t)
  <1> DEFINE summed == ran # <<>> /\ (source = "registered_tools" \/ ~SafeAnswer(answer))
             text == IF summed THEN "summary" ELSE IF ran = <<>> /\ source = "model" THEN "fixed" ELSE source
             unmet == scope = "facility" /\ ran # <<>> /\ ~({h.tool : h \in Hints} \subseteq Used)
             t == [text |-> text, answer |-> answer, caveats |-> Caveats(text, answer),
                   evidence |-> IF summed THEN Summarized ELSE {},
                   status |-> IF Unfresh \/ unmet THEN "NEEDS_DATA" ELSE status]
  <1>1. told' = {t}
    BY DEF Conclude
  <1>2. /\ t.text = text /\ t.answer = answer /\ t.caveats = Caveats(text, answer)
        /\ t.evidence = (IF summed THEN Summarized ELSE {})
        /\ t.status = (IF Unfresh \/ unmet THEN "NEEDS_DATA" ELSE status)
    OBVIOUS
  <1> HIDE DEF t
  <1>3. text = "summary" <=> summed
    OBVIOUS
  <1>4. text = "model" => source = "model" /\ ran # <<>> /\ SafeAnswer(answer)
    OBVIOUS
  <1>5. text = "model" =>
          /\ ran # <<>> /\ ~answer.unsafe /\ "get_rain_status" \notin Used
          /\ \A i \in DOMAIN ran : ran[i].quality = "fresh"
          /\ \A n \in answer.counts : n \in was \/ Tallies = {}
          /\ replay /\ "get_facility_status" \in Used => "past" \in answer.names
    BY <1>4, UsedByScope DEF SafeAnswer, WatchSafe, FacilitySafe
  <1>6. t.status = "ANSWERED" => /\ ran # <<>> /\ \A i \in DOMAIN ran : ran[i].quality = "fresh"
                                 /\ scope = "facility" => {h.tool : h \in FacilityHints(ask)} \subseteq Used
    <2>1. t.status = "ANSWERED" => ~Unfresh /\ ~unmet /\ status = "ANSWERED"
      BY <1>2
    <2>2. scope = "facility" => Hints = FacilityHints(ask)
      BY DEF Hints
    <2>3. QED
      BY <2>1, <2>2, UsedByScope
  <1>7. text = "summary" => t.evidence = DOMAIN ran
    BY <1>2, <1>3 DEF Summarized
  <1>8. /\ "get_rise_forecast" \in Used => "research" \in t.caveats
        /\ "get_rain_status" \in Used => "rain" \in t.caveats
        /\ (\E i \in DOMAIN ran : ran[i].minutes) /\ "baseline" \notin t.caveats =>
              text = "model" /\ "forecast" \in answer.names
    <2>1. scope = "facility" => ("get_rise_forecast" \in Used => "research" \in Caveats(text, answer))
      BY DEF Caveats
    <2>2. scope = "watch" => ("get_rain_status" \in Used => "rain" \in Caveats(text, answer))
      BY DEF Caveats
    <2>3. scope = "watch" /\ (\E i \in DOMAIN ran : ran[i].minutes) /\ "baseline" \notin Caveats(text, answer) =>
              text = "model" /\ "forecast" \in answer.names
      BY DEF Caveats
    <2>4. QED
      BY <1>2, <2>1, <2>2, <2>3, UsedByScope
  <1> HIDE DEF text, summed, unmet
  <1>9. KeptTo(t)
    BY <1>2, <1>5, <1>6, <1>7, <1>8 DEF KeptTo
  <1>10. QED
    BY <1>1, <1>9

-----------------------------------------------------------------------------
LEMMA InitEstablishes == BoardAgentInit => AgentInv
  <1>1. SUFFICES ASSUME BoardAgentInit PROVE AgentInv
    OBVIOUS
  <1>2. ran = <<>> /\ told = {} /\ scope \in Scopes /\ was = {board.count}
    BY <1>1 DEF BoardAgentInit
  <1>3. ran \in Seq({}) /\ DOMAIN ran = {}
    BY <1>2
  <1>4. QED
    BY <1>2, <1>3 DEF AgentInv, RanInv

LEMMA StepPreserves == AgentInv /\ [BoardAgentNext]_agentVars => AgentInv'
  <1>1. SUFFICES ASSUME AgentInv, [BoardAgentNext]_agentVars PROVE AgentInv'
    OBVIOUS
  <1>2. RanInv
    BY <1>1 DEF AgentInv
  <1>3. ASSUME NEW call, scope = "watch", Runs(call) PROVE AgentInv'
    <2>1. RanInv'
      BY <1>2, <1>3, WatchToolFits
    <2>2. told' = {}
      BY <1>3 DEF Runs
    <2>3. QED
      BY <2>1, <2>2 DEF AgentInv
  <1>4. ASSUME NEW tool \in FacilityTools, scope = "facility", RunFacilityTool(tool) PROVE AgentInv'
    <2>1. RanInv'
      BY <1>2, <1>4, FacilityToolFits
    <2>2. told' = {}
      BY <1>4 DEF RunFacilityTool
    <2>3. QED
      BY <2>1, <2>2 DEF AgentInv
  <1>5. CASE BoardMoves
    <2>1. UNCHANGED <<scope, ask, ran>> /\ told' = {} /\ was' = was \cup {board'.count}
      BY <1>5 DEF BoardMoves
    <2>2. \A i \in DOMAIN ran : (Calls(ran[i]) /\ Holds(ran[i]))'
      BY <1>2, <2>1 DEF RanInv, Calls, Holds
    <2>3. RanInv'
      BY <1>2, <2>1, <2>2 DEF RanInv
    <2>4. QED
      BY <2>1, <2>3 DEF AgentInv
  <1>6. CASE Reply
    <2>1. UNCHANGED <<scope, replay, ask, board, was, ran>>
      BY <1>6 DEF Reply
    <2>2. \A t \in told' : KeptTo(t)
      <3>1. ASSUME NEW answer, NEW status, status = "ANSWERED" => ran # <<>>, Conclude("model", status, answer)
            PROVE  \A t \in told' : KeptTo(t)
        BY <1>2, <3>1, ConcludedIsKept
      <3>2. ASSUME Conclude("clarification", "NEEDS_DATA", Plain)
            PROVE  \A t \in told' : KeptTo(t)
        BY <1>2, <3>2, ConcludedIsKept
      <3>3. ASSUME Conclude("unavailable", "UNAVAILABLE", Plain)
            PROVE  \A t \in told' : KeptTo(t)
        BY <1>2, <3>3, ConcludedIsKept
      <3>4. ASSUME NEW status, ran # <<>>, Conclude("registered_tools", status, Plain)
            PROVE  \A t \in told' : KeptTo(t)
        BY <1>2, <3>4, ConcludedIsKept
      <3>5. QED
        BY <1>6, <3>1, <3>2, <3>3, <3>4 DEF Reply
    <2>3. RanInv'
      BY <1>2, <2>1 DEF RanInv, Calls, Holds
    <2>4. \A t \in told' : KeptTo(t)'
      BY <2>1, <2>2 DEF KeptTo, Used, Tallies, FacilityHints, Has
    <2>5. QED
      BY <2>3, <2>4 DEF AgentInv
  <1>7. CASE UNCHANGED agentVars
    <2>1. UNCHANGED <<scope, replay, ask, board, was, ran, told>>
      BY <1>7 DEF agentVars
    <2>2. RanInv'
      BY <1>2, <2>1 DEF RanInv, Calls, Holds
    <2>3. \A t \in told' : KeptTo(t)'
      BY <1>1, <2>1 DEF AgentInv, KeptTo, Used, Tallies, FacilityHints, Has
    <2>4. QED
      BY <2>2, <2>3 DEF AgentInv
  <1>8. QED
    BY <1>1, <1>3, <1>4, <1>5, <1>6, <1>7 DEF BoardAgentNext

(* Every reply on a board keeps to what the tools found, whatever the       *)
(* questions, the calls a model comes up with, the counts and the limit on  *)
(* calls, and however the board moves between the tools (run_tool, _reply). *)
THEOREM AnswersKept == BoardAgentSpec => []AnswersKeepToTheTools
  <1>1. AgentInv => AnswersKeepToTheTools
    <2>1. SUFFICES ASSUME AgentInv PROVE AnswersKeepToTheTools
      OBVIOUS
    <2>2. RanInv /\ \A t \in told : KeptTo(t)
      BY <2>1 DEF AgentInv
    <2>3. Tallies \subseteq was
      BY <2>2, UsedByScope
    <2>4. \A i \in DOMAIN ran : Calls(ran[i])
      BY <2>2 DEF RanInv
    <2>5. scope = "watch" => \A i \in DOMAIN ran : \A k \in DOMAIN ran[i].call.params :
              /\ ran[i].call.params[k] = ask.wrote[k]
              /\ k = "limit" => ask.wrote[k] \in 1 .. 20
      BY <2>4 DEF Calls
    <2>6. QED
      BY <2>2, <2>3, <2>5 DEF AnswersKeepToTheTools, KeptTo
  <1>2. QED
    BY <1>1, InitEstablishes, StepPreserves, PTL DEF BoardAgentSpec

-----------------------------------------------------------------------------
(* A set that falls into parts has as many members as they have together.   *)
LEMMA SumOfParts ==
    ASSUME NEW f, NEW A, NEW U, IsFiniteSet(U),
           \A x \in DOMAIN f : A[x] \subseteq U /\ f[x] = Cardinality(A[x]),
           \A u \in U : \E x \in DOMAIN f : u \in A[x],
           \A x, y \in DOMAIN f : x # y => A[x] \cap A[y] = {}
    PROVE  Total(f) = Cardinality(U)
<1> DEFINE P == UNION {{x} \X (1 .. f[x]) : x \in DOMAIN f}
           num(x) == CHOOSE g : g \in Bijection(A[x], 1 .. f[x])
           own(u) == CHOOSE x \in DOMAIN f : u \in A[x]
           F == [u \in U |-> <<own(u), num(own(u))[u]>>]
<1>1. \A x \in DOMAIN f : num(x) \in Bijection(A[x], 1 .. f[x])
  <2> TAKE x \in DOMAIN f
  <2>1. IsFiniteSet(A[x])
    BY FS_Subset
  <2>2. ExistsBijection(1 .. f[x], A[x])
    BY <2>1, FS_CardinalityType
  <2>3. ExistsBijection(A[x], 1 .. f[x])
    BY <2>2, Fun_ExistsBijSymmetric
  <2> QED
    BY <2>3 DEF ExistsBijection
<1>2. \A u \in U : own(u) \in DOMAIN f /\ u \in A[own(u)]
  OBVIOUS
<1>3. \A u \in U : \A x \in DOMAIN f : u \in A[x] => x = own(u)
  BY <1>2
<1> HIDE DEF num, own
<1>4. \A x \in DOMAIN f : /\ num(x) \in [A[x] -> 1 .. f[x]]
                          /\ \A u, v \in A[x] : num(x)[u] = num(x)[v] => u = v
                          /\ \A n \in 1 .. f[x] : \E u \in A[x] : num(x)[u] = n
  BY <1>1 DEF Bijection, Injection, Surjection, IsInjective
<1>5. F \in [U -> P]
  <2> SUFFICES ASSUME NEW u \in U PROVE F[u] \in P
    OBVIOUS
  <2>1. own(u) \in DOMAIN f /\ num(own(u))[u] \in 1 .. f[own(u)]
    BY <1>2, <1>4
  <2>2. F[u] \in {own(u)} \X (1 .. f[own(u)])
    BY <2>1
  <2> QED
    BY <2>1, <2>2
<1>6. ASSUME NEW u \in U, NEW v \in U, F[u] = F[v] PROVE u = v
  <2>1. own(u) = own(v) /\ num(own(u))[u] = num(own(v))[v]
    BY <1>6
  <2> QED
    BY <2>1, <1>2, <1>4
<1>7. ASSUME NEW p \in P PROVE \E u \in U : F[u] = p
  <2>0. PICK x \in DOMAIN f : p \in {x} \X (1 .. f[x])
    OBVIOUS
  <2>1. PICK n \in 1 .. f[x] : p = <<x, n>>
    BY <2>0
  <2>2. PICK u \in A[x] : num(x)[u] = n
    BY <1>4
  <2>3. u \in U /\ own(u) = x
    BY <1>3
  <2> QED
    BY <2>1, <2>2, <2>3
<1> HIDE DEF F, P
<1>8. F \in Bijection(U, P)
  BY <1>5, <1>6, <1>7 DEF Bijection, Injection, Surjection, IsInjective
<1>9. Cardinality(P) = Cardinality(U)
  BY <1>8, FS_Bijection DEF ExistsBijection
<1> QED
  BY <1>9 DEF Total, P

(* Tuples of n numbers are in a total order.                                *)
Tuple(a, n) == DOMAIN a = 1 .. n /\ \A k \in 1 .. n : a[k] \in Int
LEMMA NotSoonerItself == ASSUME NEW n \in Nat, NEW a, Tuple(a, n) PROVE ~Sooner(a, a)
BY DEF Tuple, Sooner

LEMMA SoonerOneWay ==
    ASSUME NEW n \in Nat, NEW a, NEW b, Tuple(a, n), Tuple(b, n), \E k \in 1 .. n : a[k] # b[k]
    PROVE  Sooner(a, b) \/ Sooner(b, a)
<1> DEFINE D == {k \in 1 .. n : a[k] # b[k]}
<1>1. D \subseteq Nat /\ D # {}
  OBVIOUS
<1> HIDE DEF D
<1>2. PICK k \in D : \A j \in D : k <= j
  BY <1>1, LeastNat
<1>3. k \in 1 .. n /\ a[k] # b[k] /\ a[k] \in Int /\ b[k] \in Int
  BY <1>2 DEF D, Tuple
<1>4. \A j \in 1 .. (k - 1) : a[j] = b[j]
  <2> TAKE j \in 1 .. (k - 1)
  <2>1. j \in 1 .. n /\ ~(k <= j)
    BY <1>3
  <2> QED
    BY <1>2, <2>1 DEF D
<1>5. CASE a[k] < b[k]
  BY <1>3, <1>4, <1>5 DEF Sooner, Tuple
<1>6. CASE b[k] < a[k]
  BY <1>3, <1>4, <1>6 DEF Sooner, Tuple
<1> QED
  BY <1>3, <1>5, <1>6

LEMMA SoonerOfSooner ==
    ASSUME NEW n \in Nat, NEW a, NEW b, NEW c, Tuple(a, n), Tuple(b, n), Tuple(c, n), Sooner(a, b), Sooner(b, c)
    PROVE  Sooner(a, c)
<1>1. PICK k \in 1 .. n : a[k] < b[k] /\ \A j \in 1 .. (k - 1) : a[j] = b[j]
  BY DEF Sooner, Tuple
<1>2. PICK m \in 1 .. n : b[m] < c[m] /\ \A j \in 1 .. (m - 1) : b[j] = c[j]
  BY DEF Sooner, Tuple
<1> DEFINE i == IF k <= m THEN k ELSE m
<1>3. i \in 1 .. n /\ i <= k /\ i <= m
  BY <1>1, <1>2
<1>4. a[i] < c[i]
  <2>1. a[k] \in Int /\ b[k] \in Int /\ c[k] \in Int /\ a[m] \in Int /\ b[m] \in Int /\ c[m] \in Int
    BY <1>1, <1>2 DEF Tuple
  <2>2. CASE k < m
    <3>1. k \in 1 .. (m - 1)
      BY <2>2
    <3> QED
      BY <1>1, <1>2, <2>1, <2>2, <3>1
  <2>3. CASE m < k
    <3>1. m \in 1 .. (k - 1)
      BY <2>3
    <3> QED
      BY <1>1, <1>2, <2>1, <2>3, <3>1
  <2>4. CASE m = k
    BY <1>1, <1>2, <2>1, <2>4
  <2> QED
    BY <2>2, <2>3, <2>4
<1>5. \A j \in 1 .. (i - 1) : a[j] = c[j]
  <2> TAKE j \in 1 .. (i - 1)
  <2>1. j \in 1 .. (k - 1) /\ j \in 1 .. (m - 1)
    BY <1>3
  <2> QED
    BY <1>1, <1>2, <2>1
<1> HIDE DEF i
<1> QED
  BY <1>3, <1>4, <1>5 DEF Sooner, Tuple

(* A sorted list holds each member once, each after those that are sooner.  *)
Keyed(S, key, n) ==
    /\ \A x \in S : Tuple(key[x], n)
    /\ \A x, y \in S : x # y => \E k \in 1 .. n : key[x][k] # key[y][k]
LEMMA SortedList ==
    ASSUME NEW n \in Nat, NEW S, NEW key, IsFiniteSet(S), Keyed(S, key, n)
    PROVE  LET list == Sorted(S, key)
           IN /\ list \in [1 .. Cardinality(S) -> S] /\ Cardinality(S) \in Nat
              /\ \A x \in S : \E k \in 1 .. Cardinality(S) : list[k] = x
              /\ \A i, j \in 1 .. Cardinality(S) : i < j => Sooner(key[list[i]], key[list[j]])
<1> DEFINE m == Cardinality(S)
           Before(x) == {y \in S : Sooner(key[y], key[x])}
           rank == [x \in S |-> Cardinality(Before(x))]
<1>1. m \in Nat
  BY FS_CardinalityType
<1>2. ASSUME NEW x \in S PROVE rank[x] \in 0 .. m - 1
  <2>1. x \notin Before(x) /\ Before(x) \subseteq S
    BY NotSoonerItself DEF Keyed
  <2> HIDE DEF Before
  <2>2. Cardinality(Before(x)) <= m /\ (m = Cardinality(Before(x)) => S = Before(x)) /\ IsFiniteSet(Before(x))
    BY <2>1, FS_Subset
  <2>3. Cardinality(Before(x)) \in Nat
    BY <2>2, FS_CardinalityType
  <2>4. Cardinality(Before(x)) # m
    BY <2>1, <2>2
  <2> HIDE DEF m
  <2> QED
    BY <1>1, <2>2, <2>3, <2>4
<1>3. ASSUME NEW x \in S, NEW y \in S, Sooner(key[x], key[y]) PROVE rank[x] < rank[y]
  <2>1. Before(x) \subseteq Before(y)
    BY <1>3, SoonerOfSooner DEF Keyed
  <2>2. x \in Before(y) /\ x \notin Before(x)
    BY <1>3, NotSoonerItself DEF Keyed
  <2>3. IsFiniteSet(Before(y))
    BY FS_Subset
  <2> HIDE DEF Before
  <2>4. Cardinality(Before(x)) <= Cardinality(Before(y)) /\ Cardinality(Before(x)) # Cardinality(Before(y))
    BY <2>1, <2>2, <2>3, FS_Subset
  <2>5. rank[x] \in Int /\ rank[y] \in Int /\ rank[x] <= rank[y] /\ rank[x] # rank[y]
    BY <1>2, <2>4
  <2> QED
    BY <2>5
<1>4. ASSUME NEW x \in S, NEW y \in S, x # y PROVE Sooner(key[x], key[y]) \/ Sooner(key[y], key[x])
  BY <1>4, SoonerOneWay DEF Keyed
<1>5. ASSUME NEW x \in S, NEW y \in S, rank[x] = rank[y] PROVE x = y
  <2>1. SUFFICES ASSUME x # y PROVE FALSE
    OBVIOUS
  <2>2. rank[x] < rank[y] \/ rank[y] < rank[x]
    BY <1>3, <1>4, <2>1
  <2>3. rank[x] \in Int /\ rank[y] \in Int
    BY <1>2
  <2> QED
    BY <2>2, <2>3, <1>5
<1>6. ASSUME NEW k \in 0 .. m - 1 PROVE \E x \in S : rank[x] = k
  <2>1. rank \in Injection(S, 0 .. m - 1)
    BY <1>2, <1>5 DEF Injection, IsInjective
  <2>2. IsFiniteSet(0 .. m - 1) /\ Cardinality(0 .. m - 1) = m
    <3> HIDE DEF m
    <3>1. 0 \in Int /\ m - 1 \in Int
      BY <1>1
    <3>2. IsFiniteSet(0 .. m - 1) /\ Cardinality(0 .. m - 1) = IF 0 > m - 1 THEN 0 ELSE m - 1 - 0 + 1
      BY <3>1, FS_Interval
    <3> QED
      BY <1>1, <3>2
  <2>3. rank \in Surjection(S, 0 .. m - 1)
    BY <2>1, <2>2, FS_Injection
  <2> HIDE DEF rank
  <2> QED
    BY <2>3 DEF Surjection
<1> DEFINE list == Sorted(S, key)
<1>7. DOMAIN list = 1 .. m /\ \A k \in 1 .. m : list[k] = CHOOSE x \in S : Cardinality(Before(x)) = k - 1
  BY DEF Sorted
<1>8. ASSUME NEW k \in 1 .. m PROVE list[k] \in S /\ rank[list[k]] = k - 1
  <2>1. k - 1 \in 0 .. m - 1
    BY <1>1
  <2>2. \E x \in S : Cardinality(Before(x)) = k - 1
    BY <1>6, <2>1
  <2>3. list[k] = CHOOSE x \in S : Cardinality(Before(x)) = k - 1
    BY <1>7
  <2> HIDE DEF list, Before
  <2>4. list[k] \in S /\ Cardinality(Before(list[k])) = k - 1
    BY <2>2, <2>3
  <2> QED
    BY <2>4
<1>11. list \in [1 .. m -> S]
  <2>1. list = [k \in 1 .. m |-> CHOOSE x \in S : Cardinality(Before(x)) = k - 1]
    BY DEF Sorted
  <2> HIDE DEF Before, m
  <2>2. \A k \in 1 .. m : (CHOOSE x \in S : Cardinality(Before(x)) = k - 1) \in S
    BY <1>7, <1>8
  <2> HIDE DEF list
  <2> QED
    BY <2>1, <2>2
<1> HIDE DEF list, rank, m
<1>9. ASSUME NEW x \in S PROVE \E k \in 1 .. m : list[k] = x
  <2>1. rank[x] + 1 \in 1 .. m /\ rank[x] \in Int
    BY <1>1, <1>2
  <2>2. list[rank[x] + 1] \in S /\ rank[list[rank[x] + 1]] = rank[x] + 1 - 1
    BY <1>8, <2>1
  <2>3. list[rank[x] + 1] = x
    BY <1>5, <2>1, <2>2
  <2> QED
    BY <2>1, <2>3
<1>10. ASSUME NEW i \in 1 .. m, NEW j \in 1 .. m, i < j PROVE Sooner(key[list[i]], key[list[j]])
  <2>1. list[i] \in S /\ list[j] \in S /\ rank[list[i]] = i - 1 /\ rank[list[j]] = j - 1
    BY <1>8
  <2>2. list[i] # list[j]
    BY <2>1, <1>10
  <2>3. ~(rank[list[j]] < rank[list[i]])
    BY <2>1, <1>10
  <2> QED
    BY <1>3, <1>4, <2>1, <2>2, <2>3
<1> QED
  BY <1>1, <1>9, <1>10, <1>11 DEF list, m

-----------------------------------------------------------------------------
(* The catalogue as a list of what was made of each row in turn.            *)
FirstOf ==
    [seen |-> {Registered(Operational[i]).id : i \in DOMAIN Operational}, placed |-> {},
     out |-> [i \in DOMAIN Operational |-> Registered(Operational[i])]]
MadeOf(files, n, u) == u = [k \in 0 .. n |-> IF k = 0 THEN FirstOf ELSE Taken(u[k - 1], files[k])]

LEMMA CatalogueIsMade == ASSUME NEW files, NEW n \in Nat PROVE \E u : MadeOf(files, n, u)
<1> DEFINE C == {m \in Nat : ~\E u : MadeOf(files, m, u)}
<1>1. SUFFICES ASSUME C # {} PROVE FALSE
  OBVIOUS
<1>2. PICK m \in C : \A y \in C : m <= y
  <2>1. C \subseteq Nat
    OBVIOUS
  <2> HIDE DEF C
  <2> QED
    BY <1>1, <2>1, LeastNat
<1>3. m \in Nat /\ ~\E u : MadeOf(files, m, u)
  BY <1>2
<1>4. m # 0
  <2> DEFINE u == [k \in 0 .. 0 |-> FirstOf]
  <2>1. u = [k \in 0 .. 0 |-> IF k = 0 THEN FirstOf ELSE Taken(u[k - 1], files[k])]
    <3>1. \A k \in 0 .. 0 : k = 0
      OBVIOUS
    <3> QED
      BY <3>1
  <2> QED
    BY <1>3, <2>1 DEF MadeOf
<1>5. PICK g : MadeOf(files, m - 1, g)
  <2>1. m - 1 \in Nat /\ ~(m <= m - 1)
    BY <1>3, <1>4
  <2>2. m - 1 \notin C
    <3> HIDE DEF C
    <3> QED
      BY <1>2, <2>1
  <2> QED
    BY <2>1, <2>2
<1> DEFINE u == [k \in 0 .. m |-> IF k < m THEN g[k] ELSE Taken(g[m - 1], files[m])]
<1>6. ASSUME NEW k \in 0 .. m PROVE u[k] = IF k = 0 THEN FirstOf ELSE Taken(u[k - 1], files[k])
  <2>1. \A j \in 0 .. m - 1 : u[j] = g[j] /\ g[j] = IF j = 0 THEN FirstOf ELSE Taken(g[j - 1], files[j])
    <3> TAKE j \in 0 .. m - 1
    <3>1. j \in 0 .. m /\ j < m
      BY <1>3
    <3> QED
      BY <1>5, <3>1 DEF MadeOf
  <2>2. CASE k < m
    <3>1. k \in 0 .. m - 1 /\ (k # 0 => k - 1 \in 0 .. m - 1)
      BY <1>3, <2>2
    <3> HIDE DEF u
    <3> QED
      BY <2>1, <3>1
  <2>3. CASE k = m
    <3>1. m - 1 \in 0 .. m - 1 /\ m \in 0 .. m
      BY <1>3, <1>4
    <3>2. u[m] = Taken(g[m - 1], files[m])
      BY <3>1
    <3>3. u[m - 1] = g[m - 1]
      BY <2>1, <3>1
    <3> HIDE DEF u
    <3> QED
      BY <1>4, <2>3, <3>2, <3>3
  <2> QED
    BY <1>3, <2>2, <2>3
<1>7. u = [k \in 0 .. m |-> u[k]]
  OBVIOUS
<1> HIDE DEF u
<1>8. u = [k \in 0 .. m |-> IF k = 0 THEN FirstOf ELSE Taken(u[k - 1], files[k])]
  <2>1. [k \in 0 .. m |-> u[k]] = [k \in 0 .. m |-> IF k = 0 THEN FirstOf ELSE Taken(u[k - 1], files[k])]
    BY <1>6
  <2> QED
    BY <1>7, <2>1
<1> QED
  BY <1>3, <1>8 DEF MadeOf

LEMMA CatalogueSteps ==
    ASSUME NEW files, Len(files) \in Nat
    PROVE  \E u : MadeOf(files, Len(files), u) /\ CatalogueOf(files) = u[Len(files)].out
<1> DEFINE u == CHOOSE v : MadeOf(files, Len(files), v)
<1>1. MadeOf(files, Len(files), u)
  BY CatalogueIsMade
<1>2. CatalogueOf(files) = u[Len(files)].out
  <2>1. {[i \in DOMAIN Operational |-> Registered(Operational[i])][j].id :
              j \in DOMAIN [i \in DOMAIN Operational |-> Registered(Operational[i])]}
         = {Registered(Operational[i]).id : i \in DOMAIN Operational}
    OBVIOUS
  <2> QED
    BY <2>1 DEF CatalogueOf, MadeOf, FirstOf
<1> QED
  BY <1>1, <1>2

(* A place of the board stands for a row and has at most one gauge.         *)
Entry(e) == e.gauge \subseteq DOMAIN Gauges /\ (\A s, t \in e.gauge : s = t) /\ e.km \in Nat
LEMMA NearestIsOne ==
    ASSUME NEW km \in Nat, NEW limit
    PROVE  /\ Nearest(Gauges, km, limit) \subseteq DOMAIN Gauges
           /\ \A s, t \in Nearest(Gauges, km, limit) : s = t
<1> SUFFICES ASSUME NEW s \in Nearest(Gauges, km, limit), NEW t \in Nearest(Gauges, km, limit) PROVE s = t
  BY DEF Nearest
<1> DEFINE d(x) == Distance(Gauges[x].km, km)
<1>1. s \in DOMAIN Gauges /\ t \in DOMAIN Gauges
  BY DEF Nearest
<1>2. s \in Nat /\ t \in Nat /\ Gauges[s].km \in Nat /\ Gauges[t].km \in Nat
  BY <1>1, BoardAssumption DEF InKm
<1>3. d(s) \in Int /\ d(t) \in Int
  BY <1>2 DEF Distance
<1>4. (d(s) < d(t) \/ (d(s) = d(t) /\ s <= t)) /\ (d(t) < d(s) \/ (d(t) = d(s) /\ t <= s))
  BY <1>1 DEF Nearest
<1> HIDE DEF d
<1> QED
  BY <1>2, <1>3, <1>4

LEMMA LinkedIsEntry == ASSUME NEW row, row.km \in Nat PROVE Entry(Linked(row)) /\ Linked(row).id = row.id
BY NearestIsOne DEF Linked, Entry
LEMMA RegisteredIsEntry ==
    ASSUME NEW i \in DOMAIN Operational
    PROVE  Entry(Registered(Operational[i])) /\ Registered(Operational[i]).id = Operational[i].id
BY BoardAssumption DEF Registered, Entry, InKm

(* What is known after n rows.                                              *)
Ids(out) == {out[i].id : i \in DOMAIN out}
OnBoard(files, out, j) ==
    \/ files[j].id \in Ids(out)
    \/ \E i \in 1 .. (j - 1) : \/ files[i].id = files[j].id
                               \/ files[i].id \in Ids(out) /\ files[i].key = files[j].key
                                  /\ Distance(files[i].km, files[j].km) < SameKm
Places(files) ==
    {Registered(Operational[i]) : i \in DOMAIN Operational} \cup {Linked(files[j]) : j \in DOMAIN files}
MadeWell(files, n, st) ==
    /\ st = [seen |-> st.seen, placed |-> st.placed, out |-> st.out]
    /\ st.out \in Seq(Places(files))
    /\ \A i, j \in DOMAIN st.out : i # j => st.out[i].id # st.out[j].id
    /\ Ids(st.out) \subseteq st.seen
    /\ \A x \in st.seen : x \in Ids(st.out) \/ \E i \in 1 .. n : files[i].id = x
    /\ \A p \in st.placed : p.id \in Ids(st.out) /\ \E i \in 1 .. n : files[i] = p
    /\ \A j \in 1 .. n : OnBoard(files, st.out, j)

LEMMA FirstIsMadeWell == ASSUME NEW files PROVE MadeWell(files, 0, FirstOf)
<1> DEFINE out == [i \in DOMAIN Operational |-> Registered(Operational[i])]
<1>1. out \in Seq(Places(files))
  <2>1. \A i \in DOMAIN Operational : Registered(Operational[i]) \in Places(files)
    BY DEF Places
  <2>2. Len(Operational) \in Nat /\ DOMAIN Operational = 1 .. Len(Operational)
    BY BoardAssumption
  <2>3. out \in [1 .. Len(Operational) -> Places(files)]
    BY <2>1, <2>2
  <2> HIDE DEF out
  <2> QED
    BY <2>2, <2>3, SeqDef
<1>2. Ids(out) = FirstOf.seen /\ FirstOf.out = out /\ FirstOf.placed = {}
  BY DEF Ids, FirstOf
<1>3. \A i \in DOMAIN out : out[i].id = Operational[i].id
  BY RegisteredIsEntry
<1>4. \A i, j \in DOMAIN out : i # j => out[i].id # out[j].id
  BY <1>3, BoardAssumption
<1>5. FirstOf = [seen |-> FirstOf.seen, placed |-> FirstOf.placed, out |-> FirstOf.out]
  BY DEF FirstOf
<1>6. \A j \in 1 .. 0 : FALSE
  OBVIOUS
<1> HIDE DEF out
<1> QED
  BY <1>1, <1>2, <1>4, <1>5, <1>6 DEF MadeWell

LEMMA AppendedTo ==
    ASSUME NEW E, NEW out \in Seq(E), NEW e \in E
    PROVE  /\ Append(out, e) \in Seq(E)
           /\ DOMAIN Append(out, e) = 1 .. Len(out) + 1 /\ DOMAIN out = 1 .. Len(out) /\ Len(out) \in Nat
           /\ \A i \in 1 .. Len(out) : Append(out, e)[i] = out[i]
           /\ Append(out, e)[Len(out) + 1] = e
           /\ Ids(Append(out, e)) = Ids(out) \cup {e.id}
<1> DEFINE to == Append(out, e)
<1>1. to \in Seq(E) /\ Len(out) \in Nat /\ DOMAIN out = 1 .. Len(out)
  OBVIOUS
<1>2. Len(to) = Len(out) + 1 /\ DOMAIN to = 1 .. Len(out) + 1
  OBVIOUS
<1>3. Len(out) + 1 \in 1 .. Len(out) + 1 /\ Len(out) + 1 \notin 1 .. Len(out)
  OBVIOUS
<1>4. (\A i \in 1 .. Len(out) : to[i] = out[i]) /\ to[Len(out) + 1] = e
  OBVIOUS
<1>5. \A i \in 1 .. Len(out) + 1 : i \in 1 .. Len(out) \/ i = Len(out) + 1
  OBVIOUS
<1>6. 1 .. Len(out) \subseteq 1 .. Len(out) + 1
  OBVIOUS
<1> HIDE DEF to
<1>7. Ids(to) = Ids(out) \cup {e.id}
  BY <1>1, <1>2, <1>3, <1>4, <1>5, <1>6 DEF Ids
<1> QED
  BY <1>1, <1>2, <1>4, <1>7 DEF to

LEMMA TakenIsMadeWell ==
    ASSUME NEW files \in Files, NEW n \in 1 .. Len(files), NEW st, MadeWell(files, n - 1, st)
    PROVE  MadeWell(files, n, Taken(st, files[n]))
<1> DEFINE row == files[n]
           next == Taken(st, row)
<1>1. n \in Nat \ {0} /\ n \in DOMAIN files /\ row.km \in Nat
  BY BoardAssumption DEF InKm
<1>2. 1 .. n - 1 \subseteq 1 .. n /\ n \in 1 .. n /\ \A j \in 1 .. n : j = n \/ j \in 1 .. n - 1
  BY <1>1
<1>3. ASSUME NEW out, Ids(st.out) \subseteq Ids(out) PROVE \A j \in 1 .. n - 1 : OnBoard(files, out, j)
  BY <1>3 DEF MadeWell, OnBoard
<1>4. CASE row.id \in st.seen
  <2>1. next = st
    BY <1>4 DEF Taken
  <2>2. OnBoard(files, st.out, n)
    BY <1>4 DEF MadeWell, OnBoard
  <2> HIDE DEF next
  <2> QED
    BY <1>2, <2>1, <2>2 DEF MadeWell, next
<1>5. CASE row.id \notin st.seen /\ Segment(st.placed, row)
  <2>1. next.seen = st.seen \cup {row.id} /\ next.placed = st.placed /\ next.out = st.out
        /\ next = [seen |-> next.seen, placed |-> next.placed, out |-> next.out]
    BY <1>5 DEF Taken, MadeWell
  <2>2. OnBoard(files, st.out, n)
    <3>1. PICK p \in st.placed : p.key = row.key /\ Distance(p.km, row.km) < SameKm
      BY <1>5 DEF Segment
    <3>2. p.id \in Ids(st.out) /\ \E i \in 1 .. n - 1 : files[i] = p
      BY DEF MadeWell
    <3> QED
      BY <3>1, <3>2 DEF OnBoard
  <2> HIDE DEF next
  <2> QED
    BY <1>2, <2>1, <2>2 DEF MadeWell, next
<1>6. CASE row.id \notin st.seen /\ ~Segment(st.placed, row)
  <2>1. next.seen = st.seen \cup {row.id} /\ next.placed = st.placed \cup {row} /\ next.out = Append(st.out, Linked(row))
        /\ next = [seen |-> next.seen, placed |-> next.placed, out |-> next.out]
    BY <1>6 DEF Taken
  <2>2. Linked(row) \in Places(files) /\ Linked(row).id = row.id
    BY <1>1, LinkedIsEntry DEF Places
  <2>3. st.out \in Seq(Places(files))
    BY DEF MadeWell
  <2> DEFINE m == Len(st.out)
  <2> HIDE DEF next, row
  <2>4. next.out \in Seq(Places(files)) /\ DOMAIN next.out = 1 .. m + 1 /\ DOMAIN st.out = 1 .. m /\ m \in Nat
        /\ (\A i \in 1 .. m : next.out[i] = st.out[i]) /\ next.out[m + 1] = Linked(row)
        /\ Ids(next.out) = Ids(st.out) \cup {row.id}
    BY <2>1, <2>2, <2>3, AppendedTo
  <2> HIDE DEF m
  <2>5. \A i \in 1 .. m + 1 : i = m + 1 \/ i \in 1 .. m
    BY <2>4
  <2>6. \A i \in 1 .. m : st.out[i].id # row.id
    BY <1>6, <2>4 DEF MadeWell, Ids
  <2>7. \A i, j \in DOMAIN next.out : i # j => next.out[i].id # next.out[j].id
    <3> SUFFICES ASSUME NEW i \in 1 .. m + 1, NEW j \in 1 .. m + 1, i # j PROVE next.out[i].id # next.out[j].id
      BY <2>4
    <3>1. CASE i \in 1 .. m /\ j \in 1 .. m
      BY <2>4, <3>1 DEF MadeWell
    <3>2. CASE i = m + 1 /\ j \in 1 .. m
      BY <2>2, <2>4, <2>6, <3>2
    <3>3. CASE j = m + 1 /\ i \in 1 .. m
      BY <2>2, <2>4, <2>6, <3>3
    <3> QED
      BY <2>5, <3>1, <3>2, <3>3
  <2>8. \A x \in next.seen : x \in Ids(next.out) \/ \E i \in 1 .. n : files[i].id = x
    BY <1>2, <2>1, <2>4 DEF MadeWell, row
  <2>9. \A p \in next.placed : p.id \in Ids(next.out) /\ \E i \in 1 .. n : files[i] = p
    <3> TAKE p \in next.placed
    <3>1. CASE p \in st.placed
      BY <1>2, <2>4, <3>1 DEF MadeWell
    <3>2. CASE p = row
      BY <1>2, <2>4, <3>2 DEF row
    <3> QED
      BY <2>1, <3>1, <3>2
  <2>10. \A j \in 1 .. n : OnBoard(files, next.out, j)
    <3>1. \A j \in 1 .. n - 1 : OnBoard(files, next.out, j)
      BY <1>3, <2>4
    <3>2. OnBoard(files, next.out, n)
      BY <2>4 DEF OnBoard, row
    <3> QED
      BY <1>2, <3>1, <3>2
  <2>11. Ids(next.out) \subseteq next.seen
    BY <2>1, <2>4 DEF MadeWell
  <2>12. MadeWell(files, n, next)
    BY <2>1, <2>4, <2>7, <2>8, <2>9, <2>10, <2>11 DEF MadeWell
  <2> QED
    BY <2>12 DEF next, row
<1> QED
  BY <1>4, <1>5, <1>6

LEMMA CatalogueMadeWell ==
    ASSUME NEW files \in Files
    PROVE  \E st : MadeWell(files, Len(files), st) /\ CatalogueOf(files) = st.out
<1> DEFINE m == Len(files)
<1>1. m \in Nat
  BY BoardAssumption
<1>2. PICK u : MadeOf(files, m, u) /\ CatalogueOf(files) = u[m].out
  BY <1>1, CatalogueSteps
<1>3. \A n \in 0 .. m : u[n] = IF n = 0 THEN FirstOf ELSE Taken(u[n - 1], files[n])
  BY <1>2 DEF MadeOf
<1> DEFINE C == {n \in 0 .. m : ~MadeWell(files, n, u[n])}
<1>4. C = {}
  <2> SUFFICES ASSUME C # {} PROVE FALSE
    OBVIOUS
  <2>1. PICK n \in C : \A k \in C : n <= k
    <3>1. C \subseteq Nat
      OBVIOUS
    <3> HIDE DEF C
    <3> QED
      BY <3>1, LeastNat
  <2>2. n \in 0 .. m /\ ~MadeWell(files, n, u[n])
    BY <2>1
  <2>3. n # 0
    BY <1>3, <2>2, FirstIsMadeWell
  <2>4. n \in 1 .. m /\ n - 1 \in 0 .. m /\ ~(n <= n - 1)
    BY <1>1, <2>2, <2>3
  <2>5. MadeWell(files, n - 1, u[n - 1])
    <3>1. n - 1 \notin C
      <4> HIDE DEF C
      <4> QED
        BY <2>1, <2>4
    <3> QED
      BY <2>4, <3>1
  <2>6. MadeWell(files, n, Taken(u[n - 1], files[n]))
    BY <2>4, <2>5, TakenIsMadeWell
  <2>7. u[n] = Taken(u[n - 1], files[n])
    BY <1>3, <2>2, <2>3
  <2> QED
    BY <2>2, <2>6, <2>7
<1>5. MadeWell(files, m, u[m])
  <2>1. m \in 0 .. m
    BY <1>1
  <2> QED
    BY <1>4, <2>1
<1> QED
  BY <1>2, <1>5

-----------------------------------------------------------------------------
(* What a frame is made of.                                                 *)
Slot == [age : Nat, mm : Amounts]
BoardInv ==
    /\ rows \in Files /\ catalogue = CatalogueOf(rows)
    /\ station \in [DOMAIN Gauges -> Assessed] /\ \A s \in DOMAIN Gauges : station[s] \in ResultsOf(s)
    /\ fall \in [DOMAIN RainGauges -> SUBSET Slot]

LEMMA OlderIsNat == ASSUME NEW a \in Nat PROVE Min({AgeCap, a + 1}) \in Nat
<1>1. {AgeCap, a + 1} \subseteq Int /\ {AgeCap, a + 1} # {} /\ AgeCap \in Nat
  BY BoardAssumption
<1>2. IsFiniteSet({AgeCap, a + 1})
  <2>1. IsFiniteSet({AgeCap}) /\ IsFiniteSet({a + 1})
    BY FS_Singleton
  <2>2. {AgeCap, a + 1} = {AgeCap} \cup {a + 1}
    OBVIOUS
  <2>3. IsFiniteSet({AgeCap} \cup {a + 1})
    BY <2>1, FS_Union, Zenon
  <2> QED
    BY <2>2, <2>3, Zenon
<1>3. Min({AgeCap, a + 1}) \in {AgeCap, a + 1}
  BY <1>1, <1>2, FiniteHasLeast
<1> QED
  BY <1>1, <1>3

LEMMA BoardStarts == BoardInit => BoardInv
BY DEF BoardInit, BoardInv

LEMMA BoardGoesOn == BoardInv /\ [BoardNext]_boardVars => BoardInv'
<1> SUFFICES ASSUME BoardInv, [BoardNext]_boardVars PROVE BoardInv'
  OBVIOUS
<1> USE DEF BoardInv
<1>1. ASSUME NEW s \in DOMAIN Gauges, NextReading(s) PROVE BoardInv'
  <2>1. PICK a \in ResultsOf(s) : station' = [station EXCEPT ![s] = a]
    BY <1>1 DEF NextReading
  <2>2. a \in Assessed
    BY DEF ResultsOf
  <2>3. station' \in [DOMAIN Gauges -> Assessed] /\ \A x \in DOMAIN Gauges : station'[x] \in ResultsOf(x)
    BY <2>1, <2>2
  <2> QED
    BY <1>1, <2>3 DEF NextReading
<1>2. ASSUME NextSlots PROVE BoardInv'
  <2>1. PICK come \in SUBSET DOMAIN RainGauges, mm \in Amounts :
            fall' = [g \in DOMAIN fall |-> IF g \in come THEN {[age |-> 0, mm |-> mm]}
                                           ELSE {[x EXCEPT !.age = Min({AgeCap, @ + 1})] : x \in fall[g]}]
    BY <1>2 DEF NextSlots
  <2>2. ASSUME NEW x \in Slot PROVE [x EXCEPT !.age = Min({AgeCap, @ + 1})] \in Slot
    <3>1. x.age \in Nat
      BY DEF Slot
    <3>2. Min({AgeCap, x.age + 1}) \in Nat
      BY <3>1, OlderIsNat
    <3> QED
      BY <3>2 DEF Slot
  <2>3. [age |-> 0, mm |-> mm] \in Slot
    BY DEF Slot
  <2>4. ASSUME NEW g \in DOMAIN fall
        PROVE  (IF g \in come THEN {[age |-> 0, mm |-> mm]} ELSE {[x EXCEPT !.age = Min({AgeCap, @ + 1})] : x \in fall[g]})
               \in SUBSET Slot
    <3>1. fall[g] \subseteq Slot
      OBVIOUS
    <3> QED
      BY <2>2, <2>3, <3>1
  <2>5. fall' \in [DOMAIN RainGauges -> SUBSET Slot]
    BY <2>1, <2>4
  <2> QED
    BY <1>2, <2>5 DEF NextSlots
<1>3. CASE UNCHANGED boardVars
  BY <1>3 DEF boardVars
<1> QED
  BY <1>1, <1>2, <1>3 DEF BoardNext

(* As many members as numbers.                                              *)
LEMMA SameCount ==
    ASSUME NEW D, IsFiniteSet(D), NEW g, DOMAIN g = D, \A x, y \in D : g[x] = g[y] => x = y
    PROVE  IsFiniteSet({g[x] : x \in D}) /\ Cardinality({g[x] : x \in D}) = Cardinality(D)
<1> DEFINE h == [x \in D |-> g[x]]
<1>1. h \in Bijection(D, {g[x] : x \in D})
  BY DEF Bijection, Injection, Surjection, IsInjective
<1> QED
  BY <1>1, FS_Bijection DEF ExistsBijection

(* The catalogue of the frame.                                              *)
Catalogued ==
    /\ IsFiniteSet(DOMAIN catalogue) /\ DOMAIN catalogue = 1 .. Len(catalogue) /\ Len(catalogue) \in Nat
    /\ \A i \in DOMAIN catalogue : Entry(catalogue[i])
LEMMA CatalogueIs == ASSUME BoardInv PROVE Catalogued /\ PlacesKept
<1>1. PICK st : MadeWell(rows, Len(rows), st) /\ catalogue = st.out
  BY CatalogueMadeWell DEF BoardInv
<1>2. catalogue \in Seq(Places(rows))
  BY <1>1 DEF MadeWell
<1>3. DOMAIN catalogue = 1 .. Len(catalogue) /\ Len(catalogue) \in Nat /\ \A i \in DOMAIN catalogue : catalogue[i] \in Places(rows)
  BY <1>2
<1>4. \A e \in Places(rows) : Entry(e)
  <2>1. \A j \in DOMAIN rows : rows[j].km \in Nat
    BY BoardAssumption DEF BoardInv, InKm
  <2> QED
    BY <2>1, LinkedIsEntry, RegisteredIsEntry DEF Places
<1>5. IsFiniteSet(1 .. Len(catalogue)) /\ Cardinality(1 .. Len(catalogue)) = Len(catalogue)
  <2>1. 1 \in Int /\ Len(catalogue) \in Int
    BY <1>3
  <2>2. Cardinality(1 .. Len(catalogue)) = IF 1 > Len(catalogue) THEN 0 ELSE Len(catalogue) - 1 + 1
    BY <2>1, FS_Interval
  <2>3. IsFiniteSet(1 .. Len(catalogue))
    BY <2>1, FS_Interval
  <2> QED
    BY <1>3, <2>2, <2>3
<1>6. Catalogued
  BY <1>3, <1>4, <1>5 DEF Catalogued
<1> DEFINE g == [i \in DOMAIN catalogue |-> catalogue[i].id]
<1>7. Cardinality({catalogue[i].id : i \in DOMAIN catalogue}) = Len(catalogue)
  <2>1. \A i, j \in DOMAIN catalogue : g[i] = g[j] => i = j
    BY <1>1 DEF MadeWell
  <2>2. DOMAIN g = DOMAIN catalogue /\ {g[i] : i \in DOMAIN catalogue} = {catalogue[i].id : i \in DOMAIN catalogue}
    OBVIOUS
  <2> HIDE DEF g
  <2>3. IsFiniteSet(DOMAIN catalogue) /\ Cardinality(DOMAIN catalogue) = Len(catalogue)
    BY <1>3, <1>5
  <2>4. Cardinality({g[i] : i \in DOMAIN catalogue}) = Cardinality(DOMAIN catalogue)
    BY <2>1, <2>2, <2>3, SameCount
  <2> QED
    BY <2>2, <2>3, <2>4
<1>8. \A j \in 1 .. Len(rows) : OnBoard(rows, catalogue, j)
  BY <1>1 DEF MadeWell
<1>9. DOMAIN rows = 1 .. Len(rows)
  BY BoardAssumption DEF BoardInv
<1>10. PlacesKept
  BY <1>7, <1>8, <1>9 DEF PlacesKept, OnBoard, Ids
<1> QED
  BY <1>6, <1>10

-----------------------------------------------------------------------------
(* Stages and the region of a place.                                        *)
LEMMA StageNumbers ==
    /\ DOMAIN Stages = 1 .. 6 /\ Len(Stages) = 6
    /\ \A k \in 1 .. 6 : Stages[k] # NoStage /\ RankOf(Stages[k]) = k
    /\ RankOf("advisory") = 4 /\ RankOf("attention") = 3
<1>1. DOMAIN Stages = 1 .. 6 /\ Len(Stages) = 6
  BY DEF Stages
<1>2. \A j, k \in 1 .. 6 : Stages[j] = Stages[k] => j = k
  BY DEF Stages
<1>3. \A k \in 1 .. 6 : RankOf(Stages[k]) = k
  BY <1>1, <1>2 DEF RankOf
<1>4. \A k \in 1 .. 6 : Stages[k] # NoStage
  BY DEF Stages, NoStage
<1>5. Stages[4] = "advisory" /\ Stages[3] = "attention"
  BY DEF Stages
<1>6. 4 \in 1 .. 6 /\ 3 \in 1 .. 6
  OBVIOUS
<1> QED
  BY <1>1, <1>3, <1>4, <1>5, <1>6

LEMMA StageOfGauge ==
    ASSUME BoardInv, NEW s \in DOMAIN Gauges
    PROVE  /\ station[s].stage = NoStage \/ \E k \in 1 .. 6 : station[s].stage = Stages[k]
           /\ station[s].stage = NoStage <=> station[s].quality = "missing" /\ Gauges[s].levels # {}
           /\ station[s].minutes \in Int
<1>1. station[s] \in Assessed /\ station[s] \in ResultsOf(s)
  BY DEF BoardInv
<1>2. "unrated" # NoStage
  BY DEF NoStage
<1>3. station[s].stage = NoStage <=> station[s].quality = "missing" /\ Gauges[s].levels # {}
  BY <1>1, <1>2, BoardAssumption DEF ResultsOf
<1> QED
  BY <1>1, <1>3, BoardAssumption, StageNumbers

LEMMA StageIsReached ==
    ASSUME NEW stage, stage = NoStage \/ \E k \in 1 .. 6 : stage = Stages[k], NEW floor \in {"attention", "advisory"}
    PROVE  /\ AtLeast(stage, floor) <=> \E k \in RankOf(floor) .. 6 : stage = Stages[k]
           /\ stage # NoStage => RankOf(stage) \in 1 .. 6 /\ stage = Stages[RankOf(stage)]
BY StageNumbers DEF AtLeast

LEMMA InItself ==
    ASSUME NEW r, r \notin DOMAIN RegionGroups, r # Everywhere
    PROVE  \A value : InRegion(value, r) <=> value = r
BY DEF InRegion

LEMMA RegionsAreNoGroups == ASSUME NEW r \in Regions PROVE r \notin DOMAIN RegionGroups /\ r # Everywhere
BY BoardAssumption
LEMMA MembersAreNoGroups ==
    ASSUME NEW g \in DOMAIN RegionGroups, NEW r \in RegionGroups[g]
    PROVE  r \notin DOMAIN RegionGroups /\ r # Everywhere
BY BoardAssumption

(* The gauges of an overview.                                               *)
GaugesIn(region) == {s \in DOMAIN Gauges : InRegion(Gauges[s].region, region)}
RegionsIn(region) == {Gauges[s].region : s \in GaugesIn(region)}
GaugesOf(region, r) == {s \in GaugesIn(region) : Gauges[s].region = r}

LEMMA GaugesAreFinite == ASSUME NEW T, T \subseteq DOMAIN Gauges PROVE IsFiniteSet(T) /\ Cardinality(T) \in Nat
<1>1. IsFiniteSet(T)
  BY BoardAssumption, FS_Subset
<1> QED
  BY <1>1, FS_CardinalityType

(* Counted by regions, gauges are as many as they are.                      *)
LEMMA CountedByRegion ==
    ASSUME NEW region, NEW T, NEW f, DOMAIN f = RegionsIn(region),
           \A r \in RegionsIn(region) : f[r] = Cardinality({s \in GaugesOf(region, r) : s \in T})
    PROVE  Total(f) = Cardinality({s \in GaugesIn(region) : s \in T})
<1> DEFINE U == {s \in GaugesIn(region) : s \in T}
           A == [r \in RegionsIn(region) |-> {s \in GaugesOf(region, r) : s \in T}]
<1>1. IsFiniteSet(U)
  <2>1. U \subseteq DOMAIN Gauges
    BY DEF GaugesIn
  <2> QED
    BY <2>1, GaugesAreFinite
<1>2. \A r \in DOMAIN f : A[r] \subseteq U /\ f[r] = Cardinality(A[r])
  BY DEF GaugesOf
<1>3. \A u \in U : \E r \in DOMAIN f : u \in A[r]
  BY DEF GaugesOf, RegionsIn
<1>4. \A r, q \in DOMAIN f : r # q => A[r] \cap A[q] = {}
  BY DEF GaugesOf
<1> HIDE DEF A, U
<1>5. Total(f) = Cardinality(U)
  BY <1>1, <1>2, <1>3, <1>4, SumOfParts
<1> QED
  BY <1>5 DEF U

(* Counted by stages from one on, they are those at least at it.            *)
LEMMA CountedByStage ==
    ASSUME BoardInv, NEW region, NEW low \in 1 .. 6, NEW f, DOMAIN f = low .. 6,
           \A k \in low .. 6 : f[k] = Cardinality({s \in GaugesIn(region) : station[s].stage = Stages[k]})
    PROVE  Total(f) = Cardinality({s \in GaugesIn(region) : \E k \in low .. 6 : station[s].stage = Stages[k]})
<1> DEFINE U == {s \in GaugesIn(region) : \E k \in low .. 6 : station[s].stage = Stages[k]}
           A == [k \in low .. 6 |-> {s \in GaugesIn(region) : station[s].stage = Stages[k]}]
<1>1. IsFiniteSet(U)
  <2>1. U \subseteq DOMAIN Gauges
    BY DEF GaugesIn
  <2> QED
    BY <2>1, GaugesAreFinite
<1>2. \A k \in DOMAIN f : A[k] \subseteq U /\ f[k] = Cardinality(A[k])
  OBVIOUS
<1>3. \A u \in U : \E k \in DOMAIN f : u \in A[k]
  OBVIOUS
<1>4. \A j, k \in DOMAIN f : j # k => A[j] \cap A[k] = {}
  <2> SUFFICES ASSUME NEW j \in low .. 6, NEW k \in low .. 6, NEW s \in A[j] \cap A[k] PROVE j = k
    OBVIOUS
  <2>1. Stages[j] = Stages[k] /\ j \in 1 .. 6 /\ k \in 1 .. 6
    OBVIOUS
  <2>2. RankOf(Stages[j]) = j /\ RankOf(Stages[k]) = k
    BY <2>1, StageNumbers
  <2> QED
    BY <2>1, <2>2
<1> HIDE DEF A, U
<1>5. Total(f) = Cardinality(U)
  BY <1>1, <1>2, <1>3, <1>4, SumOfParts
<1> QED
  BY <1>5 DEF U

(* The facilities linked to gauges, by the gauges and by their regions.     *)
LEMMA LinksCounted ==
    ASSUME BoardInv, NEW T, T \subseteq DOMAIN Gauges
    PROVE  /\ IsFiniteSet(UNION {{s} \X Links(s) : s \in T})
           /\ Total([s \in T |-> Cardinality(Links(s))]) = Cardinality(UNION {{s} \X Links(s) : s \in T})
<1> DEFINE U == UNION {{s} \X Links(s) : s \in T}
           A == [s \in T |-> {s} \X Links(s)]
           f == [s \in T |-> Cardinality(Links(s))]
<1>1. \A s \in T : IsFiniteSet(Links(s))
  <2> TAKE s \in T
  <2>1. IsFiniteSet(DOMAIN catalogue) /\ Links(s) \subseteq DOMAIN catalogue
    BY CatalogueIs DEF Catalogued, Links
  <2> QED
    BY <2>1, FS_Subset
<1>2. IsFiniteSet(U)
  <2>1. IsFiniteSet(T) /\ IsFiniteSet(DOMAIN catalogue)
    BY GaugesAreFinite, CatalogueIs DEF Catalogued
  <2>2. IsFiniteSet(T \X DOMAIN catalogue)
    BY <2>1, FS_Product
  <2>3. U \subseteq T \X DOMAIN catalogue
    BY DEF Links
  <2> QED
    BY <2>2, <2>3, FS_Subset
<1>3. \A s \in T : Cardinality({s} \X Links(s)) = Cardinality(Links(s))
  <2> TAKE s \in T
  <2>1. IsFiniteSet({s}) /\ Cardinality({s}) = 1
    BY FS_Singleton
  <2>2. Cardinality({s} \X Links(s)) = 1 * Cardinality(Links(s)) /\ Cardinality(Links(s)) \in Nat
    BY <1>1, <2>1, FS_Product, FS_CardinalityType
  <2> QED
    BY <2>2
<1>4. \A s \in DOMAIN f : A[s] \subseteq U /\ f[s] = Cardinality(A[s])
  BY <1>3
<1>5. \A u \in U : \E s \in DOMAIN f : u \in A[s]
  OBVIOUS
<1>6. \A s, t \in DOMAIN f : s # t => A[s] \cap A[t] = {}
  OBVIOUS
<1> HIDE DEF A, U, f
<1>7. Total(f) = Cardinality(U)
  BY <1>2, <1>4, <1>5, <1>6, SumOfParts
<1> QED
  BY <1>2, <1>7 DEF U, f

LEMMA LinksByRegion ==
    ASSUME BoardInv, NEW region, NEW f, DOMAIN f = RegionsIn(region),
           \A r \in RegionsIn(region) : f[r] = Total([s \in GaugesOf(region, r) |-> Cardinality(Links(s))])
    PROVE  Total(f) = Total([s \in GaugesIn(region) |-> Cardinality(Links(s))])
<1> DEFINE All(T) == UNION {{s} \X Links(s) : s \in T}
           A == [r \in RegionsIn(region) |-> All(GaugesOf(region, r))]
           U == All(GaugesIn(region))
<1>1. GaugesIn(region) \subseteq DOMAIN Gauges /\ \A r : GaugesOf(region, r) \subseteq GaugesIn(region)
  BY DEF GaugesIn, GaugesOf
<1>2. IsFiniteSet(U) /\ Total([s \in GaugesIn(region) |-> Cardinality(Links(s))]) = Cardinality(U)
  BY <1>1, LinksCounted
<1>3. \A r \in DOMAIN f : A[r] \subseteq U /\ f[r] = Cardinality(A[r])
  <2> TAKE r \in DOMAIN f
  <2>1. f[r] = Cardinality(All(GaugesOf(region, r)))
    <3>1. GaugesOf(region, r) \subseteq DOMAIN Gauges
      BY <1>1
    <3> QED
      BY <3>1, LinksCounted
  <2> QED
    BY <1>1, <2>1
<1>4. \A u \in U : \E r \in DOMAIN f : u \in A[r]
  <2> TAKE u \in U
  <2>1. PICK s \in GaugesIn(region) : u \in {s} \X Links(s)
    OBVIOUS
  <2>2. Gauges[s].region \in RegionsIn(region) /\ s \in GaugesOf(region, Gauges[s].region)
    BY DEF RegionsIn, GaugesOf
  <2> QED
    BY <2>1, <2>2
<1>5. \A r, q \in DOMAIN f : r # q => A[r] \cap A[q] = {}
  <2> SUFFICES ASSUME NEW r \in RegionsIn(region), NEW q \in RegionsIn(region), NEW u \in A[r] \cap A[q] PROVE r = q
    OBVIOUS
  <2>1. PICK s \in GaugesOf(region, r) : u \in {s} \X Links(s)
    OBVIOUS
  <2>2. PICK t \in GaugesOf(region, q) : u \in {t} \X Links(t)
    OBVIOUS
  <2>3. s = t
    BY <2>1, <2>2
  <2> QED
    BY <2>3 DEF GaugesOf
<1> HIDE DEF A, U
<1>6. Total(f) = Cardinality(U)
  BY <1>2, <1>3, <1>4, <1>5, SumOfParts
<1> QED
  BY <1>2, <1>6

(* Two sets that share nothing.                                             *)
LEMMA CountedApart ==
    ASSUME NEW S, IsFiniteSet(S), NEW T, T \subseteq S
    PROVE  /\ Cardinality(S) = Cardinality(T) + Cardinality(S \ T)
           /\ Cardinality(S) \in Nat /\ Cardinality(T) \in Nat /\ Cardinality(S \ T) \in Nat
<1>1. IsFiniteSet(T) /\ IsFiniteSet(S \ T) /\ S \cap T = T
  BY FS_Subset, FS_Difference
<1>2. Cardinality(S \ T) = Cardinality(S) - Cardinality(T)
  BY <1>1, FS_Difference
<1>3. Cardinality(S) \in Nat /\ Cardinality(T) \in Nat /\ Cardinality(S \ T) \in Nat
  BY <1>1, FS_CardinalityType
<1> QED
  BY <1>2, <1>3

(* The rain gauges with something in them, by their regions: those of the   *)
(* regions with a gauge, and the others.                                    *)
RainIn(region) == {g \in Reporting : InRegion(RainGauges[g].region, region)}
Rains == {g \in Reporting : Intensity(g) > 0}
LEMMA ReportingIsFinite ==
    ASSUME BoardInv
    PROVE  /\ Reporting \subseteq DOMAIN RainGauges
           /\ \A T : T \subseteq Reporting => IsFiniteSet(T) /\ Cardinality(T) \in Nat
           /\ \A g \in Reporting : Intensity(g) \in Nat
<1>1. Reporting \subseteq {g \in DOMAIN RainGauges : fall[g] # {}}
  BY DEF Reporting, BoardInv
<1>2. ASSUME NEW T, T \subseteq Reporting PROVE IsFiniteSet(T) /\ Cardinality(T) \in Nat
  <2>1. IsFiniteSet(T)
    BY <1>1, <1>2, BoardAssumption, FS_Subset
  <2> QED
    BY <2>1, FS_CardinalityType
<1>3. ASSUME NEW g \in Reporting PROVE Intensity(g) \in Nat
  <2>1. fall[g] # {} /\ fall[g] \subseteq Slot
    BY <1>1 DEF BoardInv
  <2>2. (CHOOSE x \in fall[g] : TRUE) \in Slot
    BY <2>1
  <2>3. Intensity(g) \in Amounts
    BY <2>2 DEF Intensity, Slot
  <2> QED
    BY <2>3, BoardAssumption
<1> QED
  BY <1>1, <1>2, <1>3

LEMMA RainByRegion ==
    ASSUME BoardInv, NEW region, NEW f, NEW h,
           DOMAIN f = RegionsIn(region), DOMAIN h = {x \in Regions \ RegionsIn(region) : InRegion(x, region)},
           \A r \in DOMAIN f : f[r] = Cardinality({g \in Reporting : RainGauges[g].region = r /\ g \in Rains}),
           \A r \in DOMAIN h : h[r] = Cardinality({g \in Reporting : RainGauges[g].region = r /\ g \in Rains})
    PROVE  Total(f) + Total(h) = Cardinality({g \in RainIn(region) : g \in Rains})
<1> DEFINE S == {g \in RainIn(region) : g \in Rains}
           T == {g \in S : RainGauges[g].region \in RegionsIn(region)}
           A == [r \in RegionsIn(region) |-> {g \in Reporting : RainGauges[g].region = r /\ g \in Rains}]
           B == [r \in DOMAIN h |-> {g \in Reporting : RainGauges[g].region = r /\ g \in Rains}]
<1>1. IsFiniteSet(S) /\ IsFiniteSet(T) /\ IsFiniteSet(S \ T)
  <2>1. S \subseteq Reporting /\ T \subseteq Reporting /\ S \ T \subseteq Reporting
    BY DEF RainIn
  <2> HIDE DEF S, T
  <2> QED
    BY <2>1, ReportingIsFinite
<1>2. Total(f) = Cardinality(T)
  <2>1. \A r \in DOMAIN f : A[r] \subseteq T /\ f[r] = Cardinality(A[r])
    <3> TAKE r \in DOMAIN f
    <3>1. InRegion(r, region)
      BY DEF RegionsIn, GaugesIn
    <3> QED
      BY <3>1 DEF RainIn
  <2>2. \A u \in T : \E r \in DOMAIN f : u \in A[r]
    BY DEF RainIn
  <2>3. \A r, q \in DOMAIN f : r # q => A[r] \cap A[q] = {}
    OBVIOUS
  <2> HIDE DEF A, T
  <2> QED
    BY <1>1, <2>1, <2>2, <2>3, SumOfParts
<1>3. Total(h) = Cardinality(S \ T)
  <2>1. \A r \in DOMAIN h : B[r] \subseteq S \ T /\ h[r] = Cardinality(B[r])
    BY DEF RainIn
  <2>2. \A u \in S \ T : \E r \in DOMAIN h : u \in B[r]
    <3> TAKE u \in S \ T
    <3>1. u \in DOMAIN RainGauges /\ u \in Reporting /\ u \in Rains
      BY ReportingIsFinite DEF RainIn
    <3>2. RainGauges[u].region \in Regions
      BY <3>1 DEF Regions
    <3>3. RainGauges[u].region \in DOMAIN h
      BY <3>2 DEF RainIn
    <3> QED
      BY <3>1, <3>3
  <2>3. \A r, q \in DOMAIN h : r # q => B[r] \cap B[q] = {}
    OBVIOUS
  <2> HIDE DEF B, T, S
  <2> QED
    BY <1>1, <2>1, <2>2, <2>3, SumOfParts
<1>4. T \subseteq S
  OBVIOUS
<1> HIDE DEF S, T
<1>5. Cardinality(S) = Cardinality(T) + Cardinality(S \ T)
  BY <1>1, <1>4, CountedApart
<1> QED
  BY <1>2, <1>3, <1>5 DEF S

(* What an overview counts.                                                 *)
StagesIn(region) == [k \in DOMAIN Stages |-> Cardinality({s \in GaugesIn(region) : station[s].stage = Stages[k]})]
GradesIn(region) == [q \in Grades |-> Cardinality({s \in GaugesIn(region) : station[s].quality = q})]
LinksOf(T) == Total([s \in T |-> Cardinality(Links(s))])
HighestOf(T) == Max({1} \cup {RankOf(station[s].stage) : s \in {x \in T : station[x].stage # NoStage}})
AdvisoryOf(T) == Cardinality({s \in T : AtLeast(station[s].stage, "advisory")})
RainOf(r) == Cardinality({g \in Reporting : RainGauges[g].region = r /\ g \in Rains})
LEMMA OverviewCounts ==
    ASSUME NEW region, NEW floor, NEW limit
    PROVE  LET o == Overview(region, floor, limit)
           IN /\ o.by_stage = StagesIn(region) /\ o.quality = GradesIn(region)
              /\ o.total = Cardinality(GaugesIn(region)) /\ o.facilities = LinksOf(GaugesIn(region))
              /\ DOMAIN o.regions = RegionsIn(region) /\ o.rain = RainSummary(region)
              /\ \A r \in RegionsIn(region) :
                    /\ o.regions[r].stations = Cardinality(GaugesOf(region, r))
                    /\ o.regions[r].max_stage = HighestOf(GaugesOf(region, r))
                    /\ o.regions[r].advisory = AdvisoryOf(GaugesOf(region, r))
                    /\ o.regions[r].facilities = LinksOf(GaugesOf(region, r))
                    /\ o.regions[r].raining = RainOf(r)
<1> DEFINE o == Overview(region, floor, limit)
<1>1. o.by_stage = StagesIn(region) /\ o.quality = GradesIn(region) /\ o.total = Cardinality(GaugesIn(region))
  BY DEF Overview, GaugesIn, StagesIn, GradesIn
<1>2. o.facilities = LinksOf(GaugesIn(region))
  BY DEF Overview, GaugesIn, LinksOf
<1>3. DOMAIN o.regions = RegionsIn(region) /\ o.rain = RainSummary(region)
  BY DEF Overview, GaugesIn, RegionsIn
<1>4. ASSUME NEW r \in RegionsIn(region)
      PROVE  /\ o.regions[r].stations = Cardinality(GaugesOf(region, r))
             /\ o.regions[r].max_stage = HighestOf(GaugesOf(region, r))
             /\ o.regions[r].advisory = AdvisoryOf(GaugesOf(region, r))
             /\ o.regions[r].facilities = LinksOf(GaugesOf(region, r))
             /\ o.regions[r].raining = RainOf(r)
  <2> DEFINE rain == IF GaugesOf(region, r) = {} THEN {} ELSE {g \in Reporting : RainGauges[g].region = r}
             wet == Cardinality({g \in rain : Intensity(g) > 0})
             heavy == Cardinality({g \in rain : Intensity(g) >= Heavy})
  <2>1. GaugesOf(region, r) # {}
    BY DEF RegionsIn, GaugesOf
  <2>2. wet = RainOf(r)
    <3>1. {g \in rain : Intensity(g) > 0} = {g \in Reporting : RainGauges[g].region = r /\ g \in Rains}
      BY <2>1 DEF Rains
    <3> QED
      BY <3>1 DEF RainOf
  <2>3. o.regions[r] = [stations |-> Cardinality(GaugesOf(region, r)), max_stage |-> HighestOf(GaugesOf(region, r)),
                        advisory |-> AdvisoryOf(GaugesOf(region, r)), facilities |-> LinksOf(GaugesOf(region, r)),
                        raining |-> wet, heavy |-> heavy]
    <3>1. r \in {Gauges[s].region : s \in {x \in DOMAIN Gauges : InRegion(Gauges[x].region, region)}}
      BY DEF RegionsIn, GaugesIn
    <3> QED
      BY <3>1 DEF Overview, GaugesIn, GaugesOf, HighestOf, AdvisoryOf, LinksOf
  <2> HIDE DEF o, wet, heavy
  <2> QED
    BY <2>2, <2>3
<1> QED
  BY <1>1, <1>2, <1>3, <1>4

LEMMA HighestStage ==
    ASSUME BoardInv, NEW T, T \subseteq DOMAIN Gauges
    PROVE  AdvisoryOf(T) > 0 <=> HighestOf(T) >= RankOf("advisory")
<1> DEFINE ranks == {1} \cup {RankOf(station[s].stage) : s \in {x \in T : station[x].stage # NoStage}}
           high == {s \in T : AtLeast(station[s].stage, "advisory")}
<1>1. \A s \in T : station[s].stage # NoStage => RankOf(station[s].stage) \in 1 .. 6
  BY StageOfGauge, StageIsReached
<1>2. ranks \subseteq 1 .. 6 /\ ranks # {}
  BY <1>1
<1>3. Max(ranks) \in ranks /\ \A y \in ranks : y <= Max(ranks)
  <2> HIDE DEF ranks
  <2> QED
    BY <1>2, GreatestBelow
<1>4. Cardinality(high) > 0 <=> high # {}
  <2>1. high \subseteq DOMAIN Gauges
    OBVIOUS
  <2>2. IsFiniteSet(high) /\ Cardinality(high) \in Nat
    BY <2>1, GaugesAreFinite
  <2>3. Cardinality(high) = 0 <=> high = {}
    BY <2>2, FS_EmptySet
  <2> QED
    BY <2>2, <2>3
<1> DEFINE top == Max(ranks)
<1>5. top \in Int /\ RankOf("advisory") = 4
  BY <1>2, <1>3, StageNumbers
<1>6. ASSUME NEW s \in high PROVE top >= 4
  <2>1. station[s].stage # NoStage /\ RankOf(station[s].stage) >= 4
    BY <1>5 DEF AtLeast
  <2>2. RankOf(station[s].stage) \in ranks
    BY <2>1
  <2>3. RankOf(station[s].stage) <= top /\ RankOf(station[s].stage) \in Int
    BY <1>3, <2>2, <1>1, <2>1
  <2> HIDE DEF top
  <2> QED
    BY <1>5, <2>1, <2>3
<1>7. ASSUME top >= 4 PROVE high # {}
  <2>0. top \in ranks
    BY <1>3, Zenon
  <2>1. top \in ranks /\ top # 1
    <3> HIDE DEF top, ranks
    <3> QED
      BY <2>0, <1>5, <1>7
  <2>2. PICK s \in T : station[s].stage # NoStage /\ top = RankOf(station[s].stage)
    <3> HIDE DEF top
    <3> QED
      BY <2>1
  <2>3. AtLeast(station[s].stage, "advisory")
    BY <1>5, <1>7, <2>2 DEF AtLeast
  <2> QED
    BY <2>3
<1> HIDE DEF top, high
<1> QED
  BY <1>4, <1>5, <1>6, <1>7 DEF top, high, AdvisoryOf, HighestOf

(* The rows of the facilities, one for each place of the catalogue.         *)
LEMMA RowsCounted ==
    ASSUME BoardInv, NEW T, T \subseteq {FacilityRow(i) : i \in DOMAIN catalogue}
    PROVE  IsFiniteSet(T) /\ Cardinality(T) = Cardinality({i \in DOMAIN catalogue : FacilityRow(i) \in T})
<1> DEFINE D == {i \in DOMAIN catalogue : FacilityRow(i) \in T}
           g == [i \in D |-> FacilityRow(i)]
<1>1. \A i : FacilityRow(i).at = i
  BY DEF FacilityRow
<1>2. IsFiniteSet(D)
  BY CatalogueIs, FS_Subset DEF Catalogued
<1>3. \A i, j \in D : g[i] = g[j] => i = j
  BY <1>1
<1>4. {g[i] : i \in D} = T
  OBVIOUS
<1>5. DOMAIN g = D
  OBVIOUS
<1> HIDE DEF g, D
<1>6. IsFiniteSet({g[i] : i \in D}) /\ Cardinality({g[i] : i \in D}) = Cardinality(D)
  BY <1>2, <1>3, <1>5, SameCount
<1> QED
  BY <1>4, <1>6 DEF D

PlacesIn(region) == {i \in DOMAIN catalogue : InRegion(catalogue[i].region, region)}
LEMMA FacilityCounts ==
    ASSUME BoardInv, NEW region
    PROVE  LET f == FacilityStatus(region, Everywhere)
           IN /\ f.total = Cardinality(PlacesIn(region))
              /\ f.advisory = Cardinality({i \in PlacesIn(region) : AtLeast(FacilityRow(i).stage, "advisory")})
<1> DEFINE f == FacilityStatus(region, Everywhere)
           all == {FacilityRow(i) : i \in DOMAIN catalogue}
           out == {x \in all : InRegion(x.region, region) /\ Everywhere \in {Everywhere, x.group}}
           high == {x \in out : AtLeast(x.stage, "advisory")}
<1>1. f.total = Cardinality(out) /\ f.advisory = Cardinality(high)
  BY DEF FacilityStatus
<1>2. \A i \in DOMAIN catalogue : FacilityRow(i).region = catalogue[i].region
  BY DEF FacilityRow
<1>3. {i \in DOMAIN catalogue : FacilityRow(i) \in out} = PlacesIn(region)
  BY <1>2 DEF PlacesIn
<1>4. {i \in DOMAIN catalogue : FacilityRow(i) \in high} = {i \in PlacesIn(region) : AtLeast(FacilityRow(i).stage, "advisory")}
  BY <1>2 DEF PlacesIn
<1>5. out \subseteq all /\ high \subseteq all
  OBVIOUS
<1> HIDE DEF f, out, high
<1>6. Cardinality(out) = Cardinality({i \in DOMAIN catalogue : FacilityRow(i) \in out})
  BY <1>5, RowsCounted
<1>7. Cardinality(high) = Cardinality({i \in DOMAIN catalogue : FacilityRow(i) \in high})
  BY <1>5, RowsCounted
<1> QED
  BY <1>1, <1>3, <1>4, <1>6, <1>7 DEF f

(* A group's counts are those of its regions.                               *)
LEMMA GroupGauges ==
    ASSUME BoardInv, NEW region \in DOMAIN RegionGroups, NEW T, NEW f, DOMAIN f = RegionGroups[region],
           \A r \in RegionGroups[region] : f[r] = Cardinality({s \in GaugesIn(r) : s \in T})
    PROVE  Total(f) = Cardinality({s \in GaugesIn(region) : s \in T})
<1> DEFINE U == {s \in GaugesIn(region) : s \in T}
           A == [r \in RegionGroups[region] |-> {s \in GaugesIn(r) : s \in T}]
<1>1. \A value : InRegion(value, region) <=> value \in RegionGroups[region]
  BY BoardAssumption DEF InRegion
<1>2. \A r \in RegionGroups[region] : \A value : InRegion(value, r) <=> value = r
  BY MembersAreNoGroups, InItself
<1>3. IsFiniteSet(U)
  <2>1. U \subseteq DOMAIN Gauges
    BY DEF GaugesIn
  <2> QED
    BY <2>1, GaugesAreFinite
<1>4. \A r \in DOMAIN f : A[r] \subseteq U /\ f[r] = Cardinality(A[r])
  BY <1>1, <1>2 DEF GaugesIn
<1>5. \A u \in U : \E r \in DOMAIN f : u \in A[r]
  BY <1>1, <1>2 DEF GaugesIn
<1>6. \A r, q \in DOMAIN f : r # q => A[r] \cap A[q] = {}
  BY <1>2 DEF GaugesIn
<1> HIDE DEF A, U
<1>7. Total(f) = Cardinality(U)
  BY <1>3, <1>4, <1>5, <1>6, SumOfParts
<1> QED
  BY <1>7 DEF U

LEMMA GroupPlaces ==
    ASSUME BoardInv, NEW region \in DOMAIN RegionGroups, NEW f, DOMAIN f = RegionGroups[region],
           \A r \in RegionGroups[region] : f[r] = Cardinality(PlacesIn(r))
    PROVE  Total(f) = Cardinality(PlacesIn(region))
<1> DEFINE U == PlacesIn(region)
           A == [r \in RegionGroups[region] |-> PlacesIn(r)]
<1>1. \A value : InRegion(value, region) <=> value \in RegionGroups[region]
  BY BoardAssumption DEF InRegion
<1>2. \A r \in RegionGroups[region] : \A value : InRegion(value, r) <=> value = r
  BY MembersAreNoGroups, InItself
<1>3. IsFiniteSet(U)
  BY CatalogueIs, FS_Subset DEF Catalogued, PlacesIn
<1>4. \A r \in DOMAIN f : A[r] \subseteq U /\ f[r] = Cardinality(A[r])
  BY <1>1, <1>2 DEF PlacesIn
<1>5. \A u \in U : \E r \in DOMAIN f : u \in A[r]
  BY <1>1, <1>2 DEF PlacesIn
<1>6. \A r, q \in DOMAIN f : r # q => A[r] \cap A[q] = {}
  BY <1>2 DEF PlacesIn
<1> HIDE DEF A, U
<1>7. Total(f) = Cardinality(U)
  BY <1>3, <1>4, <1>5, <1>6, SumOfParts
<1> QED
  BY <1>7 DEF U

LEMMA RegionsDoAddUp == ASSUME BoardInv PROVE RegionsAddUp
<1> SUFFICES ASSUME NEW region \in Filters
             PROVE  LET o == Overview(region, NoStage, 1)
                        listed == DOMAIN o.regions
                    IN /\ Total([r \in listed |-> o.regions[r].stations]) = o.total
                       /\ Total([r \in listed |-> o.regions[r].advisory]) = Above(o, "advisory")
                       /\ Total(o.by_stage) =
                             o.total - Cardinality({s \in Expected(region) : station[s].quality = "missing"})
                       /\ Total([r \in listed |-> o.regions[r].facilities]) = o.facilities
                       /\ Total([r \in listed |-> o.regions[r].raining])
                            + Total([r \in {x \in Regions \ listed : InRegion(x, region)} |-> RainSummary(r).raining]) = o.rain.raining
                       /\ \A r \in listed : o.regions[r].advisory > 0 <=> o.regions[r].max_stage >= RankOf("advisory")
                       /\ region \in DOMAIN RegionGroups =>
                             /\ \A k \in DOMAIN Stages :
                                   o.by_stage[k] = Total([r \in RegionGroups[region] |-> Overview(r, NoStage, 1).by_stage[k]])
                             /\ FacilityStatus(region, Everywhere).total =
                                   Total([r \in RegionGroups[region] |-> FacilityStatus(r, Everywhere).total])
  BY DEF RegionsAddUp
<1> DEFINE o == Overview(region, NoStage, 1)
           all == GaugesIn(region)
           L == RegionsIn(region)
<1>1. /\ o.by_stage = StagesIn(region) /\ o.quality = GradesIn(region) /\ o.total = Cardinality(all)
      /\ o.facilities = LinksOf(all) /\ DOMAIN o.regions = L /\ o.rain = RainSummary(region)
  BY OverviewCounts
<1>2. \A r \in L :
          /\ o.regions[r].stations = Cardinality(GaugesOf(region, r))
          /\ o.regions[r].max_stage = HighestOf(GaugesOf(region, r))
          /\ o.regions[r].advisory = AdvisoryOf(GaugesOf(region, r))
          /\ o.regions[r].facilities = LinksOf(GaugesOf(region, r))
          /\ o.regions[r].raining = RainOf(r)
  BY OverviewCounts
<1> HIDE DEF o
<1>3. all \subseteq DOMAIN Gauges /\ \A r : GaugesOf(region, r) \subseteq all
  BY DEF GaugesIn, GaugesOf
<1>4. Total([r \in L |-> o.regions[r].stations]) = o.total
  <2> DEFINE f == [r \in L |-> o.regions[r].stations]
  <2>1. \A r \in L : {s \in GaugesOf(region, r) : s \in all} = GaugesOf(region, r)
    BY <1>3
  <2>2. DOMAIN f = L /\ \A r \in L : f[r] = Cardinality({s \in GaugesOf(region, r) : s \in all})
    BY <1>2, <2>1
  <2> HIDE DEF f
  <2>3. Total(f) = Cardinality({s \in all : s \in all})
    BY <2>2, CountedByRegion
  <2>4. {s \in all : s \in all} = all
    OBVIOUS
  <2> QED
    BY <1>1, <2>3, <2>4 DEF f
<1> DEFINE high == {s \in DOMAIN Gauges : AtLeast(station[s].stage, "advisory")}
<1>5. \A s \in all : s \in high <=> \E k \in 4 .. 6 : station[s].stage = Stages[k]
  BY <1>3, StageOfGauge, StageIsReached, StageNumbers
<1>6. Total([r \in L |-> o.regions[r].advisory]) = Above(o, "advisory")
  <2> DEFINE f == [r \in L |-> o.regions[r].advisory]
             h == [k \in RankOf("advisory") .. Len(Stages) |-> o.by_stage[k]]
  <2>1. \A r \in L : {s \in GaugesOf(region, r) : s \in high} = {s \in GaugesOf(region, r) : AtLeast(station[s].stage, "advisory")}
    BY <1>3
  <2>2. DOMAIN f = L /\ \A r \in L : f[r] = Cardinality({s \in GaugesOf(region, r) : s \in high})
    BY <1>2, <2>1 DEF AdvisoryOf
  <2>3. DOMAIN h = 4 .. 6 /\ \A k \in 4 .. 6 : h[k] = Cardinality({s \in all : station[s].stage = Stages[k]})
    <3>1. RankOf("advisory") = 4 /\ Len(Stages) = 6 /\ 4 .. 6 \subseteq DOMAIN Stages
      BY StageNumbers
    <3> QED
      BY <1>1, <3>1 DEF StagesIn
  <2>4. {s \in all : s \in high} = {s \in all : \E k \in 4 .. 6 : station[s].stage = Stages[k]}
    BY <1>5
  <2> HIDE DEF f, h, high
  <2>5. Total(f) = Cardinality({s \in all : s \in high})
    BY <2>2, CountedByRegion
  <2>6. Total(h) = Cardinality({s \in all : \E k \in 4 .. 6 : station[s].stage = Stages[k]})
    <3>1. 4 \in 1 .. 6
      OBVIOUS
    <3> QED
      BY <2>3, <3>1, CountedByStage
  <2> QED
    BY <2>4, <2>5, <2>6 DEF f, h, Above
<1>7. Total(o.by_stage) = o.total - Cardinality({s \in Expected(region) : station[s].quality = "missing"})
  <2> DEFINE h == o.by_stage
             seen == {s \in all : \E k \in 1 .. 6 : station[s].stage = Stages[k]}
             missing == {s \in Expected(region) : station[s].quality = "missing"}
  <2>1. DOMAIN h = 1 .. 6 /\ \A k \in 1 .. 6 : h[k] = Cardinality({s \in all : station[s].stage = Stages[k]})
    BY <1>1, StageNumbers DEF StagesIn
  <2>2. all \subseteq DOMAIN Gauges /\ \A s : s \in missing <=> s \in all /\ Gauges[s].levels # {} /\ station[s].quality = "missing"
    BY DEF Expected, GaugesIn
  <2>3. missing \subseteq all /\ all \ missing = seen
    BY <2>2, StageOfGauge, StageNumbers
  <2>4. IsFiniteSet(all)
    BY <1>3, GaugesAreFinite
  <2> HIDE DEF h, seen, missing
  <2>5. Total(h) = Cardinality(seen)
    <3>1. 1 \in 1 .. 6
      OBVIOUS
    <3> QED
      BY <2>1, <3>1, CountedByStage DEF seen
  <2>6. /\ Cardinality(all) = Cardinality(missing) + Cardinality(seen)
        /\ Cardinality(all) \in Nat /\ Cardinality(missing) \in Nat /\ Cardinality(seen) \in Nat
    BY <2>3, <2>4, CountedApart
  <2>7. Cardinality(seen) = Cardinality(all) - Cardinality(missing)
    BY <2>6
  <2> QED
    BY <1>1, <2>5, <2>7 DEF h, missing
<1>8. Total([r \in L |-> o.regions[r].facilities]) = o.facilities
  <2> DEFINE f == [r \in L |-> o.regions[r].facilities]
  <2>1. DOMAIN f = L /\ \A r \in L : f[r] = Total([s \in GaugesOf(region, r) |-> Cardinality(Links(s))])
    BY <1>2 DEF LinksOf
  <2> HIDE DEF f
  <2>2. Total(f) = Total([s \in all |-> Cardinality(Links(s))])
    BY <2>1, LinksByRegion
  <2> QED
    BY <1>1, <2>2 DEF f, LinksOf
<1>9. Total([r \in L |-> o.regions[r].raining])
        + Total([r \in {x \in Regions \ L : InRegion(x, region)} |-> RainSummary(r).raining]) = o.rain.raining
  <2> DEFINE f == [r \in L |-> o.regions[r].raining]
             h == [r \in {x \in Regions \ L : InRegion(x, region)} |-> RainSummary(r).raining]
  <2>1. ASSUME NEW r PROVE RainSummary(r).raining = Cardinality({g \in RainIn(r) : g \in Rains})
    <3>1. {g \in RainIn(r) : g \in Rains} = {g \in RainIn(r) : Intensity(g) > 0}
      BY DEF RainIn, Rains
    <3> QED
      BY <3>1 DEF RainSummary, RainIn
  <2>2. ASSUME NEW r \in Regions
        PROVE  {g \in RainIn(r) : g \in Rains} = {g \in Reporting : RainGauges[g].region = r /\ g \in Rains}
    BY RegionsAreNoGroups, InItself DEF RainIn
  <2>3. DOMAIN f = L /\ DOMAIN h = {x \in Regions \ L : InRegion(x, region)}
    OBVIOUS
  <2>4. \A r \in DOMAIN f : f[r] = Cardinality({g \in Reporting : RainGauges[g].region = r /\ g \in Rains})
    BY <1>2 DEF RainOf
  <2>5. \A r \in DOMAIN h : h[r] = Cardinality({g \in Reporting : RainGauges[g].region = r /\ g \in Rains})
    <3> TAKE r \in DOMAIN h
    <3>1. r \in Regions /\ h[r] = RainSummary(r).raining
      OBVIOUS
    <3> HIDE DEF h
    <3> QED
      BY <2>1, <2>2, <3>1
  <2> HIDE DEF f, h
  <2>6. Total(f) + Total(h) = Cardinality({g \in RainIn(region) : g \in Rains})
    BY <2>3, <2>4, <2>5, RainByRegion
  <2>7. o.rain.raining = Cardinality({g \in RainIn(region) : g \in Rains})
    BY <1>1, <2>1
  <2> QED
    BY <2>6, <2>7 DEF f, h
<1>10. \A r \in L : o.regions[r].advisory > 0 <=> o.regions[r].max_stage >= RankOf("advisory")
  <2> TAKE r \in L
  <2>1. GaugesOf(region, r) \subseteq DOMAIN Gauges
    BY <1>3
  <2> QED
    BY <1>2, <2>1, HighestStage
<1>11. ASSUME region \in DOMAIN RegionGroups, NEW k \in DOMAIN Stages
       PROVE  o.by_stage[k] = Total([r \in RegionGroups[region] |-> Overview(r, NoStage, 1).by_stage[k]])
  <2> DEFINE f == [r \in RegionGroups[region] |-> Overview(r, NoStage, 1).by_stage[k]]
             T == {s \in DOMAIN Gauges : station[s].stage = Stages[k]}
  <2>1. ASSUME NEW q PROVE {s \in GaugesIn(q) : s \in T} = {s \in GaugesIn(q) : station[s].stage = Stages[k]}
    BY DEF GaugesIn
  <2>2. ASSUME NEW r \in RegionGroups[region] PROVE f[r] = Cardinality({s \in GaugesIn(r) : s \in T})
    <3>1. Overview(r, NoStage, 1).by_stage = StagesIn(r)
      BY OverviewCounts
    <3> QED
      BY <2>1, <3>1 DEF StagesIn
  <2>3. DOMAIN f = RegionGroups[region]
    OBVIOUS
  <2>4. o.by_stage[k] = Cardinality({s \in all : s \in T})
    BY <1>1, <2>1 DEF StagesIn
  <2> HIDE DEF f, T
  <2>5. Total(f) = Cardinality({s \in all : s \in T})
    BY <1>11, <2>2, <2>3, GroupGauges
  <2> QED
    BY <2>4, <2>5 DEF f
<1>12. ASSUME region \in DOMAIN RegionGroups
       PROVE  FacilityStatus(region, Everywhere).total = Total([r \in RegionGroups[region] |-> FacilityStatus(r, Everywhere).total])
  <2> DEFINE f == [r \in RegionGroups[region] |-> FacilityStatus(r, Everywhere).total]
  <2>1. DOMAIN f = RegionGroups[region] /\ \A r \in RegionGroups[region] : f[r] = Cardinality(PlacesIn(r))
    BY FacilityCounts
  <2> HIDE DEF f
  <2>2. Total(f) = Cardinality(PlacesIn(region))
    BY <1>12, <2>1, GroupPlaces
  <2>3. FacilityStatus(region, Everywhere).total = Cardinality(PlacesIn(region))
    BY FacilityCounts
  <2> QED
    BY <2>2, <2>3 DEF f
<1> HIDE DEF L, all
<1> QED
  BY <1>1, <1>4, <1>6, <1>7, <1>8, <1>9, <1>10, <1>11, <1>12 DEF o

-----------------------------------------------------------------------------
(* A place is at a stage when its gauge is.                                 *)
LEMMA StageOfPlace ==
    ASSUME BoardInv, NEW i \in DOMAIN catalogue
    PROVE  LET f == FacilityRow(i)
           IN /\ f.stage = NoStage \/ \E k \in 1 .. 6 : f.stage = Stages[k]
              /\ AtLeast(f.stage, "advisory") <=> \E s \in catalogue[i].gauge : AtLeast(station[s].stage, "advisory")
              /\ f.minutes \in Int /\ f.at = i
<1> DEFINE g == catalogue[i].gauge
           s == CHOOSE x \in g : TRUE
<1>1. g \subseteq DOMAIN Gauges /\ \A x, y \in g : x = y
  BY CatalogueIs DEF Catalogued, Entry
<1>2. FacilityRow(i).at = i
  BY DEF FacilityRow
<1>3. CASE g = {}
  <2>1. FacilityRow(i).stage = NoStage /\ FacilityRow(i).minutes = Never
    BY <1>3 DEF FacilityRow
  <2> QED
    BY <1>2, <1>3, <2>1 DEF AtLeast, Never
<1>4. CASE g # {}
  <2>1. FacilityRow(i).stage = station[s].stage /\ FacilityRow(i).minutes = station[s].minutes
    BY <1>4 DEF FacilityRow
  <2>2. s \in g /\ \A x \in g : x = s
    BY <1>1, <1>4
  <2> HIDE DEF s, g
  <2>3. s \in DOMAIN Gauges
    BY <1>1, <2>2
  <2>4. AtLeast(station[s].stage, "advisory") <=> \E x \in g : AtLeast(station[x].stage, "advisory")
    BY <2>2
  <2> QED
    BY <1>2, <2>1, <2>3, <2>4, StageOfGauge DEF g
<1> QED
  BY <1>3, <1>4

LEMMA BoardsDoAgree == ASSUME BoardInv PROVE BoardsAgree
<1> SUFFICES ASSUME NEW region \in Regions \cup {Everywhere}
             PROVE  LET f == FacilityStatus(region, Everywhere)
                        in(s) == InRegion(Gauges[s].region, region)
                        counted == {i \in DOMAIN catalogue : \E s \in catalogue[i].gauge : in(s) /\ AtLeast(station[s].stage, "advisory")}
                        here == {i \in DOMAIN catalogue : InRegion(catalogue[i].region, region)}
                    IN f.advisory - Cardinality(counted) =
                          Cardinality({i \in here : \E s \in catalogue[i].gauge : ~in(s) /\ AtLeast(station[s].stage, "advisory")})
                          - Cardinality(counted \ here)
  BY DEF BoardsAgree
<1> DEFINE f == FacilityStatus(region, Everywhere)
           in(s) == InRegion(Gauges[s].region, region)
           high(s) == AtLeast(station[s].stage, "advisory")
           counted == {i \in DOMAIN catalogue : \E s \in catalogue[i].gauge : in(s) /\ high(s)}
           here == {i \in DOMAIN catalogue : InRegion(catalogue[i].region, region)}
           shown == {i \in here : AtLeast(FacilityRow(i).stage, "advisory")}
           elsewhere == {i \in here : \E s \in catalogue[i].gauge : ~in(s) /\ high(s)}
<1>1. f.advisory = Cardinality(shown)
  <2>1. here = PlacesIn(region)
    BY DEF PlacesIn
  <2> HIDE DEF here, f
  <2> QED
    BY <2>1, FacilityCounts DEF f
<1>2. \A i \in DOMAIN catalogue : /\ AtLeast(FacilityRow(i).stage, "advisory") <=> \E s \in catalogue[i].gauge : high(s)
                                  /\ \A s, t \in catalogue[i].gauge : s = t
  BY StageOfPlace, CatalogueIs DEF Catalogued, Entry
<1> DEFINE both == shown \cap counted
<1> HIDE DEF f, in, high
<1>3. shown \ both = elsewhere
  BY <1>2
<1>4. counted \ both = counted \ here
  BY <1>2
<1>5. IsFiniteSet(shown) /\ IsFiniteSet(counted)
  BY CatalogueIs, FS_Subset DEF Catalogued
<1>6. both \subseteq shown /\ both \subseteq counted
  OBVIOUS
<1> HIDE DEF shown, counted, both, here, elsewhere
<1>7. /\ Cardinality(shown) = Cardinality(both) + Cardinality(elsewhere)
      /\ Cardinality(both) \in Nat /\ Cardinality(elsewhere) \in Nat
  BY <1>3, <1>5, <1>6, CountedApart
<1>8. Cardinality(counted) = Cardinality(both) + Cardinality(counted \ here) /\ Cardinality(counted \ here) \in Nat
  BY <1>4, <1>5, <1>6, CountedApart
<1>9. Cardinality(shown) - Cardinality(counted) = Cardinality(elsewhere) - Cardinality(counted \ here)
  BY <1>7, <1>8
<1>10. f.advisory - Cardinality(counted) = Cardinality(elsewhere) - Cardinality(counted \ here)
  BY <1>1, <1>9
<1> QED
  BY <1>10 DEF f, in, high, counted, here, elsewhere

-----------------------------------------------------------------------------
(* What comes first of two tuples.                                          *)
LEMMA SoonerFirst ==
    ASSUME NEW n \in Nat, n >= 3, NEW a, NEW b, Tuple(a, n), Tuple(b, n), Sooner(a, b)
    PROVE  /\ a[1] <= b[1]
           /\ a[1] = b[1] => a[2] <= b[2]
           /\ a[1] = b[1] /\ a[2] = b[2] => a[3] <= b[3]
           /\ \A k \in 1 .. 3 : a[k] \in Int /\ b[k] \in Int
<1>1. PICK k \in 1 .. n : a[k] < b[k] /\ \A j \in 1 .. (k - 1) : a[j] = b[j]
  BY DEF Sooner, Tuple
<1>2. \A j \in 1 .. 3 : a[j] \in Int /\ b[j] \in Int
  BY DEF Tuple
<1>3. \A j \in 1 .. 3 : j < k => a[j] = b[j]
  BY <1>1
<1>4. 1 \in 1 .. 3 /\ 2 \in 1 .. 3 /\ 3 \in 1 .. 3 /\ 1 <= k /\ k \in Int
  BY <1>1
<1>5. CASE k = 1
  BY <1>1, <1>2, <1>4, <1>5
<1>6. CASE k = 2
  BY <1>1, <1>2, <1>3, <1>4, <1>6
<1>7. CASE k >= 3
  <2>1. a[1] = b[1] /\ a[2] = b[2]
    BY <1>3, <1>4, <1>7
  <2>2. a[3] <= b[3]
    BY <1>1, <1>2, <1>3, <1>4, <1>7
  <2> QED
    BY <1>2, <1>4, <2>1, <2>2
<1> QED
  BY <1>4, <1>5, <1>6, <1>7

LEMMA GaugesAreKeyed ==
    ASSUME BoardInv, NEW S, S \subseteq DOMAIN Gauges
    PROVE  Keyed(S, [s \in S |-> StationKey(s)], 4)
<1>1. ASSUME NEW s \in DOMAIN Gauges PROVE Tuple(StationKey(s), 4) /\ StationKey(s)[4] = s
  <2> DEFINE a == IF station[s].stage = NoStage THEN 1 ELSE -RankOf(station[s].stage)
             c == IF station[s].rising THEN -1 ELSE 0
             b == station[s].minutes
  <2>1. a \in Int
    <3>1. station[s].stage # NoStage => RankOf(station[s].stage) \in 1 .. 6
      BY StageOfGauge, StageIsReached
    <3> QED
      BY <3>1
  <2>2. c \in Int /\ b \in Int /\ s \in Int
    BY StageOfGauge, BoardAssumption
  <2>3. StationKey(s) = <<a, b, c, s>>
    BY DEF StationKey
  <2> HIDE DEF a, b, c
  <2>4. \A k \in 1 .. 4 : k = 1 \/ k = 2 \/ k = 3 \/ k = 4
    OBVIOUS
  <2> QED
    BY <2>1, <2>2, <2>3, <2>4 DEF Tuple
<1>2. 4 \in 1 .. 4
  OBVIOUS
<1> QED
  BY <1>1, <1>2 DEF Keyed

LEMMA SoonerGauge ==
    ASSUME BoardInv, NEW s \in DOMAIN Gauges, NEW t \in DOMAIN Gauges, Sooner(StationKey(t), StationKey(s)),
           station[s].stage # NoStage
    PROVE  /\ AtLeast(station[t].stage, station[s].stage)
           /\ station[t].stage = station[s].stage => station[t].minutes <= station[s].minutes
<1> DEFINE a == StationKey(t)
           b == StationKey(s)
<1>1. Tuple(a, 4) /\ Tuple(b, 4)
  <2>1. Keyed(DOMAIN Gauges, [x \in DOMAIN Gauges |-> StationKey(x)], 4)
    BY GaugesAreKeyed
  <2> QED
    BY <2>1 DEF Keyed
<1>2. /\ a[1] = (IF station[t].stage = NoStage THEN 1 ELSE -RankOf(station[t].stage)) /\ a[2] = station[t].minutes
      /\ b[1] = -RankOf(station[s].stage) /\ b[2] = station[s].minutes
  BY DEF StationKey
<1> HIDE DEF a, b
<1>3. a[1] <= b[1] /\ (a[1] = b[1] => a[2] <= b[2])
  BY <1>1, SoonerFirst DEF a, b
<1>4. RankOf(station[s].stage) \in 1 .. 6
  BY StageOfGauge, StageIsReached
<1>5. station[t].stage # NoStage
  BY <1>2, <1>3, <1>4
<1>6. RankOf(station[t].stage) \in 1 .. 6
  BY <1>5, StageOfGauge, StageIsReached
<1>7. RankOf(station[t].stage) >= RankOf(station[s].stage)
  BY <1>2, <1>3, <1>4, <1>5, <1>6
<1> QED
  BY <1>2, <1>3, <1>5, <1>7 DEF AtLeast

(* The list of an overview is cut off after the limit.                      *)
Cut(list, limit) == SubSeq(list, 1, Min({limit, Len(list)}))
LEMMA CutOff ==
    ASSUME NEW E, NEW list \in Seq(E), NEW limit \in Nat
    PROVE  \E w \in 0 .. Len(list) : DOMAIN Cut(list, limit) = 1 .. w /\ \A k \in 1 .. w : Cut(list, limit)[k] = list[k]
<1> DEFINE m == Len(list)
           w == Min({limit, m})
<1>1. m \in Nat
  OBVIOUS
<1>2. w \in 0 .. m
  <2> HIDE DEF m
  <2>1. {limit, m} = {limit} \cup {m}
    OBVIOUS
  <2>2. IsFiniteSet({limit}) /\ IsFiniteSet({m})
    BY FS_Singleton
  <2>3. IsFiniteSet({limit, m})
    BY <2>1, <2>2, FS_Union
  <2>4. {limit, m} \subseteq Int /\ {limit, m} # {}
    BY <1>1
  <2>5. w \in {limit, m} /\ \A y \in {limit, m} : w <= y
    BY <2>3, <2>4, FiniteHasLeast
  <2> HIDE DEF w
  <2> QED
    BY <1>1, <2>5
<1> HIDE DEF w
<1>3. DOMAIN SubSeq(list, 1, w) = 1 .. w /\ \A k \in 1 .. w : SubSeq(list, 1, w)[k] = list[k]
  BY <1>2
<1>4. Cut(list, limit) = SubSeq(list, 1, w)
  BY DEF Cut, w
<1> QED
  BY <1>2, <1>3, <1>4

LEMMA UrgentGaugesFirst ==
    ASSUME BoardInv, NEW floor \in {NoStage, "attention"}, NEW limit \in 1 .. 2
    PROVE  LET o == Overview(Everywhere, floor, limit)
               shown == {o.top[k] : k \in DOMAIN o.top}
               out == {s \in DOMAIN Gauges \ shown : station[s].stage # NoStage /\ (floor = NoStage \/ AtLeast(station[s].stage, floor))}
           IN \A s \in out : \A t \in shown :
                 /\ AtLeast(station[t].stage, station[s].stage)
                 /\ station[t].stage = station[s].stage => station[t].minutes <= station[s].minutes
<1> DEFINE S == {s \in DOMAIN Gauges : floor = NoStage \/ AtLeast(station[s].stage, floor)}
           key == [s \in S |-> StationKey(s)]
           list == Sorted(S, key)
           m == Cardinality(S)
           top == Overview(Everywhere, floor, limit).top
<1>1. IsFiniteSet(S)
  BY GaugesAreFinite
<1>2. Keyed(S, key, 4)
  BY GaugesAreKeyed
<1>3. top = SubSeq(list, 1, Min({limit, m}))
  <2>1. {s \in {x \in DOMAIN Gauges : InRegion(Gauges[x].region, Everywhere)} : floor = NoStage \/ AtLeast(station[s].stage, floor)} = S
    BY DEF InRegion
  <2> HIDE DEF S
  <2> QED
    BY <2>1 DEF Overview
<1>4. S \subseteq DOMAIN Gauges
  OBVIOUS
<1> HIDE DEF S, key, list, m, top
<1>5. /\ list \in [1 .. m -> S] /\ m \in Nat
      /\ \A x \in S : \E k \in 1 .. m : list[k] = x
      /\ \A i, j \in 1 .. m : i < j => Sooner(key[list[i]], key[list[j]])
  BY <1>1, <1>2, SortedList DEF list, m
<1>7. PICK w \in 0 .. m : DOMAIN top = 1 .. w /\ \A k \in 1 .. w : top[k] = list[k]
  <2>1. limit \in Nat
    OBVIOUS
  <2>2. list \in Seq(S) /\ m = Len(list)
    BY <1>5, SeqDef
  <2>3. top = Cut(list, limit)
    BY <1>3, <2>2 DEF Cut
  <2>4. \E w \in 0 .. Len(list) : DOMAIN Cut(list, limit) = 1 .. w /\ \A k \in 1 .. w : Cut(list, limit)[k] = list[k]
    BY <2>1, <2>2, CutOff
  <2> QED
    BY <2>2, <2>3, <2>4
<1>8. ASSUME NEW s \in S, \A k \in 1 .. w : top[k] # s, NEW k \in 1 .. w, station[s].stage # NoStage
      PROVE  /\ AtLeast(station[top[k]].stage, station[s].stage)
             /\ station[top[k]].stage = station[s].stage => station[top[k]].minutes <= station[s].minutes
  <2>1. PICK j \in 1 .. m : list[j] = s
    BY <1>5
  <2>2. j \notin 1 .. w
    BY <1>7, <1>8, <2>1
  <2>3. k \in 1 .. m /\ k < j
    BY <1>5, <1>7, <2>2
  <2>4. Sooner(key[list[k]], key[list[j]]) /\ list[k] \in S
    BY <1>5, <2>3
  <2>5. Sooner(StationKey(list[k]), StationKey(s))
    BY <2>1, <2>4 DEF key
  <2>6. top[k] = list[k]
    BY <1>7
  <2> QED
    BY <1>4, <1>8, <2>4, <2>5, <2>6, SoonerGauge
<1>9. \A k \in DOMAIN top : k \in 1 .. w
  BY <1>7
<1> QED
  BY <1>7, <1>8, <1>9 DEF S, top

LEMMA RainBesideIsNat == ASSUME BoardInv, NEW km PROVE RainBeside(km) \in Nat
<1> DEFINE near == {g \in Reporting : Distance(RainGauges[g].km, km) <= RainKm}
           first == {g \in near : \A h \in near \ {g} :
                        LET here == Distance(RainGauges[g].km, km)
                            there == Distance(RainGauges[h].km, km) IN here < there \/ (here = there /\ g < h)}
<1>1. RainBeside(km) = IF first = {} THEN 0 ELSE Intensity(CHOOSE g \in first : TRUE)
  BY DEF RainBeside
<1>2. first \subseteq Reporting
  OBVIOUS
<1> HIDE DEF first
<1>3. first # {} => (CHOOSE g \in first : TRUE) \in Reporting
  BY <1>2
<1> QED
  BY <1>1, <1>3, ReportingIsFinite

LEMMA FacilitiesAreKeyed ==
    ASSUME BoardInv, NEW S, S \subseteq {FacilityRow(i) : i \in DOMAIN catalogue}
    PROVE  Keyed(S, [f \in S |-> FacilityKey(f)], 5)
<1>1. ASSUME NEW i \in DOMAIN catalogue PROVE Tuple(FacilityKey(FacilityRow(i)), 5) /\ FacilityKey(FacilityRow(i))[5] = i
  <2> DEFINE f == FacilityRow(i)
             high == IF AtLeast(f.stage, "attention") THEN RankOf(f.stage) ELSE 0
             soon == IF high # 0 THEN f.minutes ELSE 0
             wet == -f.rain
  <2>1. f.minutes \in Int /\ f.at = i /\ i \in Int /\ (f.stage = NoStage \/ \E k \in 1 .. 6 : f.stage = Stages[k])
    BY StageOfPlace, CatalogueIs DEF Catalogued
  <2>2. f.rain \in Nat
    <3>1. f.rain = RainBeside(catalogue[i].km)
      BY DEF FacilityRow
    <3> QED
      BY <3>1, RainBesideIsNat
  <2>3. FacilityKey(f) = <<-high, soon, wet, f.minutes, f.at>>
    BY DEF FacilityKey
  <2> HIDE DEF f
  <2>4. -high \in Int /\ soon \in Int /\ wet \in Int
    <3>1. AtLeast(f.stage, "attention") => RankOf(f.stage) \in 1 .. 6
      BY <2>1, StageIsReached DEF AtLeast
    <3> QED
      BY <2>1, <2>2, <3>1
  <2> HIDE DEF high, soon, wet
  <2>5. \A k \in 1 .. 5 : k = 1 \/ k = 2 \/ k = 3 \/ k = 4 \/ k = 5
    OBVIOUS
  <2>6. Tuple(FacilityKey(f), 5) /\ FacilityKey(f)[5] = i
    BY <2>1, <2>3, <2>4, <2>5 DEF Tuple
  <2> QED
    BY <2>6 DEF f
<1>2. 5 \in 1 .. 5
  OBVIOUS
<1>3. \A x \in S : Tuple(FacilityKey(x), 5)
  BY <1>1
<1>4. ASSUME NEW x \in S, NEW y \in S, x # y PROVE FacilityKey(x)[5] # FacilityKey(y)[5]
  <2>1. PICK i \in DOMAIN catalogue : x = FacilityRow(i)
    OBVIOUS
  <2>2. PICK j \in DOMAIN catalogue : y = FacilityRow(j)
    OBVIOUS
  <2> QED
    BY <1>1, <1>4, <2>1, <2>2
<1> QED
  BY <1>2, <1>3, <1>4 DEF Keyed

LEMMA Between == ASSUME NEW m \in Int, m >= 0, m <= 0 PROVE m = 0
OBVIOUS

LEMMA NothingHigh ==
    ASSUME NEW z, NEW h, NEW minutes, h = 0,
           z[1] = -h, z[2] = (IF h # 0 THEN minutes ELSE 0)
    PROVE  z[1] = 0 /\ z[2] = 0
<1>1. ASSUME NEW n \in Int, n >= 0, n <= 0 PROVE -n \in Int /\ -n >= 0 /\ -n <= 0
  BY <1>1
<1>2. z[1] = 0
  <2>1. h \in Int /\ h >= 0 /\ h <= 0
    OBVIOUS
  <2>2. -h \in Int /\ -h >= 0 /\ -h <= 0
    BY <1>1, <2>1, Zenon
  <2>3. z[1] \in Int /\ z[1] >= 0 /\ z[1] <= 0
    BY <2>2, Zenon
  <2> QED
    BY <2>3, Between
<1>3. z[2] = 0
  BY Zenon
<1> QED
  BY <1>2, <1>3

LEMMA SoonerFacility ==
    ASSUME BoardInv, NEW i \in DOMAIN catalogue, NEW j \in DOMAIN catalogue,
           Sooner(FacilityKey(FacilityRow(i)), FacilityKey(FacilityRow(j)))
    PROVE  LET a == FacilityRow(i)
               b == FacilityRow(j)
           IN IF AtLeast(b.stage, "attention") THEN AtLeast(a.stage, b.stage)
              ELSE AtLeast(a.stage, "attention") \/ a.rain >= b.rain
<1> DEFINE a == FacilityRow(i)
           b == FacilityRow(j)
           x == FacilityKey(a)
           y == FacilityKey(b)
           High(f) == IF AtLeast(f.stage, "attention") THEN RankOf(f.stage) ELSE 0
<1>1. Tuple(x, 5) /\ Tuple(y, 5)
  <2> DEFINE S == {FacilityRow(k) : k \in DOMAIN catalogue}
  <2>1. Keyed(S, [f \in S |-> FacilityKey(f)], 5)
    BY FacilitiesAreKeyed
  <2>2. a \in S /\ b \in S
    OBVIOUS
  <2> HIDE DEF S, a, b
  <2> QED
    BY <2>1, <2>2 DEF Keyed
<1>2. /\ x[1] = -High(a) /\ x[2] = (IF High(a) # 0 THEN a.minutes ELSE 0) /\ x[3] = -a.rain
      /\ y[1] = -High(b) /\ y[2] = (IF High(b) # 0 THEN b.minutes ELSE 0) /\ y[3] = -b.rain
  BY DEF FacilityKey
<1>3. a.rain \in Nat /\ b.rain \in Nat
  <2>1. a.rain = RainBeside(catalogue[i].km) /\ b.rain = RainBeside(catalogue[j].km)
    BY DEF FacilityRow
  <2> QED
    BY <2>1, RainBesideIsNat
<1>4. /\ a.stage = NoStage \/ \E k \in 1 .. 6 : a.stage = Stages[k]
      /\ b.stage = NoStage \/ \E k \in 1 .. 6 : b.stage = Stages[k]
  BY StageOfPlace
<1> HIDE DEF a, b
<1>5. \A f \in {a, b} : (AtLeast(f.stage, "attention") => RankOf(f.stage) \in 3 .. 6 /\ f.stage # NoStage)
  BY <1>4, StageIsReached, StageNumbers DEF AtLeast
<1> HIDE DEF x, y
<1>6. x[1] <= y[1] /\ (x[1] = y[1] => x[2] <= y[2]) /\ (x[1] = y[1] /\ x[2] = y[2] => x[3] <= y[3])
  BY <1>1, SoonerFirst DEF x, y, a, b
<1>7. CASE AtLeast(b.stage, "attention")
  <2>1. High(b) = RankOf(b.stage) /\ RankOf(b.stage) \in 3 .. 6
    BY <1>5, <1>7
  <2>2. AtLeast(a.stage, "attention")
    BY <1>2, <1>6, <2>1
  <2>3. High(a) = RankOf(a.stage) /\ RankOf(a.stage) \in 3 .. 6 /\ a.stage # NoStage
    BY <1>5, <2>2
  <2>4. RankOf(a.stage) >= RankOf(b.stage)
    BY <1>2, <1>6, <2>1, <2>3
  <2>5. AtLeast(a.stage, b.stage)
    BY <2>3, <2>4 DEF AtLeast
  <2> QED
    BY <1>7, <2>5 DEF a, b
<1>8. CASE ~AtLeast(b.stage, "attention")
  <2>0. High(b) = 0
    BY <1>8
  <2>1. y[1] = 0 /\ y[2] = 0
    BY <2>0, <1>2, NothingHigh
  <2>2. ASSUME ~AtLeast(a.stage, "attention") PROVE a.rain >= b.rain
    <3>1. High(a) = 0
      BY <2>2
    <3>2. x[1] = 0 /\ x[2] = 0
      BY <3>1, <1>2, NothingHigh
    <3> QED
      BY <1>2, <1>3, <1>6, <2>1, <3>2
  <2> QED
    BY <1>8, <2>2 DEF a, b
<1> QED
  BY <1>7, <1>8

LEMMA UrgentPlacesFirst ==
    ASSUME BoardInv
    PROVE  LET list == FacilityStatus(Everywhere, Everywhere).facilities
           IN \A k \in 1 .. (Len(list) - 1) :
                 LET a == list[k] b == list[k + 1]
                 IN IF AtLeast(b.stage, "attention") THEN AtLeast(a.stage, b.stage)
                    ELSE AtLeast(a.stage, "attention") \/ a.rain >= b.rain
<1> DEFINE all == {FacilityRow(i) : i \in DOMAIN catalogue}
           S == {f \in all : InRegion(f.region, Everywhere) /\ Everywhere \in {Everywhere, f.group}}
           key == [f \in S |-> FacilityKey(f)]
           list == Sorted(S, key)
           m == Cardinality(S)
<1>1. FacilityStatus(Everywhere, Everywhere).facilities = list
  BY DEF FacilityStatus
<1>2. S \subseteq all
  OBVIOUS
<1> HIDE DEF S
<1>3. IsFiniteSet(S) /\ Keyed(S, key, 5)
  BY <1>2, RowsCounted, FacilitiesAreKeyed
<1> HIDE DEF key, list, m
<1>4. /\ list \in [1 .. m -> S] /\ m \in Nat
      /\ \A i, j \in 1 .. m : i < j => Sooner(key[list[i]], key[list[j]])
  BY <1>3, SortedList DEF list, m
<1>5. Len(list) = m
  BY <1>4, SeqDef
<1>6. ASSUME NEW k \in 1 .. (Len(list) - 1)
      PROVE  IF AtLeast(list[k + 1].stage, "attention") THEN AtLeast(list[k].stage, list[k + 1].stage)
             ELSE AtLeast(list[k].stage, "attention") \/ list[k].rain >= list[k + 1].rain
  <2>1. k \in 1 .. m /\ k + 1 \in 1 .. m /\ k < k + 1
    BY <1>4, <1>5
  <2>2. list[k] \in S /\ list[k + 1] \in S /\ Sooner(key[list[k]], key[list[k + 1]])
    BY <1>4, <2>1
  <2>3. Sooner(FacilityKey(list[k]), FacilityKey(list[k + 1]))
    BY <2>2 DEF key
  <2>4. PICK i \in DOMAIN catalogue : list[k] = FacilityRow(i)
    BY <1>2, <2>2
  <2>5. PICK j \in DOMAIN catalogue : list[k + 1] = FacilityRow(j)
    BY <1>2, <2>2
  <2> QED
    BY <2>3, <2>4, <2>5, SoonerFacility
<1> QED
  BY <1>1, <1>6

LEMMA BoardHolds == BoardSpec => []BoardInv
<1>1. BoardInit => BoardInv
  BY BoardStarts
<1>2. BoardInv /\ [BoardNext]_boardVars => BoardInv'
  BY BoardGoesOn
<1> QED
  BY <1>1, <1>2, PTL DEF BoardSpec

(***************************************************************************)
(* BoardsTellOneFrame, of every frame, the empty one before the first      *)
(* pull included.  The regions of every overview add up to its counts and  *)
(* a group's to its regions', the two boards differ by just the facilities *)
(* whose gauge lies elsewhere, what is most urgent comes first, and every  *)
(* place of the files is there, whatever was measured and in whatever      *)
(* order it came.                                                          *)
(***************************************************************************)
THEOREM BoardsTellOneFrameHolds ==
    BoardSpec => [](BoardsTellOneFrame /\ RegionsAddUp /\ BoardsAgree /\ MostUrgentFirst)
<1>1. BoardInv => BoardsTellOneFrame /\ RegionsAddUp /\ BoardsAgree /\ MostUrgentFirst
  <2> SUFFICES ASSUME BoardInv
               PROVE  BoardsTellOneFrame /\ RegionsAddUp /\ BoardsAgree /\ MostUrgentFirst
    OBVIOUS
  <2>1. PlacesKept
    BY CatalogueIs
  <2>2. RegionsAddUp /\ BoardsAgree
    BY RegionsDoAddUp, BoardsDoAgree
  <2>3. MostUrgentFirst
    BY UrgentGaugesFirst, UrgentPlacesFirst DEF MostUrgentFirst
  <2> QED
    BY <2>1, <2>2, <2>3 DEF BoardsTellOneFrame
<1>2. BoardSpec => []BoardInv
  BY BoardHolds
<1> QED
  BY <1>1, <1>2, PTL
=============================================================================
