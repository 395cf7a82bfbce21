----------------------------- MODULE AgentProofs ------------------------------
(***************************************************************************)
(* The Agent that answers, the conversations it is asked in, and the pages *)
(* it is asked from.                                                       *)
(***************************************************************************)
EXTENDS AgentLoop, BrowserPages, FollowUps, SieveProofs

-----------------------------------------------------------------------------
(***************************************************************************)
(* For every set of tools, hints and limits, and whatever the model and    *)
(* the tools do: an answer is called ANSWERED only of what was computed,   *)
(* and no call is run twice.                                               *)
(***************************************************************************)

LEMMA NoReplyIsOpen == reply = NoReply => AnsweredIsComputed
BY DEF NoReply, AnsweredIsComputed

(* The three ways in which a step that answers a question may do so.        *)
Honest ==
    \/ reply' = reply
    \/ reply'.status # "ANSWERED"
    \/ /\ req.hypothetical => Computed(calls')
       /\ ~req.forecast

LEMMA HonestKeeps ==
    ASSUME req' = req, Honest, reply = NoReply
    PROVE  AnsweredIsComputed'
BY DEF Honest, AnsweredIsComputed, NoReply

(* _fallback_status applies the rules to the calls it is given.             *)
LEMMA FallbackIsHonest ==
    ASSUME NEW text, NEW cites, Reply(FallbackStatus(calls'), text, cites)
    PROVE  Honest
<1>1. reply'.status = FallbackStatus(calls') BY DEF Reply
<1> QED BY <1>1 DEF FallbackStatus, Honest

LEMMA OtherIsHonest ==
    ASSUME NEW verdict, verdict # "ANSWERED", NEW text, NEW cites, Reply(verdict, text, cites)
    PROVE  Honest
BY DEF Reply, Honest

LEMMA JudgedIsHonest ==
    ASSUME NEW a, JudgeFinal(a)
    PROVE  Honest
<1> DEFINE verdict == IF req.physical \/ a.gap \/ (req.hypothetical /\ ~Computed(calls')) \/ req.forecast
                     THEN "NEEDS_DATA" ELSE "ANSWERED"
<1>1. \/ Reply(verdict, "model", a.cites)
      \/ Reply("NEEDS_DATA", "limitation", {})
      \/ reply' = reply
  BY DEF JudgeFinal
<1>2. CASE Reply(verdict, "model", a.cites)
  <2>1. reply'.status = verdict BY <1>2 DEF Reply
  <2> QED BY <2>1 DEF Honest
<1>3. CASE Reply("NEEDS_DATA", "limitation", {})
  BY <1>3, OtherIsHonest
<1> QED BY <1>1, <1>2, <1>3 DEF Honest

LEMMA ConcludedIsHonest ==
    ASSUME Conclude
    PROVE  Honest
<1>1. \/ Reply(FallbackStatus(calls'), "registered_tools", {})
      \/ Reply("NEEDS_DATA", "limitation", {})
      \/ Reply("NEEDS_DATA", "incomplete", {})
  BY DEF Conclude
<1> QED BY <1>1, FallbackIsHonest, OtherIsHonest

LEMMA UnavailableIsHonest ==
    ASSUME ModelUnavailable
    PROVE  Honest
<1>1. \/ Reply("NEEDS_DATA", "clarification", {})
      \/ Reply(FallbackStatus(calls'), "registered_tools", {})
      \/ Reply("UNAVAILABLE", "unavailable", {})
  BY DEF ModelUnavailable
<1> QED BY <1>1, FallbackIsHonest, OtherIsHonest

LEMMA StepIsHonest ==
    ASSUME AnsweredIsComputed, [Next]_vars
    PROVE  AnsweredIsComputed'
<1>1. CASE UNCHANGED vars
  BY <1>1 DEF vars, loop, AnsweredIsComputed, Computed, CallsOf
<1>2. CASE ReplyWithoutModel
  BY <1>2 DEF ReplyWithoutModel, AnsweredIsComputed
<1>3. CASE ModelUnavailable
  <2>1. req' = req /\ reply = NoReply BY <1>3 DEF ModelUnavailable, Deciding
  <2> QED BY <1>3, <2>1, UnavailableIsHonest, HonestKeeps
<1>4. CASE FinalAfterFailedAnalysis
  <2>1. req' = req /\ reply = NoReply /\ Reply("NEEDS_DATA", "analysis_failed", {})
    BY <1>4 DEF FinalAfterFailedAnalysis, Deciding
  <2> QED BY <2>1, OtherIsHonest, HonestKeeps
<1>5. CASE FinalAnchored
  <2>1. req' = req /\ reply = NoReply BY <1>5 DEF FinalAnchored, Deciding
  <2>2. reply' = reply \/ \E a \in Finals : JudgeFinal(a) BY <1>5 DEF FinalAnchored
  <2>3. Honest BY <2>2, JudgedIsHonest DEF Honest
  <2> QED BY <2>1, <2>3, HonestKeeps
<1>6. CASE FinalJudged
  <2>1. req' = req /\ reply = NoReply BY <1>6 DEF FinalJudged, Deciding
  <2>2. Honest BY <1>6, JudgedIsHonest DEF FinalJudged
  <2> QED BY <2>1, <2>2, HonestKeeps
<1>7. CASE ToolRejected \/ \E k \in Keys : ToolRepeated(k) \/ ToolRun(k)
  <2>1. req' = req /\ reply = NoReply /\ reply' = reply
    BY <1>7 DEF ToolRejected, ToolRepeated, ToolRun, Deciding
  <2> QED BY <2>1, HonestKeeps DEF Honest
<1>8. CASE ToolBeyondLimit \/ LoopEnded
  <2>1. req' = req /\ reply = NoReply /\ Conclude
    BY <1>8 DEF ToolBeyondLimit, LoopEnded, Deciding
  <2> QED BY <2>1, ConcludedIsHonest, HonestKeeps
<1> QED BY <1>1, <1>2, <1>3, <1>4, <1>5, <1>6, <1>7, <1>8 DEF Next

-----------------------------------------------------------------------------
(* Whichever of its exits a request takes, an answer to a what-if question  *)
(* is called ANSWERED only if a tool computed the change, and an answer     *)
(* about the future never is.                                               *)
THEOREM HonestStatus == Spec => []AnsweredIsComputed
<1>1. Init => AnsweredIsComputed
  BY NoReplyIsOpen DEF Init
<1> QED BY <1>1, StepIsHonest, PTL DEF Spec

-----------------------------------------------------------------------------
(* What the calls are drawn from.                                           *)

(* Min of two numbers, as Affordable takes it, and what it leaves of a      *)
(* sequence.                                                                *)
LEMMA MinOfTwo ==
    ASSUME NEW m \in Nat, NEW n \in Nat
    PROVE  Min({m, n}) \in Nat /\ Min({m, n}) <= m /\ Min({m, n}) <= n
<1>1. \E x \in {m, n} : \A y \in {m, n} : x <= y
  OBVIOUS
<1>2. Min({m, n}) \in {m, n} /\ \A y \in {m, n} : Min({m, n}) <= y
  BY <1>1 DEF Min
<1> QED BY <1>2

LEMMA AffordableFits ==
    ASSUME ConstantsAssumption, TypeOK, NEW S, NEW todo \in Seq(S), Distinct(todo)
    PROVE  /\ Affordable(todo) \in Seq(S) /\ Distinct(Affordable(todo))
           /\ Len(Affordable(todo)) <= MaxCalls - Len(calls)
           /\ \A j \in DOMAIN Affordable(todo) : \E i \in DOMAIN todo : Affordable(todo)[j] = todo[i]
<1> DEFINE k == Min({Len(todo), MaxCalls - Len(calls)})
<1>1. Len(todo) \in Nat /\ MaxCalls - Len(calls) \in Nat /\ DOMAIN todo = 1 .. Len(todo)
  BY DEF TypeOK, ConstantsAssumption
<1>2. k \in Nat /\ k <= Len(todo) /\ k <= MaxCalls - Len(calls)
  BY <1>1, MinOfTwo
<1>3. Affordable(todo) = SubSeq(todo, 1, k)
  BY DEF Affordable
<1> HIDE DEF k
<1>4. /\ SubSeq(todo, 1, k) \in Seq(S) /\ Len(SubSeq(todo, 1, k)) = k
      /\ DOMAIN SubSeq(todo, 1, k) = 1 .. k
      /\ \A j \in 1 .. k : SubSeq(todo, 1, k)[j] = todo[j]
  BY <1>1, <1>2
<1>5. 1 .. k \subseteq DOMAIN todo
  BY <1>1, <1>2
<1> DEFINE a == SubSeq(todo, 1, k)
<1> HIDE DEF a
<1> QED BY <1>1, <1>2, <1>3, <1>4, <1>5 DEF Distinct, a

(* The hints that are left are hints, each of another tool, and of none     *)
(* that has answered.                                                       *)
LEMMA MissingIsNew ==
    ASSUME ConstantsAssumption, TypeOK
    PROVE  /\ Missing \in Seq(Keys) /\ Distinct(Missing)
           /\ \A j \in DOMAIN Missing : Missing[j].tool \notin CallsOf(calls)
<1> DEFINE T == {h \in ToSet(req.hints) : h.tool \notin CallsOf(calls) \cup failedTools}
<1>1. req.hints \in HintLists
  BY DEF TypeOK, Questions
<1>2. req.hints \in Seq(Keys)
  BY <1>1 DEF ConstantsAssumption
<1>3. Distinct(req.hints)
  BY <1>1 DEF ConstantsAssumption, Distinct
<1>4. Missing = Sieve(req.hints, T)
  BY DEF Missing
<1>5. \A h \in T : h.tool \notin CallsOf(calls)
  OBVIOUS
<1> HIDE DEF T
<1>6. /\ Sieve(req.hints, T) \in Seq(Keys) /\ Distinct(Sieve(req.hints, T))
      /\ \A j \in DOMAIN Sieve(req.hints, T) : Sieve(req.hints, T)[j] \in T
  BY <1>2, <1>3, SieveKeeps
<1> QED BY <1>4, <1>5, <1>6

LEMMA JoinedDistinct ==
    ASSUME NEW S, NEW q \in Seq(S), NEW r \in Seq(S), Distinct(q), Distinct(r),
           \A i \in DOMAIN q : \A j \in DOMAIN r : q[i] # r[j]
    PROVE  Distinct(q \o r)
<1> SUFFICES ASSUME NEW i \in DOMAIN (q \o r), NEW j \in DOMAIN (q \o r), (q \o r)[i] = (q \o r)[j]
             PROVE  i = j
  BY DEF Distinct
<1>1. /\ Len(q) \in Nat /\ Len(r) \in Nat /\ DOMAIN q = 1 .. Len(q) /\ DOMAIN r = 1 .. Len(r)
      /\ Len(q \o r) = Len(q) + Len(r) /\ DOMAIN (q \o r) = 1 .. Len(q) + Len(r)
  OBVIOUS
<1>2. \A k \in 1 .. Len(q) + Len(r) : (q \o r)[k] = IF k <= Len(q) THEN q[k] ELSE r[k - Len(q)]
  BY <1>1
<1> DEFINE p == q \o r  n == Len(q)  m == Len(r)
<1>3. /\ n \in Nat /\ m \in Nat /\ DOMAIN q = 1 .. n /\ DOMAIN r = 1 .. m
      /\ i \in 1 .. n + m /\ j \in 1 .. n + m /\ p[i] = p[j]
      /\ \A k \in 1 .. n + m : p[k] = IF k <= n THEN q[k] ELSE r[k - n]
  BY <1>1, <1>2
<1> HIDE DEF p, n, m
<1>4. CASE i <= n /\ j <= n
  <2>1. i \in DOMAIN q /\ j \in DOMAIN q /\ q[i] = q[j]
    BY <1>3, <1>4
  <2> QED BY <2>1 DEF Distinct
<1>5. CASE ~(i <= n) /\ ~(j <= n)
  <2>1. i - n \in DOMAIN r /\ j - n \in DOMAIN r /\ r[i - n] = r[j - n]
    BY <1>3, <1>5
  <2>2. i - n = j - n
    BY <2>1 DEF Distinct
  <2> QED BY <1>3, <2>2
<1>6. CASE i <= n /\ ~(j <= n)
  <2>1. i \in DOMAIN q /\ j - n \in DOMAIN r /\ q[i] = r[j - n]
    BY <1>3, <1>6
  <2> QED BY <2>1
<1>7. CASE ~(i <= n) /\ j <= n
  <2>1. j \in DOMAIN q /\ i - n \in DOMAIN r /\ q[j] = r[i - n]
    BY <1>3, <1>7
  <2> QED BY <2>1
<1> QED BY <1>3, <1>4, <1>5, <1>6, <1>7

-----------------------------------------------------------------------------
(* While a request is open, every recorded call is remembered as made, so   *)
(* that the model cannot make it again; a second repetition ends the loop.  *)
CallsInv ==
    /\ TypeOK
    /\ NoToolRunTwice
    /\ reply = NoReply => ToSet(calls) \subseteq seen
    /\ stalled \/ repeats <= 1

(* What the server may run: calls that fit, differ and are not yet made.    *)
Runnable(todo) ==
    /\ todo \in Seq(Keys) /\ Distinct(todo) /\ Len(todo) <= MaxCalls - Len(calls)
    /\ \A i \in DOMAIN calls : \A j \in DOMAIN todo : calls[i] # todo[j]

LEMMA MissingRunnable ==
    ASSUME ConstantsAssumption, TypeOK
    PROVE  Runnable(Affordable(Missing))
<1> DEFINE todo == Affordable(Missing)
<1>1. /\ Missing \in Seq(Keys) /\ Distinct(Missing)
      /\ \A j \in DOMAIN Missing : Missing[j].tool \notin CallsOf(calls)
  BY MissingIsNew
<1>2. /\ todo \in Seq(Keys) /\ Distinct(todo) /\ Len(todo) <= MaxCalls - Len(calls)
      /\ \A j \in DOMAIN todo : \E i \in DOMAIN Missing : todo[j] = Missing[i]
  BY <1>1, AffordableFits
<1>3. \A i \in DOMAIN calls : calls[i].tool \in CallsOf(calls)
  BY DEF CallsOf
<1> HIDE DEF todo
<1>4. \A i \in DOMAIN calls : \A j \in DOMAIN todo : calls[i] # todo[j]
  BY <1>1, <1>2, <1>3
<1>5. Runnable(todo)
  BY <1>2, <1>4 DEF Runnable
<1> QED BY <1>5 DEF todo

LEMMA TimelineRunnable ==
    ASSUME ConstantsAssumption, TypeOK, calls = <<>>
    PROVE  Runnable(Affordable(<<Timeline>>))
<1> DEFINE todo == Affordable(<<Timeline>>)
<1>1. <<Timeline>> \in Seq(Keys) /\ Distinct(<<Timeline>>)
  BY DEF ConstantsAssumption, Distinct
<1>2. todo \in Seq(Keys) /\ Distinct(todo) /\ Len(todo) <= MaxCalls - Len(calls)
  BY <1>1, AffordableFits
<1>3. DOMAIN calls = {}
  OBVIOUS
<1> HIDE DEF todo
<1>4. Runnable(todo)
  BY <1>2, <1>3 DEF Runnable
<1> QED BY <1>4 DEF todo

LEMMA RunKeeps ==
    ASSUME TypeOK, NoToolRunTwice, NEW todo, Runnable(todo), NEW ok,
           calls' = calls \o Run(todo, ok)
    PROVE  /\ calls' \in Seq(Keys) /\ Len(calls') <= MaxCalls
           /\ NoToolRunTwice'
           /\ ToSet(calls') \subseteq ToSet(calls) \cup ok
<1> DEFINE r == Sieve(todo, ok)
<1>1. /\ todo \in Seq(Keys) /\ Distinct(todo) /\ Len(todo) <= MaxCalls - Len(calls)
      /\ \A i \in DOMAIN calls : \A j \in DOMAIN todo : calls[i] # todo[j]
  BY DEF Runnable
<1>2. /\ r \in Seq(Keys) /\ Len(r) <= Len(todo) /\ Distinct(r)
      /\ \A j \in DOMAIN r : r[j] \in ok /\ \E i \in DOMAIN todo : todo[i] = r[j]
  <2>1. /\ Sieve(todo, ok) \in Seq(Keys) /\ Len(Sieve(todo, ok)) <= Len(todo)
        /\ Distinct(todo) => Distinct(Sieve(todo, ok))
    BY <1>1, SieveKeeps
  <2>2. ASSUME NEW j \in DOMAIN Sieve(todo, ok)
        PROVE  Sieve(todo, ok)[j] \in ok /\ \E i \in DOMAIN todo : todo[i] = Sieve(todo, ok)[j]
    <3>1. todo \in Seq(Keys)
      BY <1>1
    <3> QED BY <3>1, SieveDraws
  <2> HIDE DEF r
  <2>3. r = Sieve(todo, ok)
    BY DEF r
  <2> QED BY <1>1, <2>1, <2>2, <2>3
<1>3. calls' = calls \o r
  BY DEF Run
<1>4. calls \in Seq(Keys) /\ Distinct(calls)
  BY DEF TypeOK, NoToolRunTwice, Distinct
<1> HIDE DEF r
<1>5. calls' \in Seq(Keys) /\ Len(calls') = Len(calls) + Len(r)
  BY <1>2, <1>3, <1>4
<1>6. Len(calls') <= MaxCalls
  <2>1. Len(calls) \in Nat /\ Len(r) \in Nat /\ Len(todo) \in Nat /\ MaxCalls - Len(calls) \in Int
    BY <1>1, <1>2, <1>4, ConstantsAssumption DEF ConstantsAssumption
  <2>2. MaxCalls \in Int
    BY ConstantsAssumption DEF ConstantsAssumption
  <2> QED BY <1>1, <1>2, <1>5, <2>1, <2>2
<1>7. NoToolRunTwice'
  <2>1. \A i \in DOMAIN calls : \A j \in DOMAIN r : calls[i] # r[j]
    BY <1>1, <1>2
  <2>2. Distinct(calls \o r)
    BY <1>2, <1>4, <2>1, JoinedDistinct
  <2> QED BY <1>3, <2>2 DEF NoToolRunTwice, Distinct
<1>8. ToSet(calls') \subseteq ToSet(calls) \cup ok
  <2> SUFFICES ASSUME NEW i \in DOMAIN calls' PROVE calls'[i] \in ToSet(calls) \cup ok
    BY DEF ToSet
  <2>1. /\ Len(calls) \in Nat /\ Len(r) \in Nat /\ DOMAIN calls = 1 .. Len(calls) /\ DOMAIN r = 1 .. Len(r)
        /\ i \in 1 .. Len(calls) + Len(r)
    BY <1>2, <1>4, <1>5
  <2>2. calls'[i] = IF i <= Len(calls) THEN calls[i] ELSE r[i - Len(calls)]
    BY <1>2, <1>3, <1>4, <2>1
  <2>3. CASE i <= Len(calls)
    BY <2>1, <2>2, <2>3 DEF ToSet
  <2>4. CASE ~(i <= Len(calls))
    <3>1. i - Len(calls) \in DOMAIN r
      BY <2>1, <2>4
    <3> QED BY <1>2, <2>2, <2>4, <3>1
  <2> QED BY <2>1, <2>3, <2>4
<1> QED BY <1>5, <1>6, <1>7, <1>8

LEMMA FailuresTyped ==
    ASSUME TypeOK, NEW todo \in Seq(Keys), NEW ok, RecordFailed(todo, ok)
    PROVE  failures' \subseteq Tools
<1>1. PICK f \in SUBSET (ToSet(todo) \ ok) : failures' = failures \cup {h.tool : h \in f}
  BY DEF RecordFailed
<1>2. \A h \in f : h \in Keys
  BY <1>1 DEF ToSet
<1> QED BY <1>1, <1>2 DEF TypeOK, Tools

-----------------------------------------------------------------------------
(* The steps, in the parts of the state they change.                        *)
Answers == reply'.status \in {"ANSWERED", "NEEDS_DATA", "UNAVAILABLE"} /\ reply' # NoReply

LEMMA RepliesTyped ==
    ASSUME NEW verdict \in {"ANSWERED", "NEEDS_DATA", "UNAVAILABLE"}, NEW text, NEW cites,
           Reply(verdict, text, cites)
    PROVE  Answers
BY DEF Reply, Answers, NoReply

LEMMA FallbackTyped ==
    ASSUME NEW text, NEW cites, Reply(FallbackStatus(calls'), text, cites)
    PROVE  Answers
<1>1. FallbackStatus(calls') \in {"ANSWERED", "NEEDS_DATA", "UNAVAILABLE"}
  BY DEF FallbackStatus
<1> QED BY <1>1, RepliesTyped

LEMMA JudgedTyped ==
    ASSUME NEW a, JudgeFinal(a), ungrounded \in BOOLEAN
    PROVE  (Answers \/ reply' = reply) /\ ungrounded' \in BOOLEAN
<1> DEFINE verdict == IF req.physical \/ a.gap \/ (req.hypothetical /\ ~Computed(calls')) \/ req.forecast
                     THEN "NEEDS_DATA" ELSE "ANSWERED"
<1>1. \/ Reply(verdict, "model", a.cites) /\ ungrounded' = ungrounded
      \/ Reply("NEEDS_DATA", "limitation", {}) /\ ungrounded' = ungrounded
      \/ reply' = reply /\ ungrounded' = TRUE
  BY DEF JudgeFinal
<1>2. verdict \in {"ANSWERED", "NEEDS_DATA", "UNAVAILABLE"}
  OBVIOUS
<1> HIDE DEF verdict
<1>3. CASE Reply(verdict, "model", a.cites) /\ ungrounded' = ungrounded
  BY <1>2, <1>3, RepliesTyped
<1>4. CASE Reply("NEEDS_DATA", "limitation", {}) /\ ungrounded' = ungrounded
  BY <1>4, RepliesTyped
<1> QED BY <1>1, <1>3, <1>4

(* After the loop: what is left of the hints is run and the request ends.   *)
LEMMA ConcludeKeeps ==
    ASSUME CallsInv, Conclude
    PROVE  /\ calls' \in Seq(Keys) /\ Len(calls') <= MaxCalls
           /\ NoToolRunTwice' /\ Answers /\ failures' \subseteq Tools
<1> DEFINE todo == Affordable(Missing)
<1>1. Runnable(todo)
  BY ConstantsAssumption, MissingRunnable DEF CallsInv
<1>2. PICK ok \in SUBSET ToSet(todo) : RecordFailed(todo, ok) /\ calls' = calls \o Run(todo, ok)
  BY DEF Conclude
<1>3. \/ Reply(FallbackStatus(calls'), "registered_tools", {})
      \/ Reply("NEEDS_DATA", "limitation", {})
      \/ Reply("NEEDS_DATA", "incomplete", {})
  BY DEF Conclude
<1>4. Answers
  BY <1>3, RepliesTyped, FallbackTyped
<1> HIDE DEF todo
<1>5. failures' \subseteq Tools
  BY <1>1, <1>2, FailuresTyped DEF CallsInv, Runnable
<1> QED BY <1>1, <1>2, <1>4, <1>5, RunKeeps DEF CallsInv

LEMMA UnavailableKeeps ==
    ASSUME CallsInv, ModelUnavailable
    PROVE  /\ calls' \in Seq(Keys) /\ Len(calls') <= MaxCalls
           /\ NoToolRunTwice' /\ Answers /\ failures' \subseteq Tools
<1>1. CASE Reply("NEEDS_DATA", "clarification", {}) /\ UNCHANGED <<calls, failures>>
  BY <1>1, RepliesTyped DEF CallsInv, TypeOK, NoToolRunTwice
<1>2. CASE \E ok \in SUBSET ToSet(Affordable(Missing)) :
              /\ RecordFailed(Affordable(Missing), ok)
              /\ calls' = calls \o Run(Affordable(Missing), ok)
              /\ IF calls' # <<>> THEN Reply(FallbackStatus(calls'), "registered_tools", {})
                                  ELSE Reply("UNAVAILABLE", "unavailable", {})
  <2> DEFINE todo == Affordable(Missing)
  <2>1. Runnable(todo)
    BY ConstantsAssumption, MissingRunnable DEF CallsInv
  <2>2. PICK ok \in SUBSET ToSet(todo) :
           /\ RecordFailed(todo, ok) /\ calls' = calls \o Run(todo, ok)
           /\ IF calls' # <<>> THEN Reply(FallbackStatus(calls'), "registered_tools", {})
                               ELSE Reply("UNAVAILABLE", "unavailable", {})
    BY <1>2
  <2>3. Answers
    BY <2>2, RepliesTyped, FallbackTyped
  <2> HIDE DEF todo
  <2>4. failures' \subseteq Tools
    BY <2>1, <2>2, FailuresTyped DEF CallsInv, Runnable
  <2> QED BY <2>1, <2>2, <2>3, <2>4, RunKeeps DEF CallsInv
<1> QED BY <1>1, <1>2 DEF ModelUnavailable

(* The evidence a question needs, run before the model may finish.          *)
LEMMA AnchoredKeeps ==
    ASSUME CallsInv, FinalAnchored
    PROVE  /\ calls' \in Seq(Keys) /\ Len(calls') <= MaxCalls
           /\ NoToolRunTwice' /\ failures' \subseteq Tools
           /\ seen' \subseteq Keys /\ ToSet(calls') \subseteq seen'
           /\ Answers \/ reply' = reply
           /\ ungrounded' \in BOOLEAN
<1> DEFINE todo == Affordable(IF Missing # <<>> THEN Missing ELSE <<Timeline>>)
<1>1. Runnable(todo)
  <2>1. CASE Missing # <<>>
    BY <2>1, ConstantsAssumption, MissingRunnable DEF CallsInv
  <2>2. CASE Missing = <<>>
    <3>1. calls = <<>>
      BY <2>2 DEF FinalAnchored, NeedsAnchor
    <3> QED BY <2>2, <3>1, ConstantsAssumption, TimelineRunnable DEF CallsInv
  <2> QED BY <2>1, <2>2
<1>2. PICK ok \in SUBSET ToSet(todo) :
         /\ RecordFailed(todo, ok) /\ Anchor(todo, ok)
         /\ IF calls' # <<>> THEN UNCHANGED <<ungrounded, reply>>
                             ELSE \E a \in Finals : JudgeFinal(a)
  BY DEF FinalAnchored
<1> HIDE DEF todo
<1>3. calls' = calls \o Run(todo, ok) /\ seen' = seen \cup ok
  BY <1>2 DEF Anchor
<1>4. ToSet(todo) \subseteq Keys
  BY <1>1 DEF Runnable, ToSet
<1>5. ToSet(calls) \subseteq seen
  BY DEF FinalAnchored, Deciding, CallsInv
<1>6. failures' \subseteq Tools
  BY <1>1, <1>2, FailuresTyped DEF CallsInv, Runnable
<1>7. (Answers \/ reply' = reply) /\ ungrounded' \in BOOLEAN
  <2>1. ungrounded \in BOOLEAN
    BY DEF CallsInv, TypeOK
  <2> QED BY <1>2, <2>1, JudgedTyped
<1>8. /\ calls' \in Seq(Keys) /\ Len(calls') <= MaxCalls /\ NoToolRunTwice'
      /\ ToSet(calls') \subseteq ToSet(calls) \cup ok
  BY <1>1, <1>3, RunKeeps DEF CallsInv
<1>9. seen' \subseteq Keys /\ ToSet(calls') \subseteq seen'
  BY <1>3, <1>4, <1>5, <1>8 DEF CallsInv, TypeOK
<1> QED BY <1>6, <1>7, <1>8, <1>9

(* The types, one conjunct a variable, as the steps below give them.        *)
LEMMA TypedFrom ==
    ASSUME TypeOK, req' = req, steps' \in 0 .. MaxSteps,
           calls' \in Seq(Keys), Len(calls') <= MaxCalls, seen' \subseteq Keys,
           failedKeys' \subseteq Keys, failedTools' \subseteq Tools, failures' \subseteq Tools,
           repeats' \in 0 .. 2, anchored' \in BOOLEAN, ungrounded' \in BOOLEAN,
           stalled' \in BOOLEAN, Answers \/ reply' = reply
    PROVE  TypeOK'
<1>1. reply'.status \in {"none", "ANSWERED", "NEEDS_DATA", "UNAVAILABLE"}
  BY DEF TypeOK, Answers
<1>2. {seen', failedKeys'} \subseteq SUBSET Keys /\ {failedTools', failures'} \subseteq SUBSET Tools
  OBVIOUS
<1>3. {anchored', ungrounded', stalled'} \subseteq BOOLEAN
  BY Zenon
<1> QED BY <1>1, <1>2, <1>3 DEF TypeOK, Questions, Tools

LEMMA StepTyped ==
    ASSUME CallsInv
    PROVE  /\ steps \in 0 .. MaxSteps /\ calls \in Seq(Keys) /\ Len(calls) <= MaxCalls
           /\ seen \subseteq Keys /\ failedKeys \subseteq Keys /\ failedTools \subseteq Tools
           /\ failures \subseteq Tools /\ repeats \in 0 .. 2
           /\ anchored \in BOOLEAN /\ ungrounded \in BOOLEAN /\ stalled \in BOOLEAN
           /\ MaxSteps \in Nat /\ MaxCalls \in Nat
BY ConstantsAssumption DEF CallsInv, TypeOK, ConstantsAssumption

LEMMA CountedStep ==
    ASSUME CallsInv, CountStep
    PROVE  steps' \in 0 .. MaxSteps
BY StepTyped DEF CountStep

(* One more call by the model: a result, or a failure it learns of.         *)
LEMMA RunCallKeeps ==
    ASSUME CallsInv, NEW k \in Keys, ToolRun(k)
    PROVE  CallsInv'
<1>1. /\ reply = NoReply /\ reply' = reply /\ req' = req /\ ~stalled /\ stalled' = stalled
      /\ repeats' = repeats /\ anchored' = anchored /\ ungrounded' = ungrounded
      /\ k \notin seen /\ seen' = seen \cup {k} /\ Len(calls) < MaxCalls /\ CountStep
  BY StepTyped DEF ToolRun, Deciding, CallLimitReached
<1>2. k.tool \in Tools
  BY DEF Tools
<1>3. \/ calls' = Append(calls, k) /\ UNCHANGED <<failedKeys, failedTools, failures>>
      \/ /\ failedKeys' = failedKeys \cup {k} /\ failedTools' = failedTools \cup {k.tool}
         /\ failures' = failures \cup {k.tool} /\ calls' = calls
  BY DEF ToolRun
<1>4. ToSet(calls) \subseteq seen /\ NoToolRunTwice
  BY <1>1 DEF CallsInv
<1>5. /\ calls' \in Seq(Keys) /\ Len(calls') <= MaxCalls
      /\ NoToolRunTwice' /\ ToSet(calls') \subseteq seen'
  <2>1. CASE calls' = calls
    BY <2>1, <1>1, <1>4, StepTyped DEF NoToolRunTwice
  <2>2. CASE calls' = Append(calls, k)
    <3>1. /\ calls \in Seq(Keys) /\ Len(calls) \in Nat /\ DOMAIN calls = 1 .. Len(calls)
      BY StepTyped
    <3>2. /\ calls' \in Seq(Keys) /\ Len(calls') = Len(calls) + 1
          /\ DOMAIN calls' = 1 .. Len(calls) + 1
          /\ \A i \in 1 .. Len(calls) : calls'[i] = calls[i]
          /\ calls'[Len(calls) + 1] = k
      BY <2>2, <3>1
    <3> DEFINE n == Len(calls)
    <3>3. /\ n \in Nat /\ DOMAIN calls = 1 .. n /\ DOMAIN calls' = 1 .. n + 1
          /\ \A i \in 1 .. n : calls'[i] = calls[i]
          /\ calls'[n + 1] = k /\ Len(calls') = n + 1 /\ n < MaxCalls
      BY <1>1, <3>1, <3>2
    <3> HIDE DEF n
    <3>4. \A i \in 1 .. n : calls[i] \in seen /\ calls[i] # k
      BY <1>1, <1>4, <3>3 DEF ToSet
    <3>5. NoToolRunTwice'
      <4> SUFFICES ASSUME NEW i \in 1 .. n + 1, NEW j \in 1 .. n + 1, calls'[i] = calls'[j]
                   PROVE  i = j
        BY <3>3 DEF NoToolRunTwice
      <4>1. (i \in 1 .. n \/ i = n + 1) /\ (j \in 1 .. n \/ j = n + 1)
        BY <3>3
      <4> QED BY <1>4, <3>3, <3>4, <4>1 DEF NoToolRunTwice
    <3>6. \A i \in 1 .. n + 1 : calls'[i] \in seen'
      <4> SUFFICES ASSUME NEW i \in 1 .. n + 1 PROVE calls'[i] \in seen'
        OBVIOUS
      <4>1. i \in 1 .. n \/ i = n + 1
        BY <3>3
      <4> QED BY <1>1, <3>3, <3>4, <4>1
    <3>7. Len(calls') <= MaxCalls
      BY <3>3, StepTyped
    <3> QED BY <3>2, <3>3, <3>5, <3>6, <3>7 DEF ToSet
  <2> QED BY <1>3, <2>1, <2>2
<1>6. failedKeys' \subseteq Keys /\ failedTools' \subseteq Tools /\ failures' \subseteq Tools
  BY <1>2, <1>3, StepTyped
<1>7. TypeOK'
  <2>1. TypeOK /\ steps' \in 0 .. MaxSteps /\ seen' \subseteq Keys
    BY <1>1, StepTyped, CountedStep DEF CallsInv
  <2> QED BY <1>1, <1>5, <1>6, <2>1, StepTyped, TypedFrom
<1> QED BY <1>1, <1>5, <1>7 DEF CallsInv

LEMMA CallsStep ==
    ASSUME CallsInv, [Next]_vars
    PROVE  CallsInv'
<1> USE StepTyped
<1>0. TypeOK /\ NoToolRunTwice
  BY DEF CallsInv
<1>1. CASE UNCHANGED vars
  BY <1>1 DEF vars, loop, CallsInv, TypeOK, NoToolRunTwice
<1>2. CASE ReplyWithoutModel
  <2>1. UNCHANGED <<req, loop, failures>> /\ Answers
    BY <1>2, RepliesTyped DEF ReplyWithoutModel
  <2>2. TypeOK'
    BY <1>0, <2>1, TypedFrom DEF loop
  <2> QED BY <2>1, <2>2 DEF CallsInv, NoToolRunTwice, loop, Answers
<1>3. CASE ModelUnavailable
  <2>1. /\ steps < MaxSteps /\ steps' \in {steps, steps + 1}
        /\ UNCHANGED <<req, seen, failedKeys, failedTools, repeats, anchored, ungrounded, stalled>>
    BY <1>3 DEF ModelUnavailable
  <2>2. /\ calls' \in Seq(Keys) /\ Len(calls') <= MaxCalls
        /\ NoToolRunTwice' /\ Answers /\ failures' \subseteq Tools
    BY <1>3, UnavailableKeeps
  <2>3. steps' \in 0 .. MaxSteps
    BY <2>1
  <2>4. TypeOK'
    BY <1>0, <2>1, <2>2, <2>3, TypedFrom
  <2> QED BY <2>1, <2>2, <2>4 DEF CallsInv, Answers
<1>4. CASE FinalAfterFailedAnalysis
  <2>1. /\ CountStep /\ Answers
        /\ UNCHANGED <<req, calls, seen, failedKeys, failedTools, repeats, anchored,
                       ungrounded, stalled, failures>>
    BY <1>4, RepliesTyped DEF FinalAfterFailedAnalysis
  <2>2. TypeOK'
    BY <1>0, <2>1, CountedStep, TypedFrom
  <2> QED BY <2>1, <2>2 DEF CallsInv, NoToolRunTwice, Answers
<1>5. CASE FinalAnchored
  <2>1. /\ CountStep /\ anchored' = TRUE
        /\ UNCHANGED <<req, failedKeys, failedTools, repeats, stalled>>
    BY <1>5 DEF FinalAnchored
  <2>2. /\ calls' \in Seq(Keys) /\ Len(calls') <= MaxCalls
        /\ NoToolRunTwice' /\ failures' \subseteq Tools
        /\ seen' \subseteq Keys /\ ToSet(calls') \subseteq seen'
        /\ Answers \/ reply' = reply
        /\ ungrounded' \in BOOLEAN
    BY <1>5, AnchoredKeeps
  <2>3. TypeOK'
    BY <1>0, <2>1, <2>2, CountedStep, TypedFrom
  <2> QED BY <2>1, <2>2, <2>3 DEF CallsInv
<1>6. CASE FinalJudged
  <2>1. /\ CountStep /\ reply = NoReply
        /\ UNCHANGED <<req, calls, seen, failedKeys, failedTools, repeats, anchored, stalled, failures>>
    BY <1>6 DEF FinalJudged, Deciding
  <2>2. (Answers \/ reply' = reply) /\ ungrounded' \in BOOLEAN
    BY <1>6, JudgedTyped DEF FinalJudged
  <2>3. TypeOK'
    BY <1>0, <2>1, <2>2, CountedStep, TypedFrom
  <2> QED BY <2>1, <2>3 DEF CallsInv, NoToolRunTwice
<1>7. CASE ToolRejected
  <2>1. CountStep /\ UNCHANGED <<req, calls, seen, failedKeys, failedTools, repeats, anchored,
                                 ungrounded, stalled, failures, reply>>
    BY <1>7 DEF ToolRejected
  <2>2. TypeOK'
    BY <1>0, <2>1, CountedStep, TypedFrom
  <2> QED BY <2>1, <2>2 DEF CallsInv, NoToolRunTwice
<1>8. ASSUME NEW k \in Keys, ToolRepeated(k) PROVE CallsInv'
  <2>1. /\ CountStep /\ ~stalled /\ repeats' = repeats + 1
        /\ stalled' = (k \in failedKeys \/ repeats' >= 2)
        /\ UNCHANGED <<req, calls, seen, failedKeys, failedTools, anchored, ungrounded, failures, reply>>
    BY <1>8 DEF ToolRepeated, Deciding
  <2>2. repeats <= 1
    BY <2>1 DEF CallsInv
  <2>3. repeats' \in 0 .. 2 /\ (stalled' \/ repeats' <= 1)
    <3>1. stalled' \/ ~(repeats' >= 2)
      BY <2>1, Zenon
    <3>2. repeats' = repeats + 1
      BY <2>1
    <3> QED BY <2>2, <3>1, <3>2
  <2>4. stalled' \in BOOLEAN
    BY <2>1, Zenon
  <2>5. TypeOK'
    BY <1>0, <2>1, <2>3, <2>4, CountedStep, TypedFrom
  <2> QED BY <2>1, <2>3, <2>5 DEF CallsInv, NoToolRunTwice
<1>9. ASSUME NEW k \in Keys, ToolRun(k) PROVE CallsInv'
  BY <1>9, RunCallKeeps
<1>10. CASE ToolBeyondLimit \/ LoopEnded
  <2>1. /\ steps' \in 0 .. MaxSteps
        /\ UNCHANGED <<req, seen, failedKeys, failedTools, repeats, anchored, ungrounded, stalled>>
        /\ Conclude
    BY <1>10, CountedStep DEF ToolBeyondLimit, LoopEnded
  <2>2. /\ calls' \in Seq(Keys) /\ Len(calls') <= MaxCalls
        /\ NoToolRunTwice' /\ Answers /\ failures' \subseteq Tools
    BY <2>1, ConcludeKeeps
  <2>3. TypeOK'
    BY <1>0, <2>1, <2>2, TypedFrom
  <2> QED BY <2>1, <2>2, <2>3 DEF CallsInv, Answers
<1> QED BY <1>1, <1>2, <1>3, <1>4, <1>5, <1>6, <1>7, <1>8, <1>9, <1>10 DEF Next

LEMMA CallsStart ==
    ASSUME Init
    PROVE  CallsInv
<1>1. calls = <<>> /\ <<>> \in Seq(Keys) /\ Len(<<>>) = 0 /\ DOMAIN <<>> = {}
  BY DEF Init
<1>2. TypeOK
  <2>1. reply.status \in {"none", "ANSWERED", "NEEDS_DATA", "UNAVAILABLE"}
    BY DEF Init, NoReply
  <2>2. {anchored, ungrounded, stalled} \subseteq BOOLEAN
    BY DEF Init
  <2>3. {seen, failedKeys} \subseteq SUBSET Keys /\ {failedTools, failures} \subseteq SUBSET Tools
    BY DEF Init
  <2>4. steps \in 0 .. MaxSteps /\ repeats \in 0 .. 2 /\ Len(calls) <= MaxCalls
    BY <1>1, ConstantsAssumption DEF Init, ConstantsAssumption
  <2> QED BY <1>1, <2>1, <2>2, <2>3, <2>4 DEF Init, TypeOK
<1> QED BY <1>1, <1>2 DEF Init, CallsInv, NoToolRunTwice, ToSet

(* The loop stays within its limits of calls and decisions, and what it     *)
(* records of a request is of the registered tools.                         *)
THEOREM LimitsKept == Spec => []TypeOK
<1>1. Init => CallsInv
  BY CallsStart
<1>2. CallsInv /\ [Next]_vars => CallsInv'
  BY CallsStep
<1>3. CallsInv => TypeOK
  BY DEF CallsInv
<1> QED BY <1>1, <1>2, <1>3, PTL DEF Spec

(* Whoever makes a call, the model, the server before the model may finish, *)
(* or the server at the end: no result is shown twice.                      *)
THEOREM NoToolRunTwiceHolds == Spec => []NoToolRunTwice
<1>1. Init => CallsInv
  BY CallsStart
<1>2. CallsInv /\ [Next]_vars => CallsInv'
  BY CallsStep
<1>3. CallsInv => NoToolRunTwice
  BY DEF CallsInv
<1> QED BY <1>1, <1>2, <1>3, PTL DEF Spec

-----------------------------------------------------------------------------
(***************************************************************************)
(* For every set of pages, requests and conversations, and in whatever     *)
(* order answers come: no request is sent twice, what is on the screen is  *)
(* of the tab, and a follow-up knows the turns its panel asked for.        *)
(***************************************************************************)

Promises == [path : Paths, by : Nat]
UnderWay == [of : Pages, shown : BOOLEAN, rest : Seq(SUBSET Paths), failed : BOOLEAN, waits : SUBSET Promises]

RequestsTyped ==
    /\ renders \in [DOMAIN renders -> UnderWay]
    /\ memo \in [Paths -> Promises \cup {Nil}]
    /\ flight \subseteq Promises /\ got \subseteq Paths

(* What is remembered of a path is its request; of one that is on its way,  *)
(* that very request; of one that was answered, a request that is settled.  *)
Remembered ==
    /\ \A p \in Paths : memo[p] # Nil => memo[p].path = p
    /\ \A f \in flight : f.path \notin Fresh => memo[f.path] = f
    /\ \A p \in got \ Fresh : memo[p] # Nil /\ memo[p] \notin flight
    /\ \A n \in DOMAIN renders : renders[n].waits \subseteq flight

(* The routings that have a page under way, and the one on the screen.      *)
Routed ==
    /\ nav \in Nat /\ DOMAIN renders \subseteq 0 .. nav
    /\ DOMAIN renders \subseteq left \cup {nav}
    /\ nav \in DOMAIN renders => renders[nav].of = hash
    /\ screen.by \in 0 .. nav
    /\ screen.state = "loading" => screen.by \in DOMAIN renders /\ ~renders[screen.by].shown

Drawn(n) == n \in 0 .. nav /\ (n \in DOMAIN renders => renders[n].shown)

(* Panels, questions and turns are of pages that were drawn.  A panel that  *)
(* asks has one question on its way, of its own conversation, and of the    *)
(* turns that question does not know of none is the panel's own.            *)
Chatted ==
    /\ conv \in [Chats -> [turns : Seq([text : Nat, by : Nat, knew : Nat]), draft : Nat]]
    /\ asked \in Nat
    /\ asks \subseteq [by : Nat, chat : Chats, text : Nat, knew : Nat]
    /\ panel # Nil => /\ panel \in [by : Nat, chat : Chats, busy : BOOLEAN, input : Nat, shown : Nat]
                      /\ Drawn(panel.by)
    /\ \A a \in asks :
          /\ Drawn(a.by)
          /\ panel # Nil /\ a.by = panel.by => a.chat = panel.chat
          /\ \A i \in a.knew + 1 .. Len(conv[a.chat].turns) : conv[a.chat].turns[i].by # a.by

ShellInv ==
    RequestsTyped /\ Remembered /\ Routed /\ ScreenIsOfTheTab /\ Chatted /\ FollowUpsKnowTheTurns

-----------------------------------------------------------------------------
LEMMA Shell ==
    /\ Before \in [Pages -> Seq(SUBSET Paths)] /\ After \in [Pages -> Seq(SUBSET Paths)]
    /\ \A p \in Pages : Before[p] # <<>>
    /\ Fresh \subseteq Paths /\ Board \notin Pages
    /\ ChatOf \in [Pages -> Chats \cup {NoChat}] /\ NoChat \notin Chats
    /\ Nil \notin Promises
  BY ShellAssumption DEF Promises

(* A page awaits the next of its sets.                                      *)
LEMMA RequestKeeps ==
    ASSUME RequestsTyped, Remembered, NEW n \in Nat, NEW page \in Pages, NEW shown \in BOOLEAN,
           NEW sets \in Seq(SUBSET Paths), sets # <<>>, Request(n, page, shown, sets), got' = got
    PROVE  /\ RequestsTyped' /\ Remembered'
           /\ DOMAIN renders' = DOMAIN renders \cup {n}
           /\ renders'[n].of = page /\ renders'[n].shown = shown
           /\ \A k \in DOMAIN renders \ {n} : renders'[k] = renders[k]
<1>. DEFINE promises == {Promise(p, n) : p \in Head(sets)}
            new == {q \in promises : q.path \in Fresh \/ memo[q.path] = Nil}
            rec == [of |-> page, shown |-> shown, rest |-> Tail(sets), failed |-> FALSE,
                    waits |-> promises \cap (flight \cup new)]
<1>1. Head(sets) \subseteq Paths /\ Tail(sets) \in Seq(SUBSET Paths)
  OBVIOUS
<1>2. flight' = flight \cup new /\ memo' = Remember(promises) /\ renders' = With(renders, n, rec)
  BY DEF Request
<1>3. ASSUME NEW p \in Head(sets)
      PROVE  /\ Promise(p, n) \in Promises /\ Promise(p, n).path = p
             /\ p \notin Fresh /\ memo[p] # Nil => Promise(p, n) = memo[p]
  <2>1. p \in Paths /\ [path |-> p, by |-> n] \in Promises /\ [path |-> p, by |-> n].path = p
    BY <1>1 DEF Promises
  <2>2. memo[p] \in Promises \cup {Nil} /\ (memo[p] # Nil => memo[p].path = p)
    BY <2>1 DEF RequestsTyped, Remembered
  <2>. QED
    BY <2>1, <2>2 DEF Promise
<1>4. promises \subseteq Promises /\ new \subseteq promises
  BY <1>3
<1>5. \A q, r \in promises : q.path = r.path => q = r
  BY <1>3
<1>6. ASSUME NEW p \in Paths
      PROVE  /\ p \notin Fresh /\ p \in Head(sets) => memo'[p] = Promise(p, n)
             /\ ~(p \notin Fresh /\ p \in Head(sets)) => memo'[p] = memo[p]
  <2>1. CASE p \notin Fresh /\ p \in Head(sets)
    <3>1. Promise(p, n) \in promises /\ Promise(p, n).path = p
      BY <1>3, <2>1
    <3>2. (CHOOSE q \in promises : q.path = p) = Promise(p, n)
      BY <1>5, <3>1
    <3>. HIDE DEF promises
    <3>. QED
      BY <1>2, <2>1, <3>1, <3>2 DEF Remember
  <2>2. CASE ~(p \notin Fresh /\ p \in Head(sets))
    <3>1. ~(p \notin Fresh /\ \E q \in promises : q.path = p)
      BY <1>3, <2>2
    <3>. HIDE DEF promises
    <3>. QED
      BY <1>2, <2>2, <3>1 DEF Remember
  <2>. QED
    BY <2>1, <2>2
<1>7. memo' \in [Paths -> Promises \cup {Nil}]
  <2>1. \A p \in Paths : memo'[p] \in Promises \cup {Nil}
    BY <1>3, <1>6 DEF RequestsTyped
  <2>2. memo' = [p \in Paths |-> memo'[p]]
    BY <1>2 DEF Remember
  <2>. QED
    BY <2>1, <2>2
<1>8. rec \in UnderWay
  <2>1. promises \cap (flight \cup new) \in SUBSET Promises
    BY <1>4
  <2>. HIDE DEF promises, new
  <2>. QED
    BY <1>1, <2>1 DEF UnderWay
<1>8a. rec.waits \subseteq flight \cup new /\ rec.of = page /\ rec.shown = shown
  OBVIOUS
<1>. HIDE DEF rec
<1>9. /\ DOMAIN renders' = DOMAIN renders \cup {n} /\ renders'[n] = rec
      /\ \A k \in DOMAIN renders \ {n} : renders'[k] = renders[k]
      /\ renders' = [k \in DOMAIN renders' |-> renders'[k]]
  BY <1>2 DEF With
<1>10. renders' \in [DOMAIN renders' -> UnderWay]
  <2>1. \A k \in DOMAIN renders' : renders'[k] \in UnderWay
    BY <1>8, <1>9 DEF RequestsTyped
  <2>. QED
    BY <1>9, <2>1
<1>11. RequestsTyped'
  BY <1>2, <1>4, <1>7, <1>10 DEF RequestsTyped
<1>12. \A p \in Paths : memo'[p] # Nil => memo'[p].path = p
  BY <1>3, <1>6 DEF Remembered
<1>13. \A p \in Paths \ Fresh : memo[p] # Nil => memo'[p] = memo[p]
  BY <1>3, <1>6
<1>14. ASSUME NEW f \in flight', f.path \notin Fresh PROVE memo'[f.path] = f
  <2>1. CASE f \in flight
    <3>1. f.path \in Paths /\ memo[f.path] = f /\ f # Nil
      BY <1>14, <2>1, Shell DEF RequestsTyped, Remembered, Promises
    <3>. QED
      BY <1>14, <1>13, <3>1
  <2>2. CASE f \in new
    <3>1. PICK p \in Head(sets) : f = Promise(p, n)
      BY <1>4, <2>2
    <3>2. f.path = p /\ p \in Paths
      BY <1>1, <1>3, <3>1
    <3>. QED
      BY <1>6, <1>14, <3>1, <3>2
  <2>. QED
    BY <1>2, <2>1, <2>2
<1>15. ASSUME NEW p \in got' \ Fresh PROVE memo'[p] # Nil /\ memo'[p] \notin flight'
  <2>1. p \in Paths \ Fresh /\ memo[p] # Nil /\ memo[p] \notin flight /\ memo[p].path = p
    BY <1>15 DEF RequestsTyped, Remembered
  <2>2. memo[p] \notin new
    BY <2>1
  <2>. QED
    BY <1>2, <1>13, <2>1, <2>2
<1>16. ASSUME NEW k \in DOMAIN renders' PROVE renders'[k].waits \subseteq flight'
  <2>1. CASE k = n
    BY <1>2, <1>9, <1>8a, <2>1
  <2>2. CASE k # n
    BY <1>2, <1>9, <2>2 DEF Remembered
  <2>. QED
    BY <2>1, <2>2
<1>17. Remembered'
  BY <1>12, <1>14, <1>15, <1>16 DEF Remembered
<1>. QED
  BY <1>9, <1>11, <1>17, <1>8a

(* Nothing that was drawn is undone, and no routing is used twice.          *)
Onward ==
    /\ nav' \in Nat /\ nav <= nav'
    /\ \A n \in DOMAIN renders' : n \in 0 .. nav => n \in DOMAIN renders /\ (renders[n].shown => renders'[n].shown)

LEMMA DrawnStays ==
    ASSUME Routed, Onward, NEW n, Drawn(n) PROVE Drawn(n)'
  BY DEF Routed, Onward, Drawn

(* The panel stays, goes, or is mounted anew by a page that is drawn.       *)
LEMMA ChatsLeft ==
    ASSUME Routed, Chatted, FollowUpsKnowTheTurns, Onward, UNCHANGED chatVars, panel' = panel \/ panel' = Nil
    PROVE  Chatted' /\ FollowUpsKnowTheTurns'
<1>1. conv' = conv /\ asks' = asks /\ asked' = asked
  BY DEF chatVars
<1>2. Chatted'
  BY <1>1, DrawnStays DEF Chatted
<1>3. FollowUpsKnowTheTurns'
  BY <1>1 DEF FollowUpsKnowTheTurns
<1>. QED
  BY <1>2, <1>3

LEMMA PanelMounted ==
    ASSUME Routed, Chatted, FollowUpsKnowTheTurns, Onward, UNCHANGED chatVars,
           NEW n \in DOMAIN renders, ~renders[n].shown, NEW page \in Pages, panel' = Mount(page, n), Drawn(n)'
    PROVE  Chatted' /\ FollowUpsKnowTheTurns'
<1>1. conv' = conv /\ asks' = asks /\ asked' = asked
  BY DEF chatVars
<1>2. CASE ChatOf[page] = NoChat
  BY <1>2, ChatsLeft DEF Mount
<1>3. CASE ChatOf[page] # NoChat
  <2>. DEFINE c == ChatOf[page]
  <2>1. c \in Chats /\ n \in Nat /\ n \in 0 .. nav
    BY <1>3, Shell DEF Routed
  <2>2. conv[c].turns \in Seq([text : Nat, by : Nat, knew : Nat]) /\ conv[c].draft \in Nat
    BY <2>1 DEF Chatted
  <2>3. Len(conv[c].turns) \in Nat
    BY <2>2
  <2>4. panel' = [by |-> n, chat |-> c, busy |-> FALSE, input |-> conv[c].draft, shown |-> Len(conv[c].turns)]
    BY <1>3 DEF Mount
  <2>5. panel' \in [by : Nat, chat : Chats, busy : BOOLEAN, input : Nat, shown : Nat]
    BY <2>1, <2>2, <2>3, <2>4
  <2>6. panel'.by = n /\ panel'.chat = c /\ panel'.busy = FALSE /\ panel'.shown = Len(conv'[panel'.chat].turns)
    BY <1>1, <2>4
  <2>7. \A a \in asks : a.by # n
    BY DEF Chatted, Drawn
  <2>8. Chatted'
    BY <1>1, <2>5, <2>6, <2>7, DrawnStays DEF Chatted
  <2>9. ~\E a \in asks' : a.by = panel'.by
    BY <1>1, <2>6, <2>7
  <2>10. \A i \in panel'.shown + 1 .. Len(conv'[panel'.chat].turns) :
            conv'[panel'.chat].turns[i].by # panel'.by
    BY <1>1, <2>3, <2>6
  <2>11. /\ \A a, b \in asks' : a.by = b.by => a = b
         /\ \A d \in Chats : \A j \in DOMAIN conv'[d].turns :
               \A i \in conv'[d].turns[j].knew + 1 .. j - 1 : conv'[d].turns[i].by # conv'[d].turns[j].by
    BY <1>1 DEF FollowUpsKnowTheTurns
  <2>. QED
    BY <2>6, <2>8, <2>9, <2>10, <2>11 DEF FollowUpsKnowTheTurns
<1>. QED
  BY <1>2, <1>3

-----------------------------------------------------------------------------
LEMMA RouteKeeps ==
    ASSUME ShellInv, NEW page \in Pages \cup {Board}, Route(page) PROVE ShellInv'
<1>. USE DEF ShellInv
<1>1. nav' = nav + 1 /\ hash' = page /\ left' = left \cup (DOMAIN renders \cap {nav}) /\ UNCHANGED chatVars
  BY DEF Route
<1>2. CASE page = Board
  <2>1. UNCHANGED <<screen, panel, requestVars>>
    BY <1>2 DEF Route
  <2>2. RequestsTyped' /\ Remembered'
    BY <2>1 DEF RequestsTyped, Remembered, requestVars
  <2>3. Routed' /\ Onward
    BY <1>1, <2>1 DEF Routed, Onward, requestVars
  <2>4. ScreenIsOfTheTab'
    BY <1>1, <1>2, <2>1 DEF ScreenIsOfTheTab, Routed
  <2>. QED
    BY <1>1, <2>1, <2>2, <2>3, <2>4, ChatsLeft
<1>3. CASE page \in Pages
  <2>1. /\ screen' = [of |-> page, by |-> nav + 1, state |-> "loading"] /\ panel' = Nil /\ got' = got
        /\ Request(nav + 1, page, FALSE, Before[page])
    BY <1>3, Shell DEF Route
  <2>2. Before[page] \in Seq(SUBSET Paths) /\ Before[page] # <<>> /\ nav + 1 \in Nat
    BY <1>3, Shell DEF Routed
  <2>3. /\ RequestsTyped' /\ Remembered'
        /\ DOMAIN renders' = DOMAIN renders \cup {nav + 1}
        /\ renders'[nav + 1].of = page /\ renders'[nav + 1].shown = FALSE
        /\ \A k \in DOMAIN renders \ {nav + 1} : renders'[k] = renders[k]
    BY <1>3, <2>1, <2>2, RequestKeeps
  <2>4. Routed'
    BY <1>1, <2>1, <2>3 DEF Routed
  <2>5. Onward
    BY <1>1, <2>3 DEF Routed, Onward
  <2>6. ScreenIsOfTheTab'
    BY <1>1, <2>1 DEF ScreenIsOfTheTab, Routed
  <2>. QED
    BY <1>1, <2>1, <2>3, <2>4, <2>5, <2>6, ChatsLeft
<1>. QED
  BY <1>2, <1>3

LEMMA ArriveKeeps ==
    ASSUME ShellInv, NEW f \in flight, NEW ok \in BOOLEAN, Arrive(f, ok) PROVE ShellInv'
<1>. USE DEF ShellInv
<1>1. /\ flight' = flight \ {f} /\ got' = (IF ok THEN got \cup {f.path} ELSE got)
      /\ memo' = (IF ~ok /\ memo[f.path] = f THEN [memo EXCEPT ![f.path] = Nil] ELSE memo)
      /\ UNCHANGED <<hash, nav, left, screen, panel, chatVars>>
  BY DEF Arrive
<1>2. f \in Promises /\ f.path \in Paths
  BY DEF RequestsTyped, Promises
<1>3. /\ DOMAIN renders' = DOMAIN renders
      /\ \A n \in DOMAIN renders : /\ renders'[n] \in UnderWay /\ renders'[n].of = renders[n].of
                                   /\ renders'[n].shown = renders[n].shown
                                   /\ renders'[n].waits = renders[n].waits \ {f}
      /\ renders' = [n \in DOMAIN renders |-> renders'[n]]
  <2>1. renders' = [n \in DOMAIN renders |->
            [renders[n] EXCEPT
                !.waits = @ \ {f},
                !.failed = ~ok /\ f \in renders[n].waits /\ f.path \notin Optional[renders[n].of]]]
    BY DEF Arrive
  <2>2. ASSUME NEW n \in DOMAIN renders
        PROVE  /\ renders'[n] \in UnderWay /\ renders'[n].of = renders[n].of
               /\ renders'[n].shown = renders[n].shown
               /\ renders'[n].waits = renders[n].waits \ {f}
    <3>1. renders[n] \in UnderWay
      BY DEF RequestsTyped
    <3>. DEFINE w == renders[n].waits \ {f}
                broken == ~ok /\ f \in renders[n].waits /\ f.path \notin Optional[renders[n].of]
    <3>2. renders'[n] = [renders[n] EXCEPT !.waits = w, !.failed = broken]
      BY <2>1
    <3>3. w \in SUBSET Promises /\ broken \in BOOLEAN
      BY <3>1 DEF UnderWay
    <3>4. w = renders[n].waits \ {f}
      OBVIOUS
    <3>. HIDE DEF w, broken
    <3>. QED
      BY <3>1, <3>2, <3>3, <3>4 DEF UnderWay
  <2>. QED
    BY <2>1, <2>2
<1>4. RequestsTyped'
  BY <1>1, <1>2, <1>3 DEF RequestsTyped
<1>5. Remembered'
  <2>1. \A p \in Paths : memo'[p] # Nil => memo'[p] = memo[p]
    BY <1>1, <1>2 DEF RequestsTyped
  <2>2. \A p \in Paths : memo[p] # f => memo'[p] = memo[p]
    BY <1>1, <1>2 DEF RequestsTyped
  <2>3. \A g \in flight' : g \in flight /\ g # f /\ g.path \in Paths
    BY <1>1 DEF RequestsTyped, Promises
  <2>4. \A g \in flight' : g.path \notin Fresh => memo'[g.path] = g
    BY <2>2, <2>3 DEF Remembered
  <2>5. ASSUME NEW p \in got' \ Fresh PROVE memo'[p] # Nil /\ memo'[p] \notin flight'
    <3>1. CASE p \in got
      <4>1. p \in Paths /\ memo[p] # Nil /\ memo[p] \notin flight /\ memo[p] # f
        BY <2>5, <3>1 DEF RequestsTyped, Remembered
      <4>. QED
        BY <1>1, <2>2, <4>1
    <3>2. CASE p \notin got
      <4>1. ok /\ p = f.path
        BY <1>1, <2>5, <3>2
      <4>2. memo'[p] = memo[p] /\ memo[p] = f
        BY <1>1, <2>5, <4>1 DEF Remembered
      <4>. QED
        BY <1>1, <1>2, <4>2, Shell
    <3>. QED
      BY <3>1, <3>2
  <2>6. \A p \in Paths : memo'[p] # Nil => memo'[p].path = p
    BY <2>1 DEF Remembered
  <2>7. \A n \in DOMAIN renders' : renders'[n].waits \subseteq flight'
    BY <1>1, <1>3 DEF Remembered
  <2>. QED
    BY <2>4, <2>5, <2>6, <2>7 DEF Remembered
<1>6. Routed' /\ Onward /\ ScreenIsOfTheTab'
  BY <1>1, <1>3 DEF Routed, Onward, ScreenIsOfTheTab
<1>. QED
  BY <1>1, <1>4, <1>5, <1>6, ChatsLeft

(* What a page that is under way is made of.                                *)
LEMMA OfRender ==
    ASSUME RequestsTyped, Routed, NEW n \in DOMAIN renders
    PROVE  /\ n \in Nat /\ n \in 0 .. nav /\ renders[n].of \in Pages /\ renders[n].shown \in BOOLEAN
           /\ renders[n].rest \in Seq(SUBSET Paths)
<1>1. renders[n] \in UnderWay
  BY DEF RequestsTyped
<1>. QED
  BY <1>1 DEF UnderWay, Routed

LEMMA NextSetKeeps ==
    ASSUME ShellInv, NEW n \in DOMAIN renders, NextSet(n) PROVE ShellInv'
<1>. USE DEF ShellInv
<1>1. /\ renders[n].rest # <<>> /\ Request(n, renders[n].of, renders[n].shown, renders[n].rest)
      /\ UNCHANGED <<hash, nav, left, screen, panel, got, chatVars>>
  BY DEF NextSet
<1>2. /\ RequestsTyped' /\ Remembered'
      /\ DOMAIN renders' = DOMAIN renders \cup {n}
      /\ renders'[n].of = renders[n].of /\ renders'[n].shown = renders[n].shown
      /\ \A k \in DOMAIN renders \ {n} : renders'[k] = renders[k]
  <2>1. /\ n \in Nat /\ renders[n].of \in Pages /\ renders[n].shown \in BOOLEAN
        /\ renders[n].rest \in Seq(SUBSET Paths)
    BY OfRender
  <2>2. got' = got
    BY <1>1
  <2>. QED
    BY <1>1, <2>1, <2>2, RequestKeeps
<1>3. Routed' /\ Onward /\ ScreenIsOfTheTab'
  BY <1>1, <1>2 DEF Routed, Onward, ScreenIsOfTheTab
<1>. QED
  BY <1>1, <1>2, <1>3, ChatsLeft

(* A page that ends leaves the requests alone.                              *)
LEMMA WithoutOne ==
    ASSUME RequestsTyped, Remembered, NEW n, renders' = Without(renders, n), UNCHANGED <<memo, flight, got>>
    PROVE  /\ RequestsTyped' /\ Remembered' /\ DOMAIN renders' = DOMAIN renders \ {n}
           /\ \A k \in DOMAIN renders' : renders'[k] = renders[k]
<1>1. /\ DOMAIN renders' = DOMAIN renders \ {n} /\ \A k \in DOMAIN renders' : renders'[k] = renders[k]
      /\ renders' = [k \in DOMAIN renders' |-> renders'[k]]
  BY DEF Without
<1>2. RequestsTyped'
  BY <1>1 DEF RequestsTyped
<1>3. Remembered'
  BY <1>1 DEF Remembered
<1>. QED
  BY <1>1, <1>2, <1>3

LEMMA DrawKeeps ==
    ASSUME ShellInv, NEW n \in DOMAIN renders, Draw(n) PROVE ShellInv'
<1>. USE DEF ShellInv
<1>. DEFINE page == renders[n].of
<1>1. /\ ~renders[n].shown /\ screen' = [of |-> page, by |-> n, state |-> "page"]
      /\ panel' = Mount(page, n) /\ UNCHANGED <<hash, nav, left, got, chatVars>>
  BY DEF Draw, DrawOn
<1>2. page \in Pages /\ n \in Nat /\ n \in 0 .. nav /\ nav \in Nat /\ n \in left \cup {nav}
  BY OfRender DEF Routed
<1>3. /\ RequestsTyped' /\ Remembered' /\ DOMAIN renders' \subseteq DOMAIN renders
      /\ \A k \in DOMAIN renders' : renders'[k].of = renders[k].of /\ (renders[k].shown => renders'[k].shown)
      /\ n \in DOMAIN renders' => renders'[n].shown
  <2>1. CASE After[page] = <<>>
    <3>1. renders' = Without(renders, n) /\ UNCHANGED <<memo, flight, got>>
      BY <1>1, <2>1 DEF Draw, DrawOn
    <3>. QED
      BY <3>1, WithoutOne
  <2>2. CASE After[page] # <<>>
    <3>1. Request(n, page, TRUE, After[page])
      BY <2>2 DEF Draw, DrawOn
    <3>2. After[page] \in Seq(SUBSET Paths)
      BY <1>2, Shell
    <3>3. /\ RequestsTyped' /\ Remembered' /\ DOMAIN renders' = DOMAIN renders \cup {n}
          /\ renders'[n].of = page /\ renders'[n].shown = TRUE
          /\ \A k \in DOMAIN renders \ {n} : renders'[k] = renders[k]
      BY <1>1, <1>2, <2>2, <3>1, <3>2, RequestKeeps
    <3>4. ASSUME NEW k \in DOMAIN renders'
          PROVE  renders'[k].of = renders[k].of /\ (renders[k].shown => renders'[k].shown)
      BY <3>3
    <3>. QED
      BY <3>3, <3>4
  <2>. QED
    BY <2>1, <2>2
<1>4. screen'.of = page /\ screen'.by = n /\ screen'.state = "page"
  BY <1>1
<1>5. Routed' /\ Onward /\ Drawn(n)'
  BY <1>1, <1>2, <1>3, <1>4 DEF Routed, Onward, Drawn
<1>6. ScreenIsOfTheTab'
  <2>1. n = nav => page = hash
    BY DEF Routed
  <2>2. panel' # Nil => panel'.by = n /\ panel'.chat = ChatOf[page]
    BY <1>1 DEF Mount
  <2>. QED
    BY <1>1, <1>2, <1>4, <2>1, <2>2 DEF ScreenIsOfTheTab
<1>. QED
  BY <1>1, <1>2, <1>3, <1>5, <1>6, PanelMounted

LEMMA EndKeeps ==
    ASSUME ShellInv, NEW n \in DOMAIN renders, Finish(n) \/ DrawError(n) PROVE ShellInv'
<1>. USE DEF ShellInv
<1>1. /\ renders' = Without(renders, n) /\ UNCHANGED <<memo, flight, got>>
      /\ UNCHANGED <<hash, nav, left, chatVars>>
  BY DEF Finish, DrawError
<1>2. /\ RequestsTyped' /\ Remembered' /\ DOMAIN renders' = DOMAIN renders \ {n}
      /\ \A k \in DOMAIN renders' : renders'[k] = renders[k]
  BY <1>1, WithoutOne
<1>3. Onward
  BY <1>1, <1>2 DEF Routed, Onward
<1>4. CASE Finish(n)
  <2>1. renders[n].shown /\ UNCHANGED <<screen, panel>>
    BY <1>4 DEF Finish
  <2>2. Routed' /\ ScreenIsOfTheTab'
    BY <1>1, <1>2, <2>1 DEF Routed, ScreenIsOfTheTab
  <2>. QED
    BY <1>1, <1>2, <1>3, <2>1, <2>2, ChatsLeft
<1>5. CASE DrawError(n)
  <2>1. screen' = [of |-> renders[n].of, by |-> n, state |-> "error"] /\ panel' = Nil
    BY <1>5 DEF DrawError
  <2>2. screen'.of = renders[n].of /\ screen'.by = n /\ screen'.state = "error"
    BY <2>1
  <2>3. Routed' /\ ScreenIsOfTheTab'
    BY <1>1, <1>2, <2>1, <2>2 DEF Routed, ScreenIsOfTheTab
  <2>. QED
    BY <1>1, <1>2, <1>3, <2>1, <2>3, ChatsLeft
<1>. QED
  BY <1>4, <1>5

-----------------------------------------------------------------------------
(* The panel.  What a step of the conversation leaves alone.                *)
LEMMA PageLeft ==
    ASSUME ShellInv, UNCHANGED <<hash, nav, left, screen, requestVars>>,
           panel # Nil /\ panel' # Nil => panel'.by = panel.by /\ panel'.chat = panel.chat,
           panel' # Nil => panel # Nil
    PROVE  /\ RequestsTyped' /\ Remembered' /\ Routed' /\ ScreenIsOfTheTab'
           /\ \A n : Drawn(n)' <=> Drawn(n)
<1>. USE DEF ShellInv
<1>1. UNCHANGED <<renders, memo, flight, got>>
  BY DEF requestVars
<1>2. RequestsTyped' /\ Remembered'
  BY <1>1 DEF RequestsTyped, Remembered
<1>3. Routed' /\ ScreenIsOfTheTab'
  BY <1>1 DEF Routed, ScreenIsOfTheTab
<1>. QED
  BY <1>1, <1>2, <1>3 DEF Drawn

LEMMA OfPanel ==
    ASSUME Chatted, panel # Nil
    PROVE  /\ panel.by \in Nat /\ panel.chat \in Chats /\ panel.busy \in BOOLEAN /\ panel.input \in Nat
           /\ panel.shown \in Nat /\ Drawn(panel.by)
           /\ conv[panel.chat].turns \in Seq([text : Nat, by : Nat, knew : Nat])
           /\ Len(conv[panel.chat].turns) \in Nat
<1>1. panel \in [by : Nat, chat : Chats, busy : BOOLEAN, input : Nat, shown : Nat] /\ Drawn(panel.by)
  BY DEF Chatted
<1>2. panel.chat \in Chats
  BY <1>1
<1>3. conv[panel.chat].turns \in Seq([text : Nat, by : Nat, knew : Nat])
  BY <1>2 DEF Chatted
<1>. QED
  BY <1>1, <1>2, <1>3

LEMMA TypeKeeps == ASSUME ShellInv, Type PROVE ShellInv'
<1>. USE DEF ShellInv
<1>1. /\ panel # Nil /\ asked' = asked + 1 /\ panel' = [panel EXCEPT !.input = asked + 1]
      /\ conv' = [conv EXCEPT ![panel.chat].draft = asked + 1] /\ asks' = asks
      /\ UNCHANGED <<hash, nav, left, screen, requestVars>>
  BY DEF Type, Usable
<1>2. /\ panel' \in [by : Nat, chat : Chats, busy : BOOLEAN, input : Nat, shown : Nat]
      /\ panel'.by = panel.by /\ panel'.chat = panel.chat /\ panel'.busy = panel.busy /\ panel'.shown = panel.shown
  <2>1. asked + 1 \in Nat /\ panel \in [by : Nat, chat : Chats, busy : BOOLEAN, input : Nat, shown : Nat]
    BY <1>1 DEF Chatted
  <2>. QED
    BY <1>1, <2>1
<1>3. /\ RequestsTyped' /\ Remembered' /\ Routed' /\ ScreenIsOfTheTab'
      /\ \A n : Drawn(n)' <=> Drawn(n)
  BY <1>1, <1>2, PageLeft
<1>4. /\ conv' \in [Chats -> [turns : Seq([text : Nat, by : Nat, knew : Nat]), draft : Nat]]
      /\ \A c \in Chats : conv'[c].turns = conv[c].turns
  <2>1. asked + 1 \in Nat
    BY DEF Chatted
  <2>2. conv \in [Chats -> [turns : Seq([text : Nat, by : Nat, knew : Nat]), draft : Nat]]
    BY DEF Chatted
  <2>. QED
    BY <1>1, <2>1, <2>2
<1>5. \A c \in Chats : Len(conv'[c].turns) = Len(conv[c].turns)
  BY <1>4
<1>6. Chatted'
  <2>1. \A a \in asks : a.chat \in Chats
    BY DEF Chatted
  <2>2. asked' \in Nat /\ asks \subseteq [by : Nat, chat : Chats, text : Nat, knew : Nat]
    BY <1>1 DEF Chatted
  <2>3. ASSUME NEW a \in asks'
        PROVE  /\ Drawn(a.by)' /\ (panel' # Nil /\ a.by = panel'.by => a.chat = panel'.chat)
               /\ \A i \in a.knew + 1 .. Len(conv'[a.chat].turns) : conv'[a.chat].turns[i].by # a.by
    <3>1. a \in asks /\ a.chat \in Chats
      BY <1>1, <2>1
    <3>2. Drawn(a.by) /\ (a.by = panel.by => a.chat = panel.chat)
      BY <1>1, <3>1 DEF Chatted
    <3>3. \A i \in a.knew + 1 .. Len(conv[a.chat].turns) : conv[a.chat].turns[i].by # a.by
      BY <3>1 DEF Chatted
    <3>. QED
      BY <1>2, <1>3, <1>4, <1>5, <3>1, <3>2, <3>3
  <2>4. (Drawn(panel.by))'
    <3>1. Drawn(panel.by) /\ panel'.by = panel.by
      BY <1>1, <1>2, OfPanel
    <3>. QED
      BY <1>1, <1>3, <3>1 DEF Drawn, requestVars
  <2>. QED
    BY <1>1, <1>2, <1>4, <2>2, <2>3, <2>4 DEF Chatted
<1>7. FollowUpsKnowTheTurns'
  <2>1. panel.chat \in Chats
    BY <1>1, OfPanel
  <2>2. panel.busy <=> \E a \in asks : a.by = panel.by
    BY <1>1 DEF FollowUpsKnowTheTurns
  <2>3. \A i \in panel'.shown + 1 .. Len(conv'[panel'.chat].turns) :
            conv'[panel'.chat].turns[i].by # panel'.by
    BY <1>1, <1>2, <1>4, <1>5, <2>1 DEF FollowUpsKnowTheTurns
  <2>4. \A c \in Chats : \A j \in DOMAIN conv'[c].turns :
            \A i \in conv'[c].turns[j].knew + 1 .. j - 1 : conv'[c].turns[i].by # conv'[c].turns[j].by
    <3>1. ASSUME NEW c \in Chats, NEW j \in DOMAIN conv'[c].turns,
                 NEW i \in conv'[c].turns[j].knew + 1 .. j - 1
          PROVE  conv'[c].turns[i].by # conv'[c].turns[j].by
      <4>1. conv'[c].turns = conv[c].turns
        BY <1>4
      <4>. QED
        BY <3>1, <4>1 DEF FollowUpsKnowTheTurns
    <3>. QED
      BY <3>1
  <2>5. \A a, b \in asks : a.by = b.by => a = b
    BY DEF FollowUpsKnowTheTurns
  <2>. QED
    BY <1>1, <1>2, <2>2, <2>3, <2>4, <2>5 DEF FollowUpsKnowTheTurns
<1>. QED
  BY <1>3, <1>6, <1>7

LEMMA SendKeeps ==
    ASSUME ShellInv, Usable, NEW text \in Nat, Send(text), asked' = asked + 1 PROVE ShellInv'
<1>. USE DEF ShellInv
<1>. DEFINE a == [by |-> panel.by, chat |-> panel.chat, text |-> text, knew |-> Len(conv[panel.chat].turns)]
<1>1. /\ panel # Nil /\ ~panel.busy /\ panel' = [panel EXCEPT !.busy = TRUE] /\ asks' = asks \cup {a}
      /\ conv' = conv /\ UNCHANGED <<hash, nav, left, screen, requestVars>>
  BY DEF Usable, Send
<1>2. /\ panel' \in [by : Nat, chat : Chats, busy : BOOLEAN, input : Nat, shown : Nat]
      /\ panel'.by = panel.by /\ panel'.chat = panel.chat /\ panel'.busy = TRUE /\ panel'.shown = panel.shown
  BY <1>1 DEF Chatted
<1>3. /\ RequestsTyped' /\ Remembered' /\ Routed' /\ ScreenIsOfTheTab'
      /\ \A n : Drawn(n)' <=> Drawn(n)
  BY <1>1, <1>2, PageLeft
<1>4. /\ a \in [by : Nat, chat : Chats, text : Nat, knew : Nat] /\ a.by = panel.by /\ a.chat = panel.chat
      /\ a.knew = Len(conv[panel.chat].turns) /\ a.knew \in Nat /\ Drawn(a.by)
  BY <1>1, OfPanel
<1>. HIDE DEF a
<1>5. \A b \in asks : b.by # panel.by
  BY <1>1 DEF FollowUpsKnowTheTurns
<1>6. Chatted'
  <2>1. asked' \in Nat
    BY DEF Chatted
  <2>2. asks' \subseteq [by : Nat, chat : Chats, text : Nat, knew : Nat]
    BY <1>1, <1>4 DEF Chatted
  <2>3. ASSUME NEW b \in asks'
        PROVE  /\ Drawn(b.by) /\ (b.by = panel.by => b.chat = panel.chat)
               /\ \A i \in b.knew + 1 .. Len(conv[b.chat].turns) : conv[b.chat].turns[i].by # b.by
    <3>1. CASE b \in asks
      BY <1>1, <3>1 DEF Chatted
    <3>2. CASE b = a
      BY <1>4, <3>2
    <3>. QED
      BY <1>1, <3>1, <3>2
  <2>4. conv' \in [Chats -> [turns : Seq([text : Nat, by : Nat, knew : Nat]), draft : Nat]]
    BY <1>1 DEF Chatted
  <2>5. panel'.by = panel.by /\ panel'.chat = panel.chat /\ Drawn(panel.by)
    BY <1>1, <1>2, OfPanel
  <2>. QED
    BY <1>1, <1>2, <1>3, <2>1, <2>2, <2>3, <2>4, <2>5 DEF Chatted
<1>7. FollowUpsKnowTheTurns'
  <2>1. \E b \in asks' : b.by = panel'.by
    BY <1>1, <1>2, <1>4
  <2>2. \A b, d \in asks' : b.by = d.by => b = d
    BY <1>1, <1>4, <1>5 DEF FollowUpsKnowTheTurns
  <2>. QED
    BY <1>1, <1>2, <2>1, <2>2 DEF FollowUpsKnowTheTurns
<1>. QED
  BY <1>3, <1>6, <1>7

(* The turns of a conversation after a reply.                               *)
LEMMA TurnAdded ==
    ASSUME Chatted, NEW a \in asks,
           conv' = [conv EXCEPT ![a.chat].turns = Append(@, [text |-> a.text, by |-> a.by, knew |-> a.knew])]
    PROVE  /\ conv' \in [Chats -> [turns : Seq([text : Nat, by : Nat, knew : Nat]), draft : Nat]]
           /\ \A c \in Chats \ {a.chat} : conv'[c] = conv[c]
           /\ Len(conv'[a.chat].turns) = Len(conv[a.chat].turns) + 1
           /\ \A i \in 1 .. Len(conv[a.chat].turns) : conv'[a.chat].turns[i] = conv[a.chat].turns[i]
           /\ conv'[a.chat].turns[Len(conv[a.chat].turns) + 1].by = a.by
           /\ conv'[a.chat].turns[Len(conv[a.chat].turns) + 1].knew = a.knew
<1>. DEFINE Turns == [text : Nat, by : Nat, knew : Nat]
            turn == [text |-> a.text, by |-> a.by, knew |-> a.knew]
            t == conv[a.chat].turns
<1>1. a \in [by : Nat, chat : Chats, text : Nat, knew : Nat]
  BY DEF Chatted
<1>2. a.chat \in Chats /\ turn \in Turns /\ turn.by = a.by /\ turn.knew = a.knew
  BY <1>1
<1>3. conv[a.chat] \in [turns : Seq(Turns), draft : Nat] /\ t \in Seq(Turns)
  BY <1>2 DEF Chatted
<1>. HIDE DEF turn, Turns
<1>4. /\ Append(t, turn) \in Seq(Turns) /\ Len(Append(t, turn)) = Len(t) + 1
      /\ \A i \in 1 .. Len(t) : Append(t, turn)[i] = t[i]
      /\ Append(t, turn)[Len(t) + 1] = turn
  BY <1>2, <1>3
<1>5. conv' = [conv EXCEPT ![a.chat].turns = Append(t, turn)]
  BY DEF turn
<1>6. conv \in [Chats -> [turns : Seq(Turns), draft : Nat]]
  BY DEF Chatted, Turns
<1>. DEFINE longer == Append(t, turn)
<1>. HIDE DEF t, longer
<1>7. longer \in Seq(Turns) /\ conv' = [conv EXCEPT ![a.chat].turns = longer]
  BY <1>4, <1>5 DEF longer
<1>8. /\ conv' \in [Chats -> [turns : Seq(Turns), draft : Nat]]
      /\ \A c \in Chats \ {a.chat} : conv'[c] = conv[c]
      /\ conv'[a.chat].turns = longer
  BY <1>2, <1>6, <1>7
<1>. QED
  BY <1>2, <1>4, <1>8 DEF t, longer, Turns

LEMMA PlacesOfTurns ==
    ASSUME NEW S, NEW q \in Seq(S)
    PROVE  DOMAIN q = 1 .. Len(q) /\ Len(q) \in Nat /\ \A i \in DOMAIN q : q[i] \in S
<1>1. DOMAIN q = 1 .. Len(q) /\ Len(q) \in Nat
  OBVIOUS
<1>. QED
  BY <1>1

LEMMA RepliedKeeps ==
    ASSUME ShellInv, NEW a \in asks, NEW outcome \in {"answered", "unavailable", "failed"}, Replied(a, outcome)
    PROVE  ShellInv'
<1>. USE DEF ShellInv
<1>. DEFINE here == panel # Nil /\ panel.by = a.by
<1>1. /\ asks' = asks \ {a} /\ asked' = asked /\ UNCHANGED <<hash, nav, left, screen, requestVars>>
      /\ conv' = IF outcome = "failed" THEN conv
                 ELSE [conv EXCEPT ![a.chat].turns = Append(@, [text |-> a.text, by |-> a.by, knew |-> a.knew])]
      /\ ~here => panel' = panel
      /\ here => panel' = [panel EXCEPT !.busy = FALSE,
                                        !.input = IF outcome = "answered" THEN 0 ELSE a.text,
                                        !.shown = IF outcome = "failed" THEN @ ELSE Len(conv'[a.chat].turns)]
  BY DEF Replied, ReplyTo
<1>2. a.by \in Nat /\ a.chat \in Chats /\ a.text \in Nat /\ a.knew \in Nat /\ Drawn(a.by)
  BY DEF Chatted
<1>3. conv[a.chat].turns \in Seq([text : Nat, by : Nat, knew : Nat]) /\ Len(conv[a.chat].turns) \in Nat
  BY <1>2 DEF Chatted
<1>. DEFINE n == Len(conv[a.chat].turns)
<1>4. /\ conv' \in [Chats -> [turns : Seq([text : Nat, by : Nat, knew : Nat]), draft : Nat]]
      /\ \A c \in Chats \ {a.chat} : conv'[c] = conv[c]
      /\ Len(conv'[a.chat].turns) \in {n, n + 1}
      /\ outcome = "failed" => conv' = conv
      /\ outcome # "failed" => Len(conv'[a.chat].turns) = n + 1
      /\ \A i \in 1 .. n : conv'[a.chat].turns[i] = conv[a.chat].turns[i]
      /\ Len(conv'[a.chat].turns) = n + 1 =>
            conv'[a.chat].turns[n + 1].by = a.by /\ conv'[a.chat].turns[n + 1].knew = a.knew
  <2>1. CASE outcome = "failed"
    BY <1>1, <1>3, <2>1 DEF Chatted
  <2>2. CASE outcome # "failed"
    BY <1>1, <1>3, <2>2, TurnAdded
  <2>. QED
    BY <2>1, <2>2
<1>5. Len(conv'[a.chat].turns) \in Nat
  BY <1>3, <1>4
<1>6. /\ panel # Nil => /\ panel' \in [by : Nat, chat : Chats, busy : BOOLEAN, input : Nat, shown : Nat]
                        /\ panel'.by = panel.by /\ panel'.chat = panel.chat
      /\ panel' # Nil => panel # Nil
      /\ here => panel'.busy = FALSE
      /\ here /\ outcome # "failed" => panel'.shown = Len(conv'[a.chat].turns)
      /\ here /\ outcome = "failed" => panel'.shown = panel.shown
  <2>1. CASE ~here
    BY <1>1, <2>1 DEF Chatted
  <2>2. CASE here
    <3>. DEFINE input == IF outcome = "answered" THEN 0 ELSE a.text
                shown == IF outcome = "failed" THEN panel.shown ELSE Len(conv'[a.chat].turns)
    <3>1. panel \in [by : Nat, chat : Chats, busy : BOOLEAN, input : Nat, shown : Nat]
      BY <2>2 DEF Chatted
    <3>2. input \in Nat /\ shown \in Nat
      BY <1>2, <1>5, <3>1
    <3>3. panel' = [panel EXCEPT !.busy = FALSE, !.input = input, !.shown = shown]
      BY <1>1, <2>2
    <3>4. /\ outcome # "failed" => shown = Len(conv'[a.chat].turns)
          /\ outcome = "failed" => shown = panel.shown
      OBVIOUS
    <3>. HIDE DEF input, shown
    <3>5. /\ panel' \in [by : Nat, chat : Chats, busy : BOOLEAN, input : Nat, shown : Nat]
          /\ panel'.by = panel.by /\ panel'.chat = panel.chat /\ panel'.busy = FALSE /\ panel'.shown = shown
      BY <3>1, <3>2, <3>3
    <3>. QED
      BY <2>2, <3>4, <3>5
  <2>. QED
    BY <2>1, <2>2
<1>7. /\ RequestsTyped' /\ Remembered' /\ Routed' /\ ScreenIsOfTheTab'
      /\ \A k : Drawn(k)' <=> Drawn(k)
  <2>1. /\ UNCHANGED <<hash, nav, left, screen, requestVars>>
        /\ panel # Nil /\ panel' # Nil => panel'.by = panel.by /\ panel'.chat = panel.chat
        /\ panel' # Nil => panel # Nil
    BY <1>1, <1>6
  <2>. QED
    BY <2>1, PageLeft
(* A turn that is not the first panel's own, whoever else was waiting.      *)
<1>8. ASSUME NEW c \in Chats, NEW by, by # a.by, NEW from \in Nat,
             \A i \in from + 1 .. Len(conv[c].turns) : conv[c].turns[i].by # by
      PROVE  \A i \in from + 1 .. Len(conv'[c].turns) : conv'[c].turns[i].by # by
  <2>1. CASE c # a.chat
    BY <1>4, <1>8, <2>1
  <2>2. CASE c = a.chat
    <3>1. ASSUME NEW i \in from + 1 .. Len(conv'[c].turns) PROVE conv'[c].turns[i].by # by
      <4>1. i \in 1 .. n \/ (i = n + 1 /\ Len(conv'[a.chat].turns) = n + 1)
        BY <1>3, <1>4, <2>2, <3>1, SMTT(30)
      <4>2. CASE i \in 1 .. n
        <5>1. i \in from + 1 .. Len(conv[c].turns)
          BY <2>2, <3>1, <4>2
        <5>. QED
          BY <1>4, <1>8, <2>2, <4>2, <5>1
      <4>3. CASE i = n + 1 /\ Len(conv'[a.chat].turns) = n + 1
        BY <1>4, <1>8, <2>2, <4>3
      <4>. QED
        BY <4>1, <4>2, <4>3
    <3>. QED
      BY <3>1
  <2>. QED
    BY <2>1, <2>2
<1>9. \A b \in asks' : b \in asks /\ b.by # a.by /\ b.chat \in Chats /\ b.knew \in Nat
  BY <1>1 DEF Chatted, FollowUpsKnowTheTurns
<1>10. Chatted'
  <2>1. asked' \in Nat /\ asks' \subseteq [by : Nat, chat : Chats, text : Nat, knew : Nat]
    BY <1>1 DEF Chatted
  <2>2. ASSUME NEW b \in asks'
        PROVE  /\ Drawn(b.by)' /\ (panel' # Nil /\ b.by = panel'.by => b.chat = panel'.chat)
               /\ \A i \in b.knew + 1 .. Len(conv'[b.chat].turns) : conv'[b.chat].turns[i].by # b.by
    <3>1. \A i \in b.knew + 1 .. Len(conv[b.chat].turns) : conv[b.chat].turns[i].by # b.by
      BY <1>9 DEF Chatted
    <3>2. \A i \in b.knew + 1 .. Len(conv'[b.chat].turns) : conv'[b.chat].turns[i].by # b.by
      BY <1>8, <1>9, <3>1
    <3>3. Drawn(b.by) /\ (panel # Nil /\ b.by = panel.by => b.chat = panel.chat)
      BY <1>9 DEF Chatted
    <3>. QED
      BY <1>6, <1>7, <3>2, <3>3
  <2>3. panel' # Nil => (Drawn(panel.by))'
    <3>1. panel' # Nil => Drawn(panel.by) /\ panel'.by = panel.by
      BY <1>6 DEF Chatted
    <3>. QED
      BY <1>1, <3>1 DEF Drawn, requestVars
  <2>4. panel' # Nil => panel' \in [by : Nat, chat : Chats, busy : BOOLEAN, input : Nat, shown : Nat]
    BY <1>6
  <2>. QED
    BY <1>4, <2>1, <2>2, <2>3, <2>4 DEF Chatted
<1>11. \A b, d \in asks' : b.by = d.by => b = d
  BY <1>1 DEF FollowUpsKnowTheTurns
<1>12. ASSUME panel' # Nil
       PROVE  /\ panel'.busy <=> \E b \in asks' : b.by = panel'.by
              /\ \A i \in panel'.shown + 1 .. Len(conv'[panel'.chat].turns) :
                    conv'[panel'.chat].turns[i].by # panel'.by
  <2>1. panel # Nil /\ panel'.by = panel.by /\ panel'.chat = panel.chat /\ panel.chat \in Chats /\ panel.shown \in Nat
    BY <1>6, <1>12, OfPanel
  <2>2. \A i \in panel.shown + 1 .. Len(conv[panel.chat].turns) : conv[panel.chat].turns[i].by # panel.by
    BY <2>1 DEF FollowUpsKnowTheTurns
  <2>3. CASE here
    <3>1. panel.chat = a.chat
      BY <2>3 DEF Chatted
    <3>2. panel'.busy = FALSE /\ ~\E b \in asks' : b.by = panel'.by
      BY <1>6, <1>9, <2>1, <2>3
    <3>3. CASE outcome = "failed"
      BY <1>4, <1>6, <2>1, <2>2, <2>3, <3>2, <3>3
    <3>4. CASE outcome # "failed"
      <4>1. panel'.shown = Len(conv'[panel'.chat].turns) /\ panel'.shown \in Nat
        BY <1>5, <1>6, <2>1, <2>3, <3>1, <3>4
      <4>. QED
        BY <3>2, <4>1
    <3>. QED
      BY <3>3, <3>4
  <2>4. CASE ~here
    <3>1. panel' = panel /\ panel.by # a.by
      BY <1>1, <2>1, <2>4
    <3>2. panel.busy <=> \E b \in asks : b.by = panel.by
      BY <2>1 DEF FollowUpsKnowTheTurns
    <3>3. (\E b \in asks : b.by = panel.by) <=> (\E b \in asks' : b.by = panel.by)
      BY <1>1, <3>1
    <3>4. \A i \in panel.shown + 1 .. Len(conv'[panel.chat].turns) : conv'[panel.chat].turns[i].by # panel.by
      BY <1>8, <2>1, <2>2, <3>1
    <3>. QED
      BY <3>1, <3>2, <3>3, <3>4
  <2>. QED
    BY <2>3, <2>4
<1>13. ASSUME NEW c \in Chats, NEW j \in DOMAIN conv'[c].turns,
              NEW i \in conv'[c].turns[j].knew + 1 .. j - 1
       PROVE  conv'[c].turns[i].by # conv'[c].turns[j].by
  <2>1. CASE c # a.chat
    <3>1. conv'[c] = conv[c]
      BY <1>4, <2>1
    <3>. QED
      BY <1>13, <3>1 DEF FollowUpsKnowTheTurns
  <2>2. CASE c = a.chat
    <3>1. /\ DOMAIN conv'[c].turns = 1 .. Len(conv'[c].turns) /\ DOMAIN conv[c].turns = 1 .. n
          /\ conv'[c].turns[j] \in [text : Nat, by : Nat, knew : Nat]
      <4>1. conv'[c] \in [turns : Seq([text : Nat, by : Nat, knew : Nat]), draft : Nat]
        BY <1>4
      <4>2. conv'[c].turns \in Seq([text : Nat, by : Nat, knew : Nat])
        BY <4>1
      <4>. DEFINE q == conv'[c].turns
                  p == conv[a.chat].turns
      <4>3. q \in Seq([text : Nat, by : Nat, knew : Nat]) /\ p \in Seq([text : Nat, by : Nat, knew : Nat])
            /\ j \in DOMAIN q
        BY <1>3, <4>2
      <4>. HIDE DEF q, p
      <4>4. DOMAIN q = 1 .. Len(q) /\ DOMAIN p = 1 .. Len(p) /\ q[j] \in [text : Nat, by : Nat, knew : Nat]
        BY <4>3, PlacesOfTurns
      <4>. QED
        BY <2>2, <4>4 DEF q, p
    <3>2. conv'[c].turns[j].knew \in Nat
      BY <3>1
    <3>3. j \in 1 .. n \/ (j = n + 1 /\ Len(conv'[a.chat].turns) = n + 1)
      <4>. DEFINE m == Len(conv'[c].turns)
      <4>1. m \in {n, n + 1} /\ n \in Nat /\ j \in 1 .. m /\ m = Len(conv'[a.chat].turns)
        BY <1>3, <1>4, <2>2, <3>1
      <4>. HIDE DEF m, n
      <4>. QED
        BY <4>1
    <3>4. i \in Int /\ i >= 1 /\ i <= n /\ i \in 1 .. n
      BY <1>3, <1>13, <3>2, <3>3, SMTT(30)
    <3>5. conv'[c].turns[i] = conv[c].turns[i]
      BY <1>4, <2>2, <3>4
    <3>6. CASE j \in 1 .. n
      <4>1. conv'[c].turns[j] = conv[c].turns[j]
        BY <1>4, <2>2, <3>6
      <4>. QED
        BY <1>13, <3>1, <3>5, <3>6, <4>1 DEF FollowUpsKnowTheTurns
    <3>7. CASE j = n + 1 /\ Len(conv'[a.chat].turns) = n + 1
      <4>1. conv'[c].turns[j].by = a.by /\ conv'[c].turns[j].knew = a.knew
        BY <1>4, <2>2, <3>7
      <4>2. i \in a.knew + 1 .. Len(conv[a.chat].turns)
        BY <1>3, <1>13, <3>7, <4>1
      <4>3. conv[a.chat].turns[i].by # a.by
        BY <4>2 DEF Chatted
      <4>. QED
        BY <2>2, <3>5, <4>1, <4>3
    <3>. QED
      BY <3>3, <3>6, <3>7
  <2>. QED
    BY <2>1, <2>2
<1>14. FollowUpsKnowTheTurns'
  BY <1>11, <1>12, <1>13 DEF FollowUpsKnowTheTurns
<1>. QED
  BY <1>7, <1>10, <1>14

-----------------------------------------------------------------------------
LEMMA ShellStarts == ShellInit => ShellInv
<1>. SUFFICES ASSUME ShellInit PROVE ShellInv
  OBVIOUS
<1>1. /\ nav = 0 /\ DOMAIN renders = {} /\ flight = {} /\ got = {} /\ asks = {} /\ asked = 0 /\ panel = Nil
      /\ memo = [p \in Paths |-> Nil] /\ hash = Board /\ screen.by = 0 /\ screen.state = "page"
  BY DEF ShellInit
<1>2. RequestsTyped /\ Remembered
  <2>1. renders \in [DOMAIN renders -> UnderWay]
    BY <1>1 DEF ShellInit
  <2>. QED
    BY <1>1, <2>1 DEF RequestsTyped, Remembered
<1>3. Routed /\ ScreenIsOfTheTab
  BY <1>1 DEF Routed, ScreenIsOfTheTab
<1>4. /\ conv \in [Chats -> [turns : Seq([text : Nat, by : Nat, knew : Nat]), draft : Nat]]
      /\ \A c \in Chats : conv[c].turns = <<>>
  BY DEF ShellInit
<1>5. Chatted /\ FollowUpsKnowTheTurns
  BY <1>1, <1>4 DEF Chatted, FollowUpsKnowTheTurns
<1>. QED
  BY <1>2, <1>3, <1>5 DEF ShellInv

LEMMA ShellStep == ShellInv /\ [ShellNext]_shellVars => ShellInv'
<1>. SUFFICES ASSUME ShellInv, [ShellNext]_shellVars PROVE ShellInv'
  OBVIOUS
<1>1. CASE \E page \in Pages \cup {Board} : Route(page)
  BY <1>1, RouteKeeps
<1>2. CASE \E f \in flight, ok \in BOOLEAN : Arrive(f, ok)
  BY <1>2, ArriveKeeps
<1>3. CASE \E n \in DOMAIN renders : NextSet(n) \/ Draw(n) \/ Finish(n) \/ DrawError(n)
  BY <1>3, NextSetKeeps, DrawKeeps, EndKeeps
<1>4. CASE Type
  BY <1>4, TypeKeeps
<1>5. CASE Submit \/ Suggest
  <2>1. asked \in Nat /\ asked + 1 \in Nat
    BY DEF ShellInv, Chatted
  <2>2. Submit => panel.input \in Nat
    BY OfPanel DEF Submit, Usable, ShellInv
  <2>3. Usable /\ asked' = asked + 1 /\ \E text \in Nat : Send(text)
    BY <1>5, <2>1, <2>2 DEF Submit, Suggest
  <2>. QED
    BY <2>3, SendKeeps
<1>6. CASE \E a \in asks, outcome \in {"answered", "unavailable", "failed"} : Replied(a, outcome)
  BY <1>6, RepliedKeeps
<1>7. CASE UNCHANGED shellVars
  BY <1>7 DEF shellVars, requestVars, chatVars, ShellInv, RequestsTyped, Remembered, Routed, ScreenIsOfTheTab,
              Chatted, Drawn, FollowUpsKnowTheTurns
<1>. QED
  BY <1>1, <1>2, <1>3, <1>4, <1>5, <1>6, <1>7 DEF ShellNext

LEMMA ShellHolds == ShellSpec => []ShellInv
  BY ShellStarts, ShellStep, PTL DEF ShellSpec

(* Whatever the pages share and however the answers are ordered: a path     *)
(* that is remembered has one request on its way at most, and none once it  *)
(* was answered (cached of ops/lib.js); a page that loads waits for         *)
(* requests that are on their way.                                          *)
THEOREM RequestedOnceHolds == ShellSpec => []RequestedOnce
<1>1. ShellInv => RequestedOnce
  <2>. SUFFICES ASSUME ShellInv PROVE RequestedOnce
    OBVIOUS
  <2>1. \A f \in flight : f.path \in Paths
    BY DEF ShellInv, RequestsTyped, Promises
  <2>. QED
    BY <2>1 DEF ShellInv, Remembered, Routed, RequestedOnce
<1>. QED
  BY <1>1, ShellHolds, PTL

(* Under the tab of a page stands that page, or one that was left and comes *)
(* late, and the panel on it is its own (route of ops/app.js).              *)
THEOREM ScreenIsOfTheTabHolds == ShellSpec => []ScreenIsOfTheTab
<1>1. ShellInv => ScreenIsOfTheTab
  BY DEF ShellInv
<1>. QED
  BY <1>1, ShellHolds, PTL

(* A panel waits exactly while its question is on its way, and shows, and   *)
(* tells the Agent, every turn it asked for (ops/agent.js).                 *)
THEOREM FollowUpsKnowTheTurnsHolds == ShellSpec => []FollowUpsKnowTheTurns
<1>1. ShellInv => FollowUpsKnowTheTurns
  BY DEF ShellInv
<1>. QED
  BY <1>1, ShellHolds, PTL

-----------------------------------------------------------------------------
(***************************************************************************)
(* The older console shows what is chosen.  A poll that is not older than  *)
(* the choice of the time was sent when no time was chosen; the pending    *)
(* question is the one that was asked in this scope after these turns; and *)
(* a call that runs is for the value that is chosen.                       *)
(***************************************************************************)
BoardPart ==
    /\ sel \in Nat /\ since \in 0 .. sel /\ time \in Times \cup {None}
    /\ \A l \in loads : l.time = time
    /\ \A p \in polls : p \in 0 .. sel /\ (p >= since => time = None)
    /\ status # None => status.time = time \/ (status.sent # None /\ status.sent < since)
    /\ status # None => status.sent = None \/ status.sent \in Nat
DockTurns == [dock : Docks, knew : Nat]
DockTurn(i, to) == [dock |-> to, knew |-> i - 1]
DockPart ==
    /\ dock \in Docks /\ turns \in Seq(DockTurns) /\ busy \in BOOLEAN
    /\ questioned \in Nat
    /\ \A q \in questions :
          /\ q.no \in 1 .. questioned
          /\ q.no = pending => q = [no |-> pending, dock |-> dock, knew |-> Len(turns)]
    /\ busy <=> pending # None
    /\ busy => \E q \in questions : q.no = pending
    /\ \A i \in DOMAIN turns : turns[i] = DockTurn(i, dock)
PanelPart ==
    /\ due \in BOOLEAN /\ failed \in BOOLEAN
    /\ running \subseteq {chosen}
    /\ ~due /\ running = {} /\ ~failed => result = chosen
ConsoleInv == BoardPart /\ DockPart /\ PanelPart

LEMMA NoNumberIsNone == None \notin Nat /\ None \notin Times
BY ConsoleAssumption

LEMMA OneMoreDockTurn ==
    ASSUME NEW to, NEW s \in Seq(DockTurns), \A i \in DOMAIN s : s[i] = DockTurn(i, to),
           NEW turn \in DockTurns, turn = DockTurn(Len(s) + 1, to)
    PROVE  /\ Append(s, turn) \in Seq(DockTurns)
           /\ \A i \in DOMAIN Append(s, turn) : Append(s, turn)[i] = DockTurn(i, to)
<1> DEFINE n == Len(s)
           r == Append(s, turn)
<1>1. r \in Seq(DockTurns) /\ n \in Nat /\ DOMAIN s = 1 .. n /\ DOMAIN r = 1 .. n + 1
      /\ r[n + 1] = turn /\ \A i \in 1 .. n : r[i] = s[i]
  OBVIOUS
<1>2. turn = DockTurn(n + 1, to) OBVIOUS
<1> HIDE DEF n, r
<1>3. \A i \in 1 .. n + 1 : i \in 1 .. n \/ i = n + 1 BY <1>1
<1>4. \A i \in DOMAIN r : r[i] = DockTurn(i, to) BY <1>1, <1>2, <1>3
<1> QED BY <1>1, <1>4 DEF r

LEMMA NoDockTurns == <<>> \in Seq(DockTurns) /\ DOMAIN <<>> = {}
OBVIOUS

LEMMA ShowKeeps ==
    ASSUME BoardPart, NEW moment \in Times \cup {None}, NEW on, Show(moment, on),
           since' = sel' \/ (moment = time /\ since' = since)
    PROVE  BoardPart'
BY DEF BoardPart, Show, Load

LEMMA ScopeKeeps ==
    ASSUME DockPart, NEW to \in Docks, Scope(to)
    PROVE  DockPart'
<1>1. \A q \in questions : q.no # None
  BY NoNumberIsNone DEF DockPart
<1>2. /\ dock' = to /\ turns' = <<>> /\ busy' = FALSE /\ pending' = None
      /\ questions' = questions /\ questioned' = questioned
  BY DEF Scope
<1> QED BY <1>1, <1>2, NoDockTurns DEF DockPart

LEMMA BoardReplyKeeps ==
    ASSUME BoardPart,
           \/ \E l \in loads : LoadFailed(l) \/ \E mode \in ModesAt(l.time) : Loaded(l, mode)
           \/ Poll
           \/ \E p \in polls : PollFailed(p) \/ \E mode \in ModesAt(None) : Polled(p, mode)
    PROVE  BoardPart'
<1> USE NoNumberIsNone
<1>1. ASSUME NEW l \in loads, LoadFailed(l) PROVE BoardPart'
  BY <1>1 DEF BoardPart, LoadFailed
<1>2. ASSUME NEW l \in loads, NEW mode, Loaded(l, mode) PROVE BoardPart'
  BY <1>2 DEF BoardPart, Loaded
<1>3. CASE Poll
  BY <1>3 DEF BoardPart, Poll
<1>4. ASSUME NEW p \in polls, PollFailed(p) PROVE BoardPart'
  BY <1>4 DEF BoardPart, PollFailed
<1>5. ASSUME NEW p \in polls, NEW mode, Polled(p, mode) PROVE BoardPart'
  BY <1>5 DEF BoardPart, Polled
<1> QED BY <1>1, <1>2, <1>3, <1>4, <1>5

LEMMA DockAskKeeps == ASSUME DockPart, DockAsk PROVE DockPart'
<1> USE NoNumberIsNone
<1>1. DEFINE new == [no |-> questioned + 1, dock |-> dock, knew |-> Len(turns)]
<1>2. /\ questioned' = questioned + 1 /\ pending' = questioned + 1 /\ busy' = TRUE
      /\ questions' = questions \cup {new} /\ dock' = dock /\ turns' = turns
  BY DEF DockAsk
<1>3. questioned \in Nat /\ \A q \in questions : q.no \in 1 .. questioned
  BY DEF DockPart
<1>4. new.no = pending' /\ new = [no |-> pending', dock |-> dock', knew |-> Len(turns')]
  BY <1>2
<1>5. \A q \in questions' : q.no \in 1 .. questioned' /\ (q.no = pending' => q = new)
  BY <1>2, <1>3
<1> HIDE DEF new
<1> QED BY <1>2, <1>3, <1>4, <1>5 DEF DockPart

LEMMA DockReplyKeeps ==
    ASSUME DockPart, NEW q \in questions, NEW ok \in BOOLEAN, DockReplied(q, ok)
    PROVE  DockPart'
<1> USE NoNumberIsNone
<1>1. questions' = questions \ {q} /\ dock' = dock /\ questioned' = questioned
  BY DEF DockReplied
<1>2. CASE pending # q.no
  <2>1. turns' = turns /\ pending' = pending /\ busy' = busy BY <1>2 DEF DockReplied
  <2> QED BY <1>1, <1>2, <2>1 DEF DockPart
<1>3. CASE pending = q.no
  <2> DEFINE n == Len(turns)
             turn == [dock |-> q.dock, knew |-> q.knew]
  <2>1. turns' = (IF ok THEN Append(turns, turn) ELSE turns) /\ pending' = None /\ busy' = FALSE
    BY <1>3 DEF DockReplied
  <2>2. turn = [dock |-> dock, knew |-> n]
    BY <1>3 DEF DockPart
  <2>3. n \in Nat /\ DOMAIN turns = 1 .. n /\ dock \in Docks /\ turns \in Seq(DockTurns)
    BY DEF DockPart
  <2>4. turn \in DockTurns BY <2>2, <2>3 DEF DockTurns
  <2>5. turns' \in Seq(DockTurns) /\ \A i \in DOMAIN turns' : turns'[i] = DockTurn(i, dock')
    <3>1. \A i \in DOMAIN turns : turns[i] = DockTurn(i, dock) BY DEF DockPart
    <3>2. turn = DockTurn(n + 1, dock) BY <2>2, <2>3 DEF DockTurn
    <3> HIDE DEF turn
    <3>3. CASE ~ok BY <1>1, <2>1, <2>3, <3>1, <3>3
    <3>4. CASE ok
      <4>1. turns' = Append(turns, turn) BY <2>1, <3>4
      <4> QED BY <1>1, <2>3, <2>4, <3>1, <3>2, <4>1, OneMoreDockTurn
    <3> QED BY <3>3, <3>4
  <2>7. \A p \in questions' : p.no \in 1 .. questioned' /\ p.no # None
    BY <1>1 DEF DockPart
  <2> HIDE DEF n, turn
  <2> QED BY <1>1, <2>1, <2>3, <2>5, <2>7 DEF DockPart
<1> QED BY <1>2, <1>3

LEMMA PanelKeeps ==
    ASSUME PanelPart,
           \/ \E v \in Values : Choose(v)
           \/ TimerFires
           \/ \E c \in running, ok \in BOOLEAN : Called(c, ok)
    PROVE  PanelPart'
<1>1. ASSUME NEW v \in Values, Choose(v) PROVE PanelPart'
  <2>1. chosen' = v /\ due' = TRUE /\ running' = {} /\ failed' = (matched /\ failed)
    BY <1>1 DEF Choose
  <2>2. failed' \in BOOLEAN BY <2>1
  <2> QED BY <2>1, <2>2 DEF PanelPart
<1>2. CASE TimerFires
  BY <1>2 DEF PanelPart, TimerFires
<1>3. ASSUME NEW c \in running, NEW ok \in BOOLEAN, Called(c, ok) PROVE PanelPart'
  BY <1>3 DEF PanelPart, Called
<1> QED BY <1>1, <1>2, <1>3

LEMMA ConsoleStarts == ConsoleInit => ConsoleInv
<1> SUFFICES ASSUME ConsoleInit PROVE ConsoleInv
  OBVIOUS
<1>1. BoardPart BY DEF ConsoleInit, BoardPart
<1>2. DockPart
  <2>1. dock \in Docks BY DEF ConsoleInit, Docks
  <2>2. /\ turns = <<>> /\ questions = {} /\ questioned = 0 /\ pending = None /\ busy = FALSE
    BY DEF ConsoleInit
  <2> QED BY <2>1, <2>2, NoDockTurns DEF DockPart
<1>3. PanelPart BY DEF ConsoleInit, PanelPart
<1> QED BY <1>1, <1>2, <1>3 DEF ConsoleInv

LEMMA BoardPartStands == ASSUME BoardPart, UNCHANGED boardVars PROVE BoardPart'
<1>1. UNCHANGED <<time, tab, sel, since, status, loads, polls, polled>> BY DEF boardVars
<1> QED BY <1>1 DEF BoardPart
LEMMA DockPartStands == ASSUME DockPart, UNCHANGED dockVars PROVE DockPart'
<1>1. UNCHANGED <<dock, turns, pending, busy, questions, questioned>> BY DEF dockVars
<1> QED BY <1>1 DEF DockPart
LEMMA PanelPartStands == ASSUME PanelPart, UNCHANGED panelVars PROVE PanelPart'
<1>1. UNCHANGED <<matched, chosen, due, running, result, failed>> BY DEF panelVars
<1> QED BY <1>1 DEF PanelPart

LEMMA ConsoleSteps == ConsoleInv /\ [ConsoleNext]_consoleVars => ConsoleInv'
<1> SUFFICES ASSUME ConsoleInv, [ConsoleNext]_consoleVars PROVE ConsoleInv'
  OBVIOUS
<1> USE DEF ConsoleInv
<1>1. CASE UNCHANGED consoleVars
  <2>1. UNCHANGED boardVars /\ UNCHANGED dockVars /\ UNCHANGED panelVars BY <1>1 DEF consoleVars
  <2> QED BY <2>1, BoardPartStands, DockPartStands, PanelPartStands
<1>2. ASSUME NEW moment \in Times \cup {None}, ChooseTime(moment) PROVE ConsoleInv'
  <2>1. /\ Show(moment, tab) /\ since' = sel' /\ UNCHANGED panelVars
        /\ UNCHANGED dockVars \/ Scope([dock EXCEPT !.time = moment])
    BY <1>2 DEF ChooseTime, Show
  <2>2. [dock EXCEPT !.time = moment] \in Docks BY DEF DockPart, Docks
  <2> QED BY <2>1, <2>2, ShowKeeps, ScopeKeeps, DockPartStands, PanelPartStands
<1>3. ASSUME NEW on \in Tabs, ChooseTab(on) PROVE ConsoleInv'
  <2>1. Show(time, on) /\ since' = since /\ UNCHANGED panelVars /\ UNCHANGED dockVars
    BY <1>3 DEF ChooseTab, Show
  <2>2. time \in Times \cup {None} BY DEF BoardPart
  <2> QED BY <2>1, <2>2, ShowKeeps, DockPartStands, PanelPartStands
<1>4. ASSUME NEW to \in Docks, ChooseScope(to) PROVE ConsoleInv'
  BY <1>4, ScopeKeeps, BoardPartStands, PanelPartStands DEF ChooseScope
<1>5. CASE \/ \E l \in loads : LoadFailed(l) \/ \E mode \in ModesAt(l.time) : Loaded(l, mode)
           \/ Poll
           \/ \E p \in polls : PollFailed(p) \/ \E mode \in ModesAt(None) : Polled(p, mode)
  <2>1. UNCHANGED dockVars /\ UNCHANGED panelVars
    BY <1>5 DEF LoadFailed, Loaded, Poll, PollFailed, Polled
  <2> QED BY <1>5, <2>1, BoardReplyKeeps, DockPartStands, PanelPartStands
<1>6. CASE DockAsk
  <2>1. UNCHANGED boardVars /\ UNCHANGED panelVars BY <1>6 DEF DockAsk
  <2> QED BY <1>6, <2>1, DockAskKeeps, BoardPartStands, PanelPartStands
<1>7. ASSUME NEW q \in questions, NEW ok \in BOOLEAN, DockReplied(q, ok) PROVE ConsoleInv'
  <2>1. UNCHANGED boardVars /\ UNCHANGED panelVars BY <1>7 DEF DockReplied
  <2> QED BY <1>7, <2>1, DockReplyKeeps, BoardPartStands, PanelPartStands
<1>8. CASE \/ \E v \in Values : Choose(v)
           \/ TimerFires
           \/ \E c \in running, ok \in BOOLEAN : Called(c, ok)
  <2>1. UNCHANGED boardVars /\ UNCHANGED dockVars BY <1>8 DEF Choose, TimerFires, Called
  <2> QED BY <1>8, <2>1, PanelKeeps, BoardPartStands, DockPartStands
<1> QED BY <1>1, <1>2, <1>3, <1>4, <1>5, <1>6, <1>7, <1>8 DEF ConsoleNext

LEMMA ConsoleKept == ConsoleInv => ConsoleShowsWhatIsChosen
<1> SUFFICES ASSUME ConsoleInv PROVE ConsoleShowsWhatIsChosen
  OBVIOUS
<1>1. \A q \in questions : q.no # None
  BY NoNumberIsNone DEF ConsoleInv, DockPart
<1>2. (\E q \in questions : q = [no |-> pending, dock |-> dock, knew |-> Len(turns)]) => pending # None
  BY <1>1
<1>3. busy <=> \E q \in questions : q = [no |-> pending, dock |-> dock, knew |-> Len(turns)]
  BY <1>2 DEF ConsoleInv, DockPart
<1> QED
  BY <1>3 DEF ConsoleInv, BoardPart, DockPart, PanelPart, DockTurn, ConsoleShowsWhatIsChosen

(* In whatever order replies, polls and choices come, the older console's   *)
(* board, dock and panels show what is chosen.                              *)
THEOREM ConsoleShowsWhatIsChosenHolds == ConsoleSpec => []ConsoleShowsWhatIsChosen
  BY ConsoleStarts, ConsoleSteps, ConsoleKept, PTL DEF ConsoleSpec

-----------------------------------------------------------------------------
(***************************************************************************)
(* A conversation about a case: the hints of a text, one tool at a time,    *)
(* with the values each of them takes from the text.                        *)
(***************************************************************************)
Within(text, wider) == text.words \subseteq wider.words /\ text.said \subseteq wider.said
Spoken(text) == {s.value : s \in text.said}

LEMMA OneIsOfThem == ASSUME NEW values, values # {} PROVE One(values) \subseteq values /\ One(values) # {}
BY DEF One

LEMMA ToolParts == ASSUME NEW t, NEW p PROVE Tool(t, p).tool = t /\ Tool(t, p).params = p
BY DEF Tool

LEMMA With1Parts ==
    ASSUME NEW h, NEW t, NEW k, NEW v, h = Tool(t, With1(k, v))
    PROVE  h.tool = t /\ DOMAIN h.params = {k} /\ h.params[k] = v
<1>1. h.tool = t /\ h.params = With1(k, v)
  BY DEF Tool
<1>2. DOMAIN With1(k, v) = {k} /\ With1(k, v)[k] = v
  BY DEF With1
<1> QED
  BY <1>1, <1>2

LEMMA WithNone == ASSUME NEW h, NEW t, h = Tool(t, None0) PROVE h.tool = t /\ DOMAIN h.params = {}
BY DEF Tool, None0

(* Values taken from a text were spoken, and more text speaks more.         *)
LEMMA ValuesAreSpoken == ASSUME NEW q, NEW kinds PROVE ValuesAs(q, kinds) \subseteq Spoken(q)
BY DEF ValuesAs, Spoken

LEMMA ValuesGrow ==
    ASSUME NEW q, NEW p, Within(q, p), NEW kinds
    PROVE  ValuesAs(q, kinds) \subseteq ValuesAs(p, kinds)
BY DEF ValuesAs, Within

LEMMA WordsGrow ==
    ASSUME NEW q, NEW p, Within(q, p), NEW words
    PROVE  Names(q, words) => Names(p, words)
BY DEF Names, Within

LEMMA SpokenGrows ==
    ASSUME NEW q, NEW p, Within(q, p)
    PROVE  Spoken(q) \subseteq Spoken(p) /\ Written(q) \subseteq Written(p)
<1>1. Spoken(q) \subseteq Spoken(p)
  BY DEF Spoken, Within
<1>2. Written(q) \subseteq Written(p)
  BY DEF Written, Within
<1> QED
  BY <1>1, <1>2

LEMMA WholeIsPart == ASSUME NEW set, NEW a, NEW b PROVE Whole(set, a, b) \subseteq set
BY DEF Whole

LEMMA WholeGrows ==
    ASSUME NEW part, NEW set, part \subseteq set, NEW a, NEW b PROVE Whole(part, a, b) \subseteq Whole(set, a, b)
BY DEF Whole

LEMMA WrittenParts ==
    ASSUME NEW q
    PROVE  /\ Spoken(q) \subseteq Written(q)
           /\ \A v \in Spoken(q) : BaseClosure - v \in Written(q) /\ BaseClosure + v \in Written(q)
           /\ \A v \in Spoken(q), r \in DOMAIN ActualTime : (ActualTime[r] - v) % Day \in Written(q)
BY DEF Written, Spoken

LEMMA ValuesTaken ==
    ASSUME NEW q
    PROVE  /\ Spans(q) \subseteq Spoken(q) /\ TimesIn(q) \subseteq Spoken(q)
           /\ RadiiIn(q) \subseteq Spoken(q) /\ RainIn(q) \subseteq Spoken(q)
           /\ ShiftedClosures(q) \subseteq Written(q)
<1>1. Spans(q) \subseteq Spoken(q)
  BY ValuesAreSpoken, WholeIsPart DEF Spans
<1>2. TimesIn(q) \subseteq Spoken(q)
  BY ValuesAreSpoken DEF TimesIn
<1>3. RadiiIn(q) \subseteq Spoken(q)
  BY ValuesAreSpoken, WholeIsPart DEF RadiiIn
<1>4. RainIn(q) \subseteq Spoken(q)
  BY ValuesAreSpoken DEF RainIn
<1>5. ShiftedClosures(q) \subseteq Written(q)
  <2>1. {BaseClosure - v : v \in ValuesAs(q, {"earlier", "sooner"})} \subseteq Written(q)
    BY ValuesAreSpoken, WrittenParts
  <2>2. {BaseClosure + v : v \in ValuesAs(q, {"later", "after"})} \subseteq Written(q)
    BY ValuesAreSpoken, WrittenParts
  <2>3. ShiftedClosures(q) \subseteq {BaseClosure - v : v \in ValuesAs(q, {"earlier", "sooner"})}
                                     \cup {BaseClosure + v : v \in ValuesAs(q, {"later", "after"})}
    BY WholeIsPart DEF ShiftedClosures
  <2> QED
    BY <2>1, <2>2, <2>3
<1> QED
  BY <1>1, <1>2, <1>3, <1>4, <1>5

LEMMA TakenGrows ==
    ASSUME NEW q, NEW p, Within(q, p)
    PROVE  /\ Spans(q) \subseteq Spans(p) /\ TimesIn(q) \subseteq TimesIn(p)
           /\ RadiiIn(q) \subseteq RadiiIn(p) /\ RainIn(q) \subseteq RainIn(p)
           /\ ShiftedClosures(q) \subseteq ShiftedClosures(p)
<1>1. ASSUME NEW kinds PROVE ValuesAs(q, kinds) \subseteq ValuesAs(p, kinds)
  BY ValuesGrow
<1>2. Spans(q) \subseteq Spans(p)
  BY <1>1 DEF Spans, Whole
<1>3. TimesIn(q) \subseteq TimesIn(p)
  BY <1>1 DEF TimesIn
<1>4. RadiiIn(q) \subseteq RadiiIn(p)
  <2>1. ValuesAs(q, {"metres", "metres_to"}) \subseteq ValuesAs(p, {"metres", "metres_to"})
    BY <1>1
  <2> QED
    BY <2>1, WholeGrows DEF RadiiIn
<1>5. RainIn(q) \subseteq RainIn(p)
  BY <1>1 DEF RainIn
<1>6. ShiftedClosures(q) \subseteq ShiftedClosures(p)
  <2>1. ClosureIn(q) => ClosureIn(p)
    BY WordsGrow DEF ClosureIn
  <2>2. ValuesAs(q, {"earlier", "sooner"}) \subseteq ValuesAs(p, {"earlier", "sooner"})
    BY <1>1
  <2>3. ValuesAs(q, {"later", "after"}) \subseteq ValuesAs(p, {"later", "after"})
    BY <1>1
  <2>4. {BaseClosure - v : v \in ValuesAs(q, {"earlier", "sooner"})} \cup {BaseClosure + v : v \in ValuesAs(q, {"later", "after"})}
        \subseteq {BaseClosure - v : v \in ValuesAs(p, {"earlier", "sooner"})} \cup {BaseClosure + v : v \in ValuesAs(p, {"later", "after"})}
    BY <2>2, <2>3
  <2> QED
    BY <2>1, <2>4 DEF ShiftedClosures, Whole
<1> QED
  BY <1>2, <1>3, <1>4, <1>5, <1>6

(* The hints of Osong.                                                      *)
LEMMA OsongHintIs ==
    ASSUME NEW q, NEW h \in OsongHints(q)
    PROVE  \/ h = Tool("analyze_breach_advance", With1("advance_minutes", Spans(q))) /\ Spans(q) # {}
           \/ h = Tool("analyze_inflow_delay", With1("delay_minutes", Spans(q))) /\ Spans(q) # {}
           \/ h = Tool("analyze_closure_timing", With1("closure_times", TimesIn(q))) /\ TimesIn(q) # {}
           \/ h = Tool("analyze_closure_timing", With1("closure_times", ShiftedClosures(q))) /\ ShiftedClosures(q) # {}
           \/ h = Tool("get_exposure_inventory", With1("radii_m", RadiiIn(q))) /\ RadiiIn(q) # {}
           \/ /\ h = Tool("analyze_hand_threshold",
                          With1("reduction_m", One(Whole(ValuesAs(q, {"metres", "metres_to"}), 0, 25))))
              /\ Whole(ValuesAs(q, {"metres", "metres_to"}), 0, 25) # {} /\ ~Physical(q)
           \/ h = Tool("get_observation_summary", None0)
BY DEF OsongHints, When

LEMMA SeoulHintIs ==
    ASSUME NEW q, NEW h \in SeoulHints(q)
    PROVE  \/ /\ h = Tool("analyze_storage_capture", With1("storage_m3", One(ValuesAs(q, {"volume"}))))
              /\ ValuesAs(q, {"volume"}) # {}
           \/ h = Tool("analyze_storage_capture", With1("storage_m3", {Sinwol}))
           \/ h = Tool("analyze_storage_capture", None0)
           \/ /\ h.tool = "analyze_alert_timing"
              /\ DOMAIN h.params \subseteq {"thresholds_mm_per_hour", "alert_times"} /\ DOMAIN h.params # {}
              /\ \A k \in DOMAIN h.params :
                    /\ h.params[k] # {}
                    /\ k = "alert_times" => h.params[k] = TimesIn(q)
                    /\ k # "alert_times" => h.params[k] \subseteq RainIn(q)
           \/ h = Tool("get_observation_summary", None0)
<1> DEFINE volumes == ValuesAs(q, {"volume"})
           mm      == Whole(RainIn(q), 1, 200)
           storage == IF volumes # {} THEN With1("storage_m3", One(volumes))
                      ELSE IF Names(q, {"sinwol"}) THEN With1("storage_m3", {Sinwol}) ELSE None0
           alert   == [k \in {x \in {"thresholds_mm_per_hour", "alert_times"} :
                                 (IF x = "alert_times" THEN TimesIn(q) ELSE mm) # {}} |->
                          IF k = "alert_times" THEN TimesIn(q) ELSE mm]
<1>1. \/ h = Tool("analyze_storage_capture", storage)
      \/ h = Tool("analyze_alert_timing", alert) /\ DOMAIN alert # {}
      \/ h = Tool("get_observation_summary", None0)
  BY DEF SeoulHints, When
<1>2. \A k \in DOMAIN alert : k \in {"thresholds_mm_per_hour", "alert_times"} /\ alert[k] # {}
  OBVIOUS
<1>3. \A k \in DOMAIN alert : alert[k] = IF k = "alert_times" THEN TimesIn(q) ELSE mm
  OBVIOUS
<1>4. mm \subseteq RainIn(q)
  BY WholeIsPart
<1> HIDE DEF alert, mm
<1>5. CASE h = Tool("analyze_alert_timing", alert) /\ DOMAIN alert # {}
  <2>1. h.tool = "analyze_alert_timing" /\ h.params = alert
    BY <1>5, ToolParts
  <2> QED
    BY <1>2, <1>3, <1>4, <1>5, <2>1
<1> QED
  BY <1>1, <1>5

LEMMA PressHintIs ==
    ASSUME NEW q, NEW h \in PressHints(q)
    PROVE  \/ /\ h.tool = "analyze_response_timing" /\ DOMAIN h.params = {"intervention_id", "action_times"}
              /\ h.params["intervention_id"] = {Response(q)} /\ Response(q) # "none"
              /\ h.params["action_times"] = TimesIn(q) \cup ShiftedResponses(q)
              /\ h.params["action_times"] # {}
           \/ h = Tool("get_observation_summary", None0)
<1> DEFINE times == TimesIn(q) \cup ShiftedResponses(q)
           p == [k \in {"intervention_id", "action_times"} |-> IF k = "action_times" THEN times ELSE {Response(q)}]
<1>1. \/ h = Tool("analyze_response_timing", p) /\ Response(q) # "none" /\ times # {}
      \/ h = Tool("get_observation_summary", None0)
  BY DEF PressHints, When
<1>2. DOMAIN p = {"intervention_id", "action_times"} /\ p["action_times"] = times /\ p["intervention_id"] = {Response(q)}
  OBVIOUS
<1> HIDE DEF p
<1> QED
  BY <1>1, <1>2, ToolParts

(* Every value of a hint was said, or is derived from one that was, or is    *)
(* the registered storage.                                                  *)
LEMMA ValuesOfOne ==
    ASSUME NEW h, NEW t, NEW key, NEW values, h = Tool(t, With1(key, values)), NEW S, values \subseteq S
    PROVE  ValuesOf(h) \subseteq S
BY With1Parts DEF ValuesOf

LEMMA ValuesOfNone == ASSUME NEW h, NEW t, h = Tool(t, None0), NEW S PROVE ValuesOf(h) \subseteq S
BY WithNone DEF ValuesOf

LEMMA ShiftedResponseIsWritten == ASSUME NEW q PROVE ShiftedResponses(q) \subseteq Written(q)
<1>1. CASE Response(q) = "none"
  BY <1>1 DEF ShiftedResponses
<1>2. CASE Response(q) # "none"
  <2>1. Response(q) \in DOMAIN ActualTime
    BY <1>2, FollowUpsAssumption DEF Response
  <2>2. \A v \in ValuesAs(q, {"earlier", "sooner"}) : (ActualTime[Response(q)] - v) % Day \in Written(q)
    BY <2>1, ValuesAreSpoken, WrittenParts
  <2> QED
    BY <1>2, <2>2 DEF ShiftedResponses
<1> QED
  BY <1>1, <1>2

LEMMA HintValuesAreWritten ==
    ASSUME NEW e, NEW q, NEW h \in Router(e, q)
    PROVE  ValuesOf(h) \subseteq Registered \cup Written(q)
<1> DEFINE S == Registered \cup Written(q)
<1>1. /\ Spans(q) \subseteq S /\ TimesIn(q) \subseteq S /\ RadiiIn(q) \subseteq S /\ RainIn(q) \subseteq S
      /\ ShiftedClosures(q) \subseteq S /\ ShiftedResponses(q) \subseteq S
  BY ValuesTaken, WrittenParts, ShiftedResponseIsWritten
<1>2. \A kinds : ValuesAs(q, kinds) \subseteq S
  BY ValuesAreSpoken, WrittenParts
<1>3. {Sinwol} \subseteq S
  BY DEF Registered
<1>0. SUFFICES ValuesOf(h) \subseteq S
  OBVIOUS
<1> HIDE DEF S
<1>4. CASE h \in OsongHints(q)
  <2>1. Whole(ValuesAs(q, {"metres", "metres_to"}), 0, 25) \subseteq S
    BY <1>2, WholeIsPart
  <2>2. Whole(ValuesAs(q, {"metres", "metres_to"}), 0, 25) # {} =>
            One(Whole(ValuesAs(q, {"metres", "metres_to"}), 0, 25)) \subseteq S
    BY <2>1, OneIsOfThem
  <2>3. ASSUME NEW t, NEW k, NEW values, values \subseteq S, h = Tool(t, With1(k, values)) PROVE ValuesOf(h) \subseteq S
    BY <2>3, ValuesOfOne
  <2>4. ASSUME NEW t, h = Tool(t, None0) PROVE ValuesOf(h) \subseteq S
    BY <2>4, ValuesOfNone
  <2> QED
    BY <1>1, <1>4, <2>2, <2>3, <2>4, OsongHintIs
<1>5. CASE h \in SeoulHints(q)
  <2>1. ValuesAs(q, {"volume"}) # {} => One(ValuesAs(q, {"volume"})) \subseteq S
    BY <1>2, OneIsOfThem
  <2>2. ASSUME \A k \in DOMAIN h.params : k = "alert_times" => h.params[k] = TimesIn(q),
               \A k \in DOMAIN h.params : k # "alert_times" => h.params[k] \subseteq RainIn(q)
        PROVE  ValuesOf(h) \subseteq S
    BY <1>1, <2>2 DEF ValuesOf
  <2>3. \/ h = Tool("analyze_storage_capture", With1("storage_m3", One(ValuesAs(q, {"volume"}))))
           /\ ValuesAs(q, {"volume"}) # {}
        \/ h = Tool("analyze_storage_capture", With1("storage_m3", {Sinwol}))
        \/ h = Tool("analyze_storage_capture", None0)
        \/ /\ \A k \in DOMAIN h.params : k = "alert_times" => h.params[k] = TimesIn(q)
           /\ \A k \in DOMAIN h.params : k # "alert_times" => h.params[k] \subseteq RainIn(q)
        \/ h = Tool("get_observation_summary", None0)
    BY <1>5, SeoulHintIs
  <2>4. ASSUME NEW t, NEW k, NEW values, values \subseteq S, h = Tool(t, With1(k, values)) PROVE ValuesOf(h) \subseteq S
    BY <2>4, ValuesOfOne
  <2>5. ASSUME NEW t, h = Tool(t, None0) PROVE ValuesOf(h) \subseteq S
    BY <2>5, ValuesOfNone
  <2> QED
    BY <1>3, <2>1, <2>2, <2>3, <2>4, <2>5
<1>6. CASE h \in PressHints(q)
  <2>1. ASSUME DOMAIN h.params = {"intervention_id", "action_times"}, h.params["action_times"] = TimesIn(q) \cup ShiftedResponses(q)
        PROVE  ValuesOf(h) \subseteq S
    BY <1>1, <2>1 DEF ValuesOf
  <2>2. ASSUME NEW t, h = Tool(t, None0) PROVE ValuesOf(h) \subseteq S
    BY <2>2, ValuesOfNone
  <2> QED
    BY <1>6, <2>1, <2>2, PressHintIs
<1>7. h \in OsongHints(q) \/ h \in SeoulHints(q) \/ h \in PressHints(q)
  BY DEF Router
<1> QED
  BY <1>4, <1>5, <1>6, <1>7

(* The hints of a text are a few.                                           *)
LEMMA FiniteParts ==
    ASSUME NEW A, NEW B, IsFiniteSet(A), IsFiniteSet(B) PROVE IsFiniteSet(A \cup B)
BY FS_Union

LEMMA WhenIsFinite == ASSUME NEW c, NEW h PROVE IsFiniteSet(When(c, h))
BY FS_EmptySet, FS_Singleton DEF When

LEMMA RouterIsFinite == ASSUME NEW e, NEW q PROVE IsFiniteSet(Router(e, q))
<1>1. IsFiniteSet(OsongHints(q))
  BY FiniteParts, WhenIsFinite, Zenon DEF OsongHints
<1>2. IsFiniteSet(SeoulHints(q))
  BY FiniteParts, WhenIsFinite, Zenon DEF SeoulHints
<1>3. IsFiniteSet(PressHints(q))
  BY FiniteParts, WhenIsFinite, Zenon DEF PressHints
<1> QED
  BY <1>1, <1>2, <1>3 DEF Router

(* What a text suggests is let through when asked of it, or of more that     *)
(* asks for no works and is about the same response.                        *)
LEMMA GivenIs == ASSUME NEW h, NEW k PROVE Given(h, k) = IF k \in DOMAIN h.params THEN h.params[k] ELSE {}
BY DEF Given

LEMMA OsongLetsThrough ==
    ASSUME NEW q, NEW h \in OsongHints(q), NEW text, Within(q, text), NEW last, Physical(last) => Physical(q),
           NEW entries, ValuesAs(text, {"metres_to"}) = {}
    PROVE  Accepts("osong", h, text, last, entries)
<1>1. /\ Spans(q) \subseteq Spans(text) /\ TimesIn(q) \subseteq TimesIn(text) /\ RadiiIn(q) \subseteq RadiiIn(text)
      /\ ShiftedClosures(q) \subseteq ShiftedClosures(text)
  BY TakenGrows
<1> DEFINE hand == Whole(ValuesAs(q, {"metres", "metres_to"}), 0, 25)
<1>2. hand # {} => One(hand) \subseteq Whole(ValuesAs(text, {"metres"}), 0, 25) /\ One(hand) # {}
  <2>1. ValuesAs(q, {"metres", "metres_to"}) \subseteq ValuesAs(text, {"metres", "metres_to"})
    BY ValuesGrow
  <2>2. ValuesAs(text, {"metres", "metres_to"}) \subseteq ValuesAs(text, {"metres"})
    BY DEF ValuesAs
  <2>3. hand \subseteq Whole(ValuesAs(text, {"metres"}), 0, 25)
    BY <2>1, <2>2 DEF Whole
  <2> HIDE DEF hand
  <2> QED
    BY <2>3, OneIsOfThem
<1> HIDE DEF hand
<1>3. \/ h = Tool("analyze_breach_advance", With1("advance_minutes", Spans(q))) /\ Spans(q) # {}
      \/ h = Tool("analyze_inflow_delay", With1("delay_minutes", Spans(q))) /\ Spans(q) # {}
      \/ h = Tool("analyze_closure_timing", With1("closure_times", TimesIn(q))) /\ TimesIn(q) # {}
      \/ h = Tool("analyze_closure_timing", With1("closure_times", ShiftedClosures(q))) /\ ShiftedClosures(q) # {}
      \/ h = Tool("get_exposure_inventory", With1("radii_m", RadiiIn(q))) /\ RadiiIn(q) # {}
      \/ /\ h = Tool("analyze_hand_threshold", With1("reduction_m", One(hand)))
         /\ hand # {} /\ ~Physical(q)
      \/ h = Tool("get_observation_summary", None0)
  BY OsongHintIs DEF hand
<1>4. ASSUME NEW t \in OsongTools, NEW k, NEW values, h = Tool(t, With1(k, values)), values # {}, Parameters[t] = {k},
             k \in {"closure_times"} => values \subseteq TimesIn(text) \cup ShiftedClosures(text),
             k \in {"delay_minutes", "advance_minutes"} => values \subseteq Spans(text),
             k \in {"radii_m"} => values \subseteq RadiiIn(text),
             k \in {"reduction_m"} => values \subseteq Whole(ValuesAs(text, {"metres"}), 0, 25) /\ ~Physical(last)
      PROVE  Accepts("osong", h, text, last, entries)
  <2>1. h.tool = t /\ DOMAIN h.params = {k} /\ h.params[k] = values
    BY <1>4, With1Parts
  <2>2. \A x : Given(h, x) = IF x = k THEN values ELSE {}
    BY <2>1, GivenIs
  <2>3. t \in DOMAIN Parameters
    BY DEF Parameters
  <2>4. OsongAccepts(h, text, last, entries)
    BY <1>4, <2>1, <2>2 DEF OsongAccepts
  <2> QED
    BY <1>4, <2>1, <2>3, <2>4 DEF Accepts
<1>5. CASE h = Tool("get_observation_summary", None0)
  <2>1. h.tool = "get_observation_summary" /\ DOMAIN h.params = {}
    BY <1>5, WithNone
  <2>2. \A x : Given(h, x) = {}
    BY <2>1, GivenIs
  <2>3. h.tool \in DOMAIN Parameters /\ Parameters[h.tool] = {} /\ h.tool \in OsongTools
    BY <2>1 DEF Parameters, OsongTools
  <2>4. OsongAccepts(h, text, last, entries)
    BY <2>1, <2>2, <2>3 DEF OsongAccepts
  <2> QED
    BY <2>1, <2>3, <2>4 DEF Accepts
<1>6. /\ Parameters["analyze_breach_advance"] = {"advance_minutes"} /\ Parameters["analyze_inflow_delay"] = {"delay_minutes"}
      /\ Parameters["analyze_closure_timing"] = {"closure_times"} /\ Parameters["get_exposure_inventory"] = {"radii_m"}
      /\ Parameters["analyze_hand_threshold"] = {"reduction_m"}
      /\ {"analyze_breach_advance", "analyze_inflow_delay", "analyze_closure_timing", "get_exposure_inventory",
          "analyze_hand_threshold"} \subseteq OsongTools
  BY DEF Parameters, OsongTools
<1>7. CASE h = Tool("analyze_breach_advance", With1("advance_minutes", Spans(q))) /\ Spans(q) # {}
  BY <1>1, <1>4, <1>6, <1>7
<1>8. CASE h = Tool("analyze_inflow_delay", With1("delay_minutes", Spans(q))) /\ Spans(q) # {}
  BY <1>1, <1>4, <1>6, <1>8
<1>9. CASE h = Tool("analyze_closure_timing", With1("closure_times", TimesIn(q))) /\ TimesIn(q) # {}
  BY <1>1, <1>4, <1>6, <1>9
<1>10. CASE h = Tool("analyze_closure_timing", With1("closure_times", ShiftedClosures(q))) /\ ShiftedClosures(q) # {}
  BY <1>1, <1>4, <1>6, <1>10
<1>11. CASE h = Tool("get_exposure_inventory", With1("radii_m", RadiiIn(q))) /\ RadiiIn(q) # {}
  BY <1>1, <1>4, <1>6, <1>11
<1>12. CASE h = Tool("analyze_hand_threshold", With1("reduction_m", One(hand))) /\ hand # {} /\ ~Physical(q)
  BY <1>2, <1>4, <1>6, <1>12
<1> QED
  BY <1>3, <1>5, <1>7, <1>8, <1>9, <1>10, <1>11, <1>12

LEMMA SeoulLetsThrough ==
    ASSUME NEW q, NEW h \in SeoulHints(q), NEW text, Within(q, text), NEW last, NEW entries
    PROVE  Accepts("seoul", h, text, last, entries)
<1>1. RainIn(q) \subseteq RainIn(text) /\ TimesIn(q) \subseteq TimesIn(text)
  BY TakenGrows
<1>2. ValuesAs(q, {"volume"}) # {} => One(ValuesAs(q, {"volume"})) \subseteq ValuesAs(text, {"volume"})
  BY ValuesGrow, OneIsOfThem
<1>3. /\ Parameters["analyze_storage_capture"] = {"storage_m3", "capacity_mm_per_hour"}
      /\ Parameters["analyze_alert_timing"] = {"thresholds_mm_per_hour", "alert_times"}
      /\ {"analyze_storage_capture", "analyze_alert_timing", "get_observation_summary"} \subseteq DOMAIN Parameters
  BY DEF Parameters, OsongTools
<1>4. SUFFICES SeoulAccepts(h, text, entries) /\ h.tool \in DOMAIN Parameters /\ DOMAIN h.params \subseteq Parameters[h.tool]
  BY DEF Accepts
<1>5. ASSUME NEW values, h = Tool("analyze_storage_capture", With1("storage_m3", values)),
             values \subseteq {Sinwol} \cup ValuesAs(text, {"volume"})
      PROVE  SeoulAccepts(h, text, entries) /\ h.tool \in DOMAIN Parameters /\ DOMAIN h.params \subseteq Parameters[h.tool]
  <2>1. h.tool = "analyze_storage_capture" /\ DOMAIN h.params = {"storage_m3"} /\ h.params["storage_m3"] = values
    BY <1>5, With1Parts
  <2>2. Given(h, "storage_m3") = values /\ Given(h, "capacity_mm_per_hour") = {}
    BY <2>1, GivenIs
  <2> QED
    BY <1>3, <1>5, <2>1, <2>2 DEF SeoulAccepts
<1>6. ASSUME NEW t \in {"analyze_storage_capture", "get_observation_summary"}, h = Tool(t, None0)
      PROVE  SeoulAccepts(h, text, entries) /\ h.tool \in DOMAIN Parameters /\ DOMAIN h.params \subseteq Parameters[h.tool]
  <2>1. h.tool = t /\ DOMAIN h.params = {}
    BY <1>6, WithNone
  <2>2. \A x : Given(h, x) = {}
    BY <2>1, GivenIs
  <2> QED
    BY <1>3, <1>6, <2>1, <2>2 DEF SeoulAccepts
<1>7. CASE /\ h.tool = "analyze_alert_timing"
           /\ DOMAIN h.params \subseteq {"thresholds_mm_per_hour", "alert_times"} /\ DOMAIN h.params # {}
           /\ \A k \in DOMAIN h.params :
                 /\ h.params[k] # {}
                 /\ k = "alert_times" => h.params[k] = TimesIn(q)
                 /\ k # "alert_times" => h.params[k] \subseteq RainIn(q)
  <2>1. Given(h, "thresholds_mm_per_hour") \subseteq RainIn(text)
    BY <1>1, <1>7, GivenIs
  <2>2. Given(h, "alert_times") \subseteq TimesIn(text)
    BY <1>1, <1>7, GivenIs
  <2>3. Given(h, "thresholds_mm_per_hour") \cup Given(h, "alert_times") # {}
    BY <1>7, GivenIs
  <2> QED
    BY <1>3, <1>7, <2>1, <2>2, <2>3 DEF SeoulAccepts
<1>8. ASSUME ValuesAs(q, {"volume"}) # {}, h = Tool("analyze_storage_capture", With1("storage_m3", One(ValuesAs(q, {"volume"}))))
      PROVE  SeoulAccepts(h, text, entries) /\ h.tool \in DOMAIN Parameters /\ DOMAIN h.params \subseteq Parameters[h.tool]
  BY <1>2, <1>5, <1>8
<1>9. ASSUME h = Tool("analyze_storage_capture", With1("storage_m3", {Sinwol}))
      PROVE  SeoulAccepts(h, text, entries) /\ h.tool \in DOMAIN Parameters /\ DOMAIN h.params \subseteq Parameters[h.tool]
  BY <1>5, <1>9
<1> QED
  BY <1>6, <1>7, <1>8, <1>9, SeoulHintIs

LEMMA PressLetsThrough ==
    ASSUME NEW q, NEW h \in PressHints(q), NEW text, Within(q, text), Response(q) = Response(text), NEW last, NEW entries
    PROVE  Accepts("press", h, text, last, entries)
<1>1. TimesIn(q) \subseteq TimesIn(text)
  BY TakenGrows
<1>2. ShiftedResponses(q) \subseteq ShiftedResponses(text)
  BY ValuesGrow DEF ShiftedResponses
<1>3. /\ Parameters["analyze_response_timing"] = {"intervention_id", "action_times"}
      /\ {"analyze_response_timing", "get_observation_summary"} \subseteq DOMAIN Parameters
  BY DEF Parameters, OsongTools
<1>4. SUFFICES PressAccepts(h, text, entries) /\ h.tool \in DOMAIN Parameters /\ DOMAIN h.params \subseteq Parameters[h.tool]
  BY DEF Accepts
<1>5. CASE h = Tool("get_observation_summary", None0)
  <2>1. h.tool = "get_observation_summary" /\ DOMAIN h.params = {}
    BY <1>5, WithNone
  <2> QED
    BY <1>3, <2>1 DEF PressAccepts
<1>6. CASE /\ h.tool = "analyze_response_timing" /\ DOMAIN h.params = {"intervention_id", "action_times"}
           /\ h.params["intervention_id"] = {Response(q)} /\ Response(q) # "none"
           /\ h.params["action_times"] = TimesIn(q) \cup ShiftedResponses(q)
           /\ h.params["action_times"] # {}
  <2>1. Given(h, "intervention_id") = {Response(q)} /\ Given(h, "action_times") = TimesIn(q) \cup ShiftedResponses(q)
    BY <1>6, GivenIs
  <2>2. {Response(q)} \subseteq DOMAIN ActualTime
    BY <1>6, FollowUpsAssumption DEF Response
  <2> QED
    BY <1>1, <1>2, <1>3, <1>6, <2>1, <2>2 DEF PressAccepts
<1> QED
  BY <1>5, <1>6, PressHintIs

LEMMA LetsThrough ==
    ASSUME NEW e \in Events, NEW q, NEW h \in Router(e, q), NEW text, Within(q, text),
           e = "press" => Response(q) = Response(text),
           NEW last, Physical(last) => Physical(q), NEW entries, ValuesAs(text, {"metres_to"}) = {}
    PROVE  Accepts(e, h, text, last, entries)
<1>1. e \in {"osong", "seoul", "press"}
  BY DEF Events
<1>2. CASE e = "osong"
  BY <1>2, OsongLetsThrough DEF Router
<1>3. CASE e = "seoul"
  BY <1>3, SeoulLetsThrough DEF Router
<1>4. CASE e = "press"
  BY <1>4, PressLetsThrough DEF Router
<1> QED
  BY <1>1, <1>2, <1>3, <1>4

(* What the server lets through is in the text, registered, or was read.    *)
LEMMA ValuesGiven ==
    ASSUME NEW call, NEW keys, DOMAIN call.params \subseteq keys, NEW S,
           \A k \in keys \ {"intervention_id"} : Given(call, k) \subseteq S
    PROVE  ValuesOf(call) \subseteq S
BY DEF ValuesOf, Given

LEMMA LetThroughIsWritten ==
    ASSUME NEW e \in Events, NEW call, NEW text, NEW last, NEW entries \in SUBSET Recorded,
           Accepts(e, call, text, last, entries)
    PROVE  ValuesOf(call) \subseteq Written(text) \cup Registered
<1> DEFINE S == Written(text) \cup Registered
<1>1. /\ Spans(text) \subseteq S /\ TimesIn(text) \subseteq S /\ RadiiIn(text) \subseteq S /\ RainIn(text) \subseteq S
      /\ ShiftedClosures(text) \subseteq S /\ ShiftedResponses(text) \subseteq S /\ entries \subseteq S
      /\ {400000, Sinwol, 95, 100, 110} \subseteq S
  BY ValuesTaken, WrittenParts, ShiftedResponseIsWritten DEF Registered
<1>2. \A kinds : ValuesAs(text, kinds) \subseteq S
  BY ValuesAreSpoken, WrittenParts
<1>3. SUFFICES ValuesOf(call) \subseteq S
  OBVIOUS
<1> HIDE DEF S
<1>4. call.tool \in DOMAIN Parameters /\ DOMAIN call.params \subseteq Parameters[call.tool]
  BY DEF Accepts
<1>5. CASE e = "osong"
  <2>1. OsongAccepts(call, text, last, entries)
    BY <1>5 DEF Accepts
  <2>2. /\ Given(call, "closure_times") \subseteq S /\ Given(call, "delay_minutes") \subseteq S
        /\ Given(call, "advance_minutes") \subseteq S /\ Given(call, "radii_m") \subseteq S
    BY <1>1, <2>1 DEF OsongAccepts
  <2>3. Given(call, "reduction_m") \subseteq S
    <3>1. Whole(ValuesAs(text, {"metres"}), 0, 25) \subseteq S
      BY <1>2, WholeIsPart
    <3>2. Given(call, "reduction_m") # {} => Given(call, "reduction_m") \subseteq Whole(ValuesAs(text, {"metres"}), 0, 25)
      BY <2>1 DEF OsongAccepts
    <3> QED
      BY <3>1, <3>2
  <2>4. Parameters[call.tool] \subseteq {"closure_times", "delay_minutes", "advance_minutes", "radii_m", "reduction_m"}
    BY <2>1 DEF OsongAccepts, OsongTools, Parameters
  <2> QED
    <3> DEFINE keys == {"closure_times", "delay_minutes", "advance_minutes", "radii_m", "reduction_m"}
    <3>1. DOMAIN call.params \subseteq keys
      BY <1>4, <2>4
    <3>2. \A k \in keys \ {"intervention_id"} : Given(call, k) \subseteq S
      BY <2>2, <2>3
    <3> QED
      BY <3>1, <3>2, ValuesGiven
<1>6. CASE e = "seoul"
  <2>1. SeoulAccepts(call, text, entries)
    BY <1>6 DEF Accepts
  <2>2. CASE call.tool = "analyze_alert_timing"
    <3>1. Given(call, "thresholds_mm_per_hour") \subseteq S /\ Given(call, "alert_times") \subseteq S
      BY <1>1, <2>1, <2>2 DEF SeoulAccepts
    <3>2. Parameters[call.tool] = {"thresholds_mm_per_hour", "alert_times"}
      BY <2>2 DEF Parameters
    <3> QED
      BY <1>4, <3>1, <3>2, ValuesGiven
  <2>3. CASE call.tool = "analyze_storage_capture"
    <3>1. Given(call, "storage_m3") \subseteq S /\ Given(call, "capacity_mm_per_hour") \subseteq S
      BY <1>1, <1>2, <2>1, <2>3 DEF SeoulAccepts
    <3>2. Parameters[call.tool] = {"storage_m3", "capacity_mm_per_hour"}
      BY <2>3 DEF Parameters
    <3> QED
      BY <1>4, <3>1, <3>2, ValuesGiven
  <2>4. CASE call.tool = "get_observation_summary"
    <3>1. Parameters[call.tool] = {}
      BY <2>4 DEF Parameters, OsongTools
    <3> QED
      BY <1>4, <3>1, ValuesGiven
  <2> QED
    BY <2>1, <2>2, <2>3, <2>4 DEF SeoulAccepts
<1>7. CASE e = "press"
  <2>1. PressAccepts(call, text, entries)
    BY <1>7 DEF Accepts
  <2>2. CASE call.tool = "analyze_response_timing"
    <3>1. Given(call, "action_times") \subseteq S
      BY <1>1, <2>1, <2>2 DEF PressAccepts
    <3>2. Parameters[call.tool] = {"intervention_id", "action_times"}
      BY <2>2 DEF Parameters
    <3> QED
      BY <1>4, <3>1, <3>2, ValuesGiven
  <2>3. CASE call.tool = "get_observation_summary"
    <3>1. Parameters[call.tool] = {}
      BY <2>3 DEF Parameters, OsongTools
    <3> QED
      BY <1>4, <3>1, ValuesGiven
  <2> QED
    BY <2>1, <2>2, <2>3 DEF PressAccepts
<1> QED
  BY <1>5, <1>6, <1>7 DEF Events

-----------------------------------------------------------------------------
(* Question by question: the recursive function of Resolution, and what is   *)
(* true of what it makes of each question.                                  *)
Askable == [words : SUBSET Wording, said : SUBSET [as : Kinds, value : Nat]]
GoesOn(e, q) == Names(q, {"follow"}) /\ ~Other(q) /\ Router(e, q) = {}
SourceAt(e, qs, i) == {j \in 1 .. i : \A k \in (j + 1) .. i : GoesOn(e, qs[k])}
SaidIn(qs, is) == UNION {qs[i].said : i \in is}

IsTurns(r, e, qs) ==
    r = [i \in DOMAIN qs |->
            LET q == qs[i]
                direct == Router(e, q)
            IN IF direct # {} \/ ~Names(q, {"follow"}) \/ Other(q) THEN Resolved("current", direct, q)
               ELSE IF i = 1 THEN Ambiguous(q)
               ELSE TakesOver(e, q, r[i - 1])]
TurnsOf(e, qs) == CHOOSE r : IsTurns(r, e, qs)
TurnMade(e, qs, i, prior) ==
    IF ~GoesOn(e, qs[i]) THEN Resolved("current", Router(e, qs[i]), qs[i])
    ELSE IF i = 1 THEN Ambiguous(qs[i]) ELSE TakesOver(e, qs[i], prior)

(* A hint is of a part of the text that is about the same response, and     *)
(* that asks for works if the question does.                                *)
OfText(e, h, text, q) ==
    \E part : /\ Within(part, text) /\ h \in Router(e, part)
              /\ e = "press" => Response(part) = Response(text)
              /\ Physical(q) => Physical(part)
(* An analysis is of a question the text goes back to, with its conditions. *)
FromSource(e, qs, h, is) ==
    \E j \in is : \E a \in Router(e, qs[j]) : a.tool = h.tool /\ DOMAIN a.params \subseteq DOMAIN h.params

WellTaken(e, qs, i, t) ==
    LET is == SourceAt(e, qs, i)
    IN /\ t.mode \in {"current", "ambiguous", "reused", "updated"}
       /\ IsFiniteSet(t.hints)
       /\ t.text.said \subseteq SaidIn(qs, is)
       /\ t.mode \in {"current", "updated"} => t.text.said \subseteq qs[i].said
       /\ \A h \in t.hints : OfText(e, h, t.text, qs[i])
       /\ t.mode = "ambiguous" => t.hints = {}
       /\ t.mode = "current" => t.hints = Router(e, qs[i])
       /\ t.mode \in {"reused", "updated"} =>
             /\ Cardinality(t.hints) = 1 /\ i > 1 /\ GoesOn(e, qs[i])
             /\ \A h \in t.hints : FromSource(e, qs, h, is \ {i})

LEMMA TurnsExist == ASSUME NEW e, NEW qs, Len(qs) \in Nat, DOMAIN qs = 1 .. Len(qs) PROVE \E r : IsTurns(r, e, qs)
<1> DEFINE n == Len(qs)
           Upto(m, r) == r = [i \in 1 .. m |-> TurnMade(e, qs, i, r[i - 1])]
           C == {m \in Nat : ~\E r : Upto(m, r)}
<1>1. SUFFICES C = {}
  <2>1. PICK r : Upto(n, r)
    BY <1>1
  <2>2. IsTurns(r, e, qs)
    BY <2>1 DEF IsTurns, TurnMade, GoesOn
  <2> QED
    BY <2>2
<1>2. SUFFICES ASSUME C # {} PROVE FALSE
  OBVIOUS
<1>3. PICK m \in C : \A y \in C : m <= y
  <2>1. C \subseteq Nat
    OBVIOUS
  <2> QED
    BY <1>2, <2>1, LeastNat
<1>4. m \in Nat /\ ~\E r : Upto(m, r)
  BY <1>3
<1>5. m # 0
  <2>1. Upto(0, [i \in 1 .. 0 |-> 0])
    OBVIOUS
  <2> QED
    BY <1>4, <2>1
<1>6. m - 1 \in Nat /\ m - 1 \notin C
  <2>1. m - 1 \in Nat /\ ~(m <= m - 1)
    BY <1>4, <1>5
  <2> HIDE DEF C
  <2> QED
    BY <1>3, <2>1
<1>7. PICK g : Upto(m - 1, g)
  BY <1>6
<1> DEFINE r == [i \in 1 .. m |-> IF i < m THEN g[i] ELSE TurnMade(e, qs, m, g[m - 1])]
<1>8. ASSUME NEW i \in 1 .. m PROVE r[i] = TurnMade(e, qs, i, r[i - 1])
  <2>1. CASE i < m
    <3>1. i \in 1 .. m - 1 /\ r[i] = g[i]
      BY <1>4, <2>1
    <3>2. g[i] = TurnMade(e, qs, i, g[i - 1])
      BY <1>7, <3>1
    <3>3. CASE i = 1
      BY <3>1, <3>2, <3>3 DEF TurnMade
    <3>4. CASE i # 1
      <4>1. i - 1 \in 1 .. m /\ i - 1 < m
        BY <1>4, <3>1, <3>4
      <4>2. r[i - 1] = g[i - 1]
        BY <4>1
      <4> QED
        BY <3>1, <3>2, <4>2
    <3> QED
      BY <3>3, <3>4
  <2>2. CASE i = m
    <3>1. r[m] = TurnMade(e, qs, m, g[m - 1])
      BY <1>4, <1>5
    <3>2. CASE m = 1
      BY <2>2, <3>1, <3>2 DEF TurnMade
    <3>3. CASE m # 1
      <4>1. m - 1 \in 1 .. m /\ m - 1 < m
        BY <1>4, <1>5, <3>3
      <4>2. r[m - 1] = g[m - 1]
        BY <4>1
      <4> QED
        BY <2>2, <3>1, <4>2
    <3> QED
      BY <3>2, <3>3
  <2> QED
    BY <1>4, <2>1, <2>2
<1>9. r = [i \in 1 .. m |-> r[i]]
  OBVIOUS
<1> HIDE DEF r
<1>10. Upto(m, r)
  BY <1>8, <1>9
<1> QED
  BY <1>4, <1>10

LEMMA TurnSteps ==
    ASSUME NEW e, NEW qs, Len(qs) \in Nat \ {0}, DOMAIN qs = 1 .. Len(qs)
    PROVE  /\ \A i \in 1 .. Len(qs) : TurnsOf(e, qs)[i] = TurnMade(e, qs, i, TurnsOf(e, qs)[i - 1])
           /\ Resolution(e, qs) = TurnsOf(e, qs)[Len(qs)]
<1> DEFINE r == TurnsOf(e, qs)
<1>1. IsTurns(r, e, qs)
  BY TurnsExist DEF TurnsOf
<1>2. Resolution(e, qs) = r[Len(qs)]
  BY DEF Resolution, TurnsOf, IsTurns
<1> HIDE DEF r
<1>3. ASSUME NEW i \in 1 .. Len(qs) PROVE r[i] = TurnMade(e, qs, i, r[i - 1])
  BY <1>1 DEF IsTurns, TurnMade, GoesOn
<1> QED
  BY <1>2, <1>3 DEF r

LEMMA SourceGrows ==
    ASSUME NEW e, NEW qs, NEW i \in Nat, i > 1, GoesOn(e, qs[i])
    PROVE  /\ SourceAt(e, qs, i - 1) \subseteq SourceAt(e, qs, i) \ {i}
           /\ i \in SourceAt(e, qs, i) /\ i - 1 \in SourceAt(e, qs, i - 1)
<1>1. ASSUME NEW j \in SourceAt(e, qs, i - 1) PROVE j \in SourceAt(e, qs, i) \ {i}
  <2>1. j \in 1 .. i - 1 /\ \A k \in (j + 1) .. i - 1 : GoesOn(e, qs[k])
    BY <1>1 DEF SourceAt
  <2>2. \A k \in (j + 1) .. i : k = i \/ k \in (j + 1) .. i - 1
    BY <2>1
  <2> QED
    BY <2>1, <2>2 DEF SourceAt
<1>2. i \in SourceAt(e, qs, i) /\ i - 1 \in SourceAt(e, qs, i - 1)
  BY DEF SourceAt
<1> QED
  BY <1>1, <1>2

LEMMA SourceHasIt == ASSUME NEW e, NEW qs, NEW i \in Nat \ {0} PROVE i \in SourceAt(e, qs, i)
BY DEF SourceAt

LEMMA JoinedParts ==
    ASSUME NEW q, NEW p
    PROVE  Joined(q, p).words = q.words \cup p.words /\ Joined(q, p).said = q.said \cup p.said
BY DEF Joined

LEMMA LabelledParts ==
    ASSUME NEW h, NEW q \in Askable
    PROVE  Labelled(h, q).said = q.said /\ q.words \subseteq Labelled(h, q).words
BY DEF Labelled, Askable

LEMMA ResolvedParts ==
    ASSUME NEW m, NEW h, NEW t
    PROVE  Resolved(m, h, t).mode = m /\ Resolved(m, h, t).hints = h /\ Resolved(m, h, t).text = t
BY DEF Resolved

LEMMA OnlyOne ==
    ASSUME NEW S, IsFiniteSet(S), Cardinality(S) = 1
    PROVE  S = {CHOOSE x \in S : TRUE}
<1>1. PICK x : S = {x}
  BY FS_Singleton
<1> QED
  BY <1>1

(* The response an analysis of a press case is about.                       *)
LEMMA PressAnalysisNames ==
    ASSUME NEW q, NEW h \in Router("press", q), h \in Analyses({h})
    PROVE  h.tool = "analyze_response_timing" /\ h.params["intervention_id"] = {Response(q)} /\ Response(q) # "none"
<1>1. h \in PressHints(q)
  BY DEF Router
<1>2. h # Tool("get_observation_summary", None0)
  BY WithNone DEF Analyses, Topics
<1> QED
  BY <1>1, <1>2, PressHintIs

LEMMA JoinedResponse ==
    ASSUME NEW q, NEW p, Response(q) # "none", Response(p) \in {"none", Response(q)}
    PROVE  Response(Joined(q, p)) = Response(q)
<1>1. \A words : Names(Joined(q, p), words) <=> Names(q, words) \/ Names(p, words)
  BY JoinedParts DEF Names
<1> QED
  BY <1>1 DEF Response

LEMMA AmbiguousIsWell ==
    ASSUME NEW e, NEW qs, NEW i \in Nat \ {0}
    PROVE  WellTaken(e, qs, i, Ambiguous(qs[i]))
<1> DEFINE t == Ambiguous(qs[i])
<1>1. t.mode = "ambiguous" /\ t.hints = {} /\ t.text = qs[i]
  BY ResolvedParts DEF Ambiguous
<1>2. t.text.said \subseteq SaidIn(qs, SourceAt(e, qs, i))
  BY <1>1, SourceHasIt DEF SaidIn
<1>3. IsFiniteSet(t.hints)
  BY <1>1, FS_EmptySet
<1> HIDE DEF t
<1>4. WellTaken(e, qs, i, t)
  BY <1>1, <1>2, <1>3 DEF WellTaken
<1> QED
  BY <1>4 DEF t

LEMMA CurrentIsWell ==
    ASSUME NEW e, NEW qs, NEW i \in Nat \ {0}
    PROVE  WellTaken(e, qs, i, Resolved("current", Router(e, qs[i]), qs[i]))
<1> DEFINE t == Resolved("current", Router(e, qs[i]), qs[i])
<1>1. t.mode = "current" /\ t.hints = Router(e, qs[i]) /\ t.text = qs[i]
  BY ResolvedParts
<1>2. t.text.said \subseteq SaidIn(qs, SourceAt(e, qs, i))
  BY <1>1, SourceHasIt DEF SaidIn
<1>3. IsFiniteSet(t.hints)
  BY <1>1, RouterIsFinite
<1>4. \A h \in t.hints : OfText(e, h, t.text, qs[i])
  BY <1>1 DEF OfText, Within
<1> HIDE DEF t
<1>5. WellTaken(e, qs, i, t)
  BY <1>1, <1>2, <1>3, <1>4 DEF WellTaken
<1> QED
  BY <1>5 DEF t

LEMMA WholeConditionIsWell ==
    ASSUME NEW e \in Events, NEW qs, NEW i \in Nat, i > 1, GoesOn(e, qs[i]),
           NEW prior, WellTaken(e, qs, i - 1, prior),
           NEW h \in Analyses(prior.hints),
           e = "press" => Response(qs[i]) \in {"none"} \cup h.params["intervention_id"]
    PROVE  WellTaken(e, qs, i, Resolved("reused", {h}, Joined(prior.text, qs[i])))
<1> DEFINE q == qs[i]
           t == Resolved("reused", {h}, Joined(prior.text, q))
<1>1. t.mode = "reused" /\ t.hints = {h} /\ t.text = Joined(prior.text, q)
  BY ResolvedParts
<1>2. /\ SourceAt(e, qs, i - 1) \subseteq SourceAt(e, qs, i) \ {i}
      /\ i \in SourceAt(e, qs, i) /\ i - 1 \in SourceAt(e, qs, i - 1)
  BY SourceGrows
<1>3. h \in prior.hints /\ h \in Analyses({h})
  BY DEF Analyses
<1> HIDE DEF t
<1>4. t.text.said \subseteq SaidIn(qs, SourceAt(e, qs, i))
  <2>1. prior.text.said \subseteq SaidIn(qs, SourceAt(e, qs, i - 1))
    BY DEF WellTaken
  <2>2. prior.text.said \subseteq SaidIn(qs, SourceAt(e, qs, i))
    BY <1>2, <2>1 DEF SaidIn
  <2>3. q.said \subseteq SaidIn(qs, SourceAt(e, qs, i))
    BY <1>2 DEF SaidIn
  <2> QED
    BY <1>1, <2>2, <2>3, JoinedParts
<1>5. OfText(e, h, t.text, q)
  <2>1. OfText(e, h, prior.text, qs[i - 1])
    BY <1>3 DEF WellTaken
  <2>2. PICK part : Within(part, prior.text) /\ h \in Router(e, part) /\ (e = "press" => Response(part) = Response(prior.text))
    BY <2>1 DEF OfText
  <2>3. Within(part, t.text)
    BY <1>1, <2>2, JoinedParts DEF Within
  <2>4. ASSUME e = "press" PROVE Response(part) = Response(t.text)
    <3>1. h.params["intervention_id"] = {Response(part)} /\ Response(part) # "none"
      BY <1>3, <2>2, <2>4, PressAnalysisNames
    <3>2. Response(prior.text) # "none" /\ Response(q) \in {"none", Response(prior.text)}
      BY <2>2, <2>4, <3>1
    <3> QED
      BY <1>1, <2>2, <2>4, <3>2, JoinedResponse
  <2>5. ~Physical(q)
    BY DEF GoesOn, Other, Physical, Names
  <2> QED
    BY <2>2, <2>3, <2>4, <2>5 DEF OfText
<1>6. FromSource(e, qs, h, SourceAt(e, qs, i) \ {i})
  <2>1. CASE prior.mode = "current"
    <3>1. h \in Router(e, qs[i - 1])
      BY <1>3, <2>1 DEF WellTaken
    <3> QED
      BY <1>2, <3>1 DEF FromSource
  <2>2. CASE prior.mode \in {"reused", "updated"}
    <3>1. FromSource(e, qs, h, SourceAt(e, qs, i - 1) \ {i - 1})
      BY <1>3, <2>2 DEF WellTaken
    <3> QED
      BY <1>2, <3>1 DEF FromSource
  <2> QED
    BY <1>3, <2>1, <2>2 DEF WellTaken
<1>7. IsFiniteSet(t.hints) /\ Cardinality(t.hints) = 1
  BY <1>1, FS_Singleton
<1>8. WellTaken(e, qs, i, t)
  BY <1>1, <1>4, <1>5, <1>6, <1>7 DEF WellTaken
<1> QED
  BY <1>8 DEF t

LEMMA NewConditionIsWell ==
    ASSUME NEW e \in Events, NEW qs, NEW i \in Nat, i > 1, GoesOn(e, qs[i]), qs[i] \in Askable,
           NEW prior, WellTaken(e, qs, i - 1, prior), NEW h \in Analyses(prior.hints)
    PROVE  WellTaken(e, qs, i, Updated(e, qs[i], h))
<1> DEFINE q == qs[i]
           updates == Analyses(Router(e, Labelled(h, q)))
           kept == {u \in Anew(e, q, h) : DOMAIN h.params \subseteq DOMAIN u.params}
           t == Resolved("updated", kept, Labelled(h, q))
<1>1. CASE kept = {}
  <2>1. Updated(e, q, h) = Ambiguous(q)
    BY <1>1 DEF Updated
  <2> QED
    BY <2>1, AmbiguousIsWell
<1>2. CASE kept # {}
  <2>1. Updated(e, q, h) = t
    BY <1>2 DEF Updated
  <2>2. t.mode = "updated" /\ t.hints = kept /\ t.text = Labelled(h, q)
    BY ResolvedParts
  <2>3. PICK u : kept = {u} /\ u \in updates /\ u.tool = h.tool /\ DOMAIN h.params \subseteq DOMAIN u.params
    <3>1. kept \subseteq updates /\ Cardinality(updates) = 1
      BY <1>2 DEF Anew
    <3>2. IsFiniteSet(Router(e, Labelled(h, q))) /\ updates \subseteq Router(e, Labelled(h, q))
      BY RouterIsFinite DEF Analyses
    <3>3. IsFiniteSet(updates)
      BY <3>2, FS_Subset
    <3>4. PICK u : updates = {u}
      BY <3>1, <3>3, FS_Singleton
    <3>5. kept = {u} /\ u \in kept
      BY <1>2, <3>1, <3>4
    <3>6. u.tool = h.tool /\ DOMAIN h.params \subseteq DOMAIN u.params
      BY <3>5 DEF Anew
    <3> QED
      BY <3>4, <3>5, <3>6
  <2>4. u \in Router(e, Labelled(h, q))
    BY <2>3 DEF Analyses
  <2> HIDE DEF t, kept, updates
  <2>5. /\ SourceAt(e, qs, i - 1) \subseteq SourceAt(e, qs, i) \ {i}
        /\ i \in SourceAt(e, qs, i) /\ i - 1 \in SourceAt(e, qs, i - 1)
    BY SourceGrows
  <2>6. t.text.said = q.said /\ q.said \subseteq SaidIn(qs, SourceAt(e, qs, i))
    BY <2>2, <2>5, LabelledParts DEF SaidIn
  <2>7. OfText(e, u, t.text, q)
    <3>1. ~Physical(q)
      BY DEF GoesOn, Other, Physical, Names
    <3> QED
      BY <2>2, <2>4, <3>1 DEF OfText, Within
  <2>8. FromSource(e, qs, u, SourceAt(e, qs, i) \ {i})
    <3>1. h \in prior.hints
      BY DEF Analyses
    <3>2. FromSource(e, qs, h, SourceAt(e, qs, i) \ {i})
      <4>1. CASE prior.mode = "current"
        <5>1. h \in Router(e, qs[i - 1])
          BY <3>1, <4>1 DEF WellTaken
        <5> QED
          BY <2>5, <5>1 DEF FromSource
      <4>2. CASE prior.mode \in {"reused", "updated"}
        <5>1. FromSource(e, qs, h, SourceAt(e, qs, i - 1) \ {i - 1})
          BY <3>1, <4>2 DEF WellTaken
        <5> QED
          BY <2>5, <5>1 DEF FromSource
      <4> QED
        BY <3>1, <4>1, <4>2 DEF WellTaken
    <3> QED
      BY <2>3, <3>2 DEF FromSource
  <2>9. t.hints = {u} /\ t.mode = "updated"
    BY <2>2, <2>3
  <2>10. IsFiniteSet(t.hints) /\ Cardinality(t.hints) = 1
    BY <2>9, FS_Singleton
  <2>11. WellTaken(e, qs, i, t)
    BY <2>6, <2>7, <2>8, <2>9, <2>10 DEF WellTaken
  <2> QED
    BY <2>1, <2>11
<1> QED
  BY <1>1, <1>2

LEMMA TakenOverIsWell ==
    ASSUME NEW e \in Events, NEW qs, NEW i \in Nat, i > 1, GoesOn(e, qs[i]), qs[i] \in Askable,
           NEW prior, WellTaken(e, qs, i - 1, prior)
    PROVE  WellTaken(e, qs, i, TakesOver(e, qs[i], prior))
<1> DEFINE q == qs[i]
           h == CHOOSE x \in Analyses(prior.hints) : TRUE
           mentioned == {t \in DOMAIN Topics : Names(q, {Topics[t]})}
           other == h.tool = "analyze_response_timing" /\ Response(q) \notin {"none"} \cup h.params["intervention_id"]
<1>1. WellTaken(e, qs, i, Ambiguous(q))
  BY AmbiguousIsWell
<1>2. ASSUME Cardinality(Analyses(prior.hints)) = 1, ~other
      PROVE  /\ h \in Analyses(prior.hints)
             /\ e = "press" => Response(q) \in {"none"} \cup h.params["intervention_id"]
  <2>1. IsFiniteSet(Analyses(prior.hints))
    BY FS_Subset DEF WellTaken, Analyses
  <2>2. h \in Analyses(prior.hints)
    BY <1>2, <2>1, OnlyOne
  <2> HIDE DEF h
  <2>3. ASSUME e = "press" PROVE h.tool = "analyze_response_timing"
    <3>1. h \in prior.hints /\ h \in Analyses({h})
      BY <2>2 DEF Analyses
    <3>2. OfText(e, h, prior.text, qs[i - 1])
      BY <3>1 DEF WellTaken
    <3>3. PICK part : h \in Router(e, part)
      BY <3>2 DEF OfText
    <3> QED
      BY <2>3, <3>1, <3>3, PressAnalysisNames
  <2> QED
    BY <1>2, <2>2, <2>3
<1>3. \/ TakesOver(e, q, prior) = Ambiguous(q)
      \/ /\ Cardinality(Analyses(prior.hints)) = 1 /\ ~other
         /\ \/ TakesOver(e, q, prior) = Resolved("reused", {h}, Joined(prior.text, q))
            \/ TakesOver(e, q, prior) = Updated(e, q, h)
  BY Zenon DEF TakesOver
<1> HIDE DEF h, other
<1> QED
  BY <1>1, <1>2, <1>3, WholeConditionIsWell, NewConditionIsWell

LEMMA ResolutionIsWell ==
    ASSUME NEW e \in Events, NEW qs \in Seq(Askable), qs # <<>>
    PROVE  WellTaken(e, qs, Len(qs), Resolution(e, qs))
<1> DEFINE n == Len(qs)
           r == TurnsOf(e, qs)
           Bad == {i \in 1 .. n : ~WellTaken(e, qs, i, r[i])}
<1>1. n \in Nat \ {0} /\ DOMAIN qs = 1 .. n
  OBVIOUS
<1>2. \A i \in 1 .. n : qs[i] \in Askable /\ r[i] = TurnMade(e, qs, i, r[i - 1])
  BY <1>1, TurnSteps
<1>3. Resolution(e, qs) = r[n]
  BY <1>1, TurnSteps
<1> HIDE DEF r
<1>4. Bad = {}
  <2>1. SUFFICES ASSUME Bad # {} PROVE FALSE
    OBVIOUS
  <2>2. PICK i \in Bad : \A j \in Bad : i <= j
    <3>1. Bad \subseteq Nat
      BY <1>1
    <3> HIDE DEF Bad
    <3> QED
      BY <2>1, <3>1, LeastNat
  <2>3. i \in 1 .. n /\ i \in Nat \ {0}
    BY <1>1
  <2>4. i > 1 => WellTaken(e, qs, i - 1, r[i - 1])
    <3>1. i > 1 => i - 1 \in 1 .. n /\ ~(i <= i - 1)
      BY <1>1, <2>3
    <3> QED
      BY <2>2, <3>1
  <2>5. r[i] = TurnMade(e, qs, i, r[i - 1]) /\ qs[i] \in Askable
    BY <1>2, <2>3
  <2>6. WellTaken(e, qs, i, r[i])
    <3>1. CASE ~GoesOn(e, qs[i])
      BY <2>3, <2>5, <3>1, CurrentIsWell DEF TurnMade
    <3>2. CASE GoesOn(e, qs[i]) /\ i = 1
      BY <2>3, <2>5, <3>2, AmbiguousIsWell DEF TurnMade
    <3>3. CASE GoesOn(e, qs[i]) /\ i # 1
      <4>1. i > 1
        BY <2>3, <3>3
      <4>2. r[i] = TakesOver(e, qs[i], r[i - 1])
        BY <2>5, <3>3 DEF TurnMade
      <4> QED
        BY <2>3, <2>4, <2>5, <3>3, <4>1, <4>2, TakenOverIsWell
    <3> QED
      BY <3>1, <3>2, <3>3
  <2> QED
    BY <2>2, <2>6
<1>5. n \in 1 .. n
  BY <1>1
<1> QED
  BY <1>3, <1>4, <1>5

(* What is known of a conversation.                                         *)
TalkInv ==
    /\ about \in Events /\ dialogue \in Seq(Askable)
    /\ dialogue # <<>> => WellTaken(about, dialogue, Len(dialogue), resolved)
    /\ readOf \subseteq Recorded
    /\ dialogue # <<>> => \A t \in tried : \E entries \in SUBSET Recorded :
          t.ok = Accepts(about, t.call, resolved.text, dialogue[Len(dialogue)], entries)

LEMMA WindowIsOfQuestions ==
    ASSUME NEW qs \in Seq(Askable), qs # <<>>
    PROVE  Window(qs) \in Seq(Askable) /\ Window(qs) # <<>>
<1> DEFINE first == IF Len(qs) > TurnsKept THEN Len(qs) - TurnsKept ELSE 1
<1>1. Len(qs) \in Nat \ {0} /\ TurnsKept \in Nat
  BY FollowUpsAssumption
<1>2. first \in 1 .. Len(qs)
  BY <1>1, FollowUpsAssumption
<1> HIDE DEF first
<1>3. SubSeq(qs, first, Len(qs)) \in Seq(Askable) /\ Len(SubSeq(qs, first, Len(qs))) # 0
  BY <1>1, <1>2
<1>4. Window(qs) = SubSeq(qs, first, Len(qs))
  BY DEF Window, first
<1> QED
  BY <1>3, <1>4

LEMMA MoreThanOne ==
    ASSUME NEW S, IsFiniteSet(S), NEW a \in S, NEW b \in S, a # b
    PROVE  Cardinality(S) > 1
<1>1. Cardinality(S) \in Nat
  BY FS_CardinalityType
<1>2. Cardinality(S) # 0
  BY FS_EmptySet
<1>3. Cardinality(S) # 1
  <2>1. SUFFICES ASSUME Cardinality(S) = 1 PROVE FALSE
    OBVIOUS
  <2>2. PICK x : S = {x}
    BY <2>1, FS_Singleton
  <2> QED
    BY <2>2
<1> QED
  BY <1>1, <1>2, <1>3

LEMMA TalkStarts == TalkInit => TalkInv
BY FollowUpsAssumption DEF TalkInit, TalkInv

LEMMA TalkGoesOn == TalkInv /\ [TalkNext]_talkVars => TalkInv'
<1> SUFFICES ASSUME TalkInv, [TalkNext]_talkVars PROVE TalkInv'
  OBVIOUS
<1>1. ASSUME NEW q \in Says[about], AskNext(q) PROVE TalkInv'
  <2>1. q \in Askable
    BY FollowUpsAssumption DEF TalkInv, Askable
  <2>2. Append(dialogue, q) \in Seq(Askable) /\ Append(dialogue, q) # <<>>
    <3>1. dialogue \in Seq(Askable)
      BY DEF TalkInv
    <3>2. Len(Append(dialogue, q)) = Len(dialogue) + 1 /\ Len(dialogue) \in Nat
      BY <2>1, <3>1
    <3> QED
      BY <2>1, <3>1, <3>2
  <2>3. dialogue' \in Seq(Askable) /\ dialogue' # <<>>
    BY <1>1, <2>2, WindowIsOfQuestions DEF AskNext
  <2>4. about' = about /\ about \in Events /\ resolved' = Resolution(about, dialogue') /\ tried' = {} /\ readOf' = {}
    BY <1>1 DEF AskNext, TalkInv
  <2>5. WellTaken(about', dialogue', Len(dialogue'), resolved')
    BY <2>3, <2>4, ResolutionIsWell
  <2> QED
    BY <2>3, <2>4, <2>5 DEF TalkInv
<1>2. CASE ReadEntries
  BY <1>2 DEF TalkInv, ReadEntries
<1>3. ASSUME NEW call, ModelCalls(call) PROVE TalkInv'
  <2>1. /\ tried' = {[call |-> call, ok |-> Accepts(about, call, resolved.text, dialogue[Len(dialogue)], readOf)]}
        /\ about' = about /\ dialogue' = dialogue /\ resolved' = resolved /\ readOf' = readOf
    BY <1>3 DEF ModelCalls
  <2>2. \A t \in tried' : t.ok = Accepts(about, t.call, resolved.text, dialogue[Len(dialogue)], readOf)
    BY <2>1
  <2> QED
    BY <2>1, <2>2 DEF TalkInv
<1>4. CASE UNCHANGED talkVars
  BY <1>4 DEF TalkInv, talkVars
<1> QED
  BY <1>1, <1>2, <1>3, <1>4 DEF TalkNext

LEMMA TalkKeepsSource == TalkInv => FollowUpsKeepTheirSource
<1> SUFFICES ASSUME TalkInv, dialogue # <<>> PROVE FollowUpsKeepTheirSource
  BY DEF FollowUpsKeepTheirSource
<1> DEFINE n == Len(dialogue)
           last == dialogue[n]
<1>1. n \in Nat \ {0} /\ DOMAIN dialogue = 1 .. n
  BY DEF TalkInv
<1>2. WellTaken(about, dialogue, n, resolved) /\ about \in Events
  BY DEF TalkInv
<1>3. Source = SourceAt(about, dialogue, n)
  BY <1>1 DEF Source, SourceAt, GoesOn
<1>4. resolved.text.said \subseteq Text(Source).said
  BY <1>2, <1>3 DEF WellTaken, SaidIn, Text
<1>5. ASSUME NEW text, NEW wider, text.said \subseteq wider.said PROVE Written(text) \subseteq Written(wider)
  BY <1>5 DEF Written
<1>6. ASSUME NEW h \in resolved.hints, NEW wider, resolved.text.said \subseteq wider.said
      PROVE  ValuesOf(h) \subseteq Registered \cup Written(wider)
  <2>1. PICK part : Within(part, resolved.text) /\ h \in Router(about, part)
    BY <1>2 DEF WellTaken, OfText
  <2>2. part.said \subseteq wider.said
    BY <1>6, <2>1 DEF Within
  <2>3. ValuesOf(h) \subseteq Registered \cup Written(part)
    BY <2>1, HintValuesAreWritten
  <2> QED
    BY <1>5, <2>2, <2>3
<1>7. ASSUME resolved.mode \in {"reused", "updated"}
      PROVE  /\ Cardinality(resolved.hints) = 1 /\ Cardinality(Source) > 1
             /\ ~Other(last) /\ Router(about, last) = {}
             /\ \A h \in resolved.hints :
                   /\ ValuesOf(h) \subseteq Registered \cup
                         Written(Text(IF resolved.mode = "updated" THEN {n} ELSE Source))
                   /\ \E i \in Source \ {n} : \E a \in Router(about, dialogue[i]) :
                         a.tool = h.tool /\ DOMAIN a.params \subseteq DOMAIN h.params
  <2>1. Cardinality(resolved.hints) = 1 /\ n > 1 /\ GoesOn(about, last)
    BY <1>2, <1>7 DEF WellTaken
  <2>2. Cardinality(Source) > 1
    <3>1. n \in Source /\ n - 1 \in Source
      BY <1>1, <1>3, <2>1, SourceGrows
    <3>2. IsFiniteSet(Source)
      <4>1. Source \in SUBSET (1 .. n) /\ IsFiniteSet(1 .. n)
        BY <1>1, <1>3, FS_Interval DEF SourceAt
      <4> QED
        BY <4>1, FS_Subset
    <3>3. n - 1 # n
      <4>1. \A k \in Nat : k - 1 # k
        OBVIOUS
      <4> QED
        BY <1>1, <4>1
    <3> QED
      BY <3>1, <3>2, <3>3, MoreThanOne
  <2>3. ASSUME NEW h \in resolved.hints
        PROVE  ValuesOf(h) \subseteq Registered \cup Written(Text(IF resolved.mode = "updated" THEN {n} ELSE Source))
    <3>1. CASE resolved.mode = "updated"
      <4>1. resolved.text.said \subseteq Text({n}).said
        BY <1>2, <3>1 DEF WellTaken, Text
      <4> QED
        BY <1>6, <3>1, <4>1
    <3>2. CASE resolved.mode # "updated"
      BY <1>4, <1>6, <3>2
    <3> QED
      BY <3>1, <3>2
  <2>4. \A h \in resolved.hints : FromSource(about, dialogue, h, Source \ {n})
    BY <1>2, <1>3, <1>7 DEF WellTaken
  <2> QED
    BY <2>1, <2>2, <2>3, <2>4 DEF GoesOn, FromSource
<1>8. ASSUME NEW t \in tried
      PROVE  /\ t.ok => ValuesOf(t.call) \subseteq Written(Text(Source)) \cup Registered
             /\ t.call \in resolved.hints => t.ok \/ ValuesAs(resolved.text, {"metres_to"}) # {}
  <2>1. PICK entries \in SUBSET Recorded : t.ok = Accepts(about, t.call, resolved.text, last, entries)
    BY DEF TalkInv
  <2>2. t.ok => ValuesOf(t.call) \subseteq Written(Text(Source)) \cup Registered
    <3>1. t.ok => ValuesOf(t.call) \subseteq Written(resolved.text) \cup Registered
      BY <1>2, <2>1, LetThroughIsWritten
    <3> QED
      BY <1>4, <1>5, <3>1
  <2>3. ASSUME t.call \in resolved.hints, ValuesAs(resolved.text, {"metres_to"}) = {}
        PROVE  t.ok
    <3>1. OfText(about, t.call, resolved.text, last)
      BY <1>2, <2>3 DEF WellTaken
    <3>2. PICK part : /\ Within(part, resolved.text) /\ t.call \in Router(about, part)
                      /\ about = "press" => Response(part) = Response(resolved.text)
                      /\ Physical(last) => Physical(part)
      BY <3>1 DEF OfText
    <3>3. Accepts(about, t.call, resolved.text, last, entries)
      BY <1>2, <2>3, <3>2, LetsThrough
    <3> QED
      BY <2>1, <3>3
  <2> QED
    BY <2>2, <2>3
<1> QED
  BY <1>7, <1>8 DEF FollowUpsKeepTheirSource

(* For every set of questions and whatever the model calls: what a question  *)
(* goes on with is one analysis of a question before it, with all of its     *)
(* conditions named by the user, and every call the server lets through has  *)
(* its values from the questions it goes back to, a registered number or an  *)
(* entry it has read (resolve_question, _validated_tool_request).           *)
THEOREM FollowUpsKeepTheirSourceHolds == TalkSpec => []FollowUpsKeepTheirSource
<1>1. TalkSpec => []TalkInv
  BY TalkStarts, TalkGoesOn, PTL DEF TalkSpec
<1> QED
  BY <1>1, TalkKeepsSource, PTL

-----------------------------------------------------------------------------
(***************************************************************************)
(* The page of a case.  Its pages are drawn in the order in which they were *)
(* routed: all of their requests are remembered, so that of two pages of    *)
(* the mapped case the older one never waits for anything that the younger  *)
(* does not wait for too, and goes first.                                   *)
(***************************************************************************)
AwaitedOf(n) == IF renders[n].shown THEN After[renders[n].of] ELSE Before[renders[n].of]

(* Where a page is in what it awaits.                                       *)
Placed(n) ==
    LET all == AwaitedOf(n)
        still == Len(renders[n].rest)
    IN /\ still < Len(all)
       /\ \A i \in 1 .. still : renders[n].rest[i] = all[Len(all) - still + i]
       /\ \A f \in renders[n].waits : f.path \in all[Len(all) - still]
Further(k, shown, still) ==
    \/ renders[k].shown /\ ~shown
    \/ renders[k].shown = shown /\ Len(renders[k].rest) < still
Ahead(k, n) ==
    \/ Further(k, renders[n].shown, Len(renders[n].rest))
    \/ /\ renders[k].shown = renders[n].shown /\ Len(renders[k].rest) = Len(renders[n].rest)
       /\ renders[k].waits \subseteq renders[n].waits
InOrder ==
    /\ \A n \in DOMAIN renders : renders[n].of \in Mapped => Placed(n)
    /\ \A k, n \in DOMAIN renders :
          k < n /\ renders[k].of = renders[n].of /\ renders[k].of \in Mapped /\ ~renders[k].failed => Ahead(k, n)

(* Sets that page n may await next: what is left of all it awaits, and not  *)
(* less than what its elders await, nor more than those after it.           *)
InPlace(n, page, shown, sets, all) ==
    /\ Len(sets) <= Len(all) /\ \A i \in 1 .. Len(sets) : sets[i] = all[Len(all) - Len(sets) + i]
    /\ \A k \in DOMAIN renders :
          k < n /\ renders[k].of = page /\ ~renders[k].failed => Further(k, shown, Len(sets))
    /\ \A k \in DOMAIN renders :
          n < k /\ renders[k].of = page =>
              \/ shown /\ ~renders[k].shown
              \/ renders[k].shown = shown /\ Len(sets) <= Len(renders[k].rest)

LEMMA TailOfSets ==
    ASSUME NEW sets \in Seq(SUBSET Paths), sets # <<>>
    PROVE  /\ Len(sets) \in Nat \ {0} /\ Len(Tail(sets)) = Len(sets) - 1 /\ Head(sets) = sets[1]
           /\ Head(sets) \subseteq Paths
           /\ \A i \in 1 .. Len(sets) - 1 : Tail(sets)[i] = sets[i + 1]
OBVIOUS

LEMMA OnlyCached ==
    ASSUME NEW page \in Mapped
    PROVE  /\ page \in Pages /\ Before[page] \in Seq(SUBSET Paths) /\ After[page] \in Seq(SUBSET Paths)
           /\ \A i \in 1 .. Len(Before[page]) : Before[page][i] \cap Fresh = {}
           /\ \A i \in 1 .. Len(After[page]) : After[page][i] \cap Fresh = {}
<1>1. page \in Pages
  BY ReplayAssumption
<1>2. Before[page] \in Seq(SUBSET Paths) /\ After[page] \in Seq(SUBSET Paths)
  BY <1>1, Shell
<1>3. DOMAIN Before[page] = 1 .. Len(Before[page]) /\ DOMAIN After[page] = 1 .. Len(After[page])
  BY <1>2
<1> QED
  BY <1>1, <1>2, <1>3, ReplayAssumption

LEMMA RestOf ==
    ASSUME RequestsTyped, NEW n \in DOMAIN renders
    PROVE  /\ renders[n].rest \in Seq(SUBSET Paths) /\ Len(renders[n].rest) \in Nat
           /\ renders[n].shown \in BOOLEAN /\ renders[n].of \in Pages /\ renders[n].waits \subseteq Promises
           /\ renders[n].failed \in BOOLEAN
<1>1. renders[n] \in UnderWay
  BY DEF RequestsTyped
<1> QED
  BY <1>1 DEF UnderWay

LEMMA RequestInOrder ==
    ASSUME RequestsTyped, Remembered, InOrder, DOMAIN renders \subseteq Nat,
           NEW n \in Nat, NEW page \in Pages, NEW shown \in BOOLEAN,
           NEW sets \in Seq(SUBSET Paths), sets # <<>>, Request(n, page, shown, sets), got' = got,
           NEW all, all = IF shown THEN After[page] ELSE Before[page],
           page \in Mapped => InPlace(n, page, shown, sets, all)
    PROVE  InOrder'
<1> DEFINE promises == {Promise(p, n) : p \in Head(sets)}
           new == {q \in promises : q.path \in Fresh \/ memo[q.path] = Nil}
           rec == [of |-> page, shown |-> shown, rest |-> Tail(sets), failed |-> FALSE,
                   waits |-> promises \cap (flight \cup new)]
<1>1. /\ DOMAIN renders' = DOMAIN renders \cup {n} /\ \A k \in DOMAIN renders \ {n} : renders'[k] = renders[k]
  BY DEF Request, With
<1>2. renders'[n] = rec
  BY DEF Request, With
<1>3. /\ renders'[n].of = page /\ renders'[n].shown = shown /\ renders'[n].rest = Tail(sets)
      /\ renders'[n].waits = promises \cap (flight \cup new) /\ ~renders'[n].failed
  BY <1>2
<1> HIDE DEF rec
<1>4. /\ Len(sets) \in Nat \ {0} /\ Len(renders'[n].rest) = Len(sets) - 1 /\ Head(sets) = sets[1]
      /\ Head(sets) \subseteq Paths
      /\ \A i \in 1 .. Len(sets) - 1 : renders'[n].rest[i] = sets[i + 1]
  BY <1>3, TailOfSets
<1>5. ASSUME page \in Mapped
      PROVE  /\ Len(all) \in Nat /\ \A i \in 1 .. Len(all) : all[i] \cap Fresh = {}
             /\ Head(sets) = all[Len(all) - Len(renders'[n].rest)]
             /\ Head(sets) \cap Fresh = {}
  <2>1. Len(all) \in Nat /\ \A i \in 1 .. Len(all) : all[i] \cap Fresh = {}
    BY <1>5, OnlyCached
  <2>2. Len(sets) <= Len(all) /\ \A i \in 1 .. Len(sets) : sets[i] = all[Len(all) - Len(sets) + i]
    BY <1>5 DEF InPlace
  <2>3. 1 \in 1 .. Len(sets) /\ sets[1] = all[Len(all) - Len(sets) + 1]
    BY <1>4, <2>2
  <2>4. Len(all) - Len(sets) + 1 = Len(all) - Len(renders'[n].rest) /\ Len(all) - Len(sets) + 1 \in 1 .. Len(all)
    BY <1>4, <2>1, <2>2
  <2> QED
    BY <1>4, <2>1, <2>3, <2>4
<1>6. ASSUME NEW p \in Head(sets) PROVE Promise(p, n).path = p
  <2>1. p \in Paths
    BY <1>4
  <2> QED
    BY <2>1 DEF Promise, Remembered
<1>7. ASSUME page \in Mapped PROVE Placed(n)'
  <2>1. AwaitedOf(n)' = all
    BY <1>3 DEF AwaitedOf
  <2>2. \A f \in renders'[n].waits : f.path \in Head(sets)
    BY <1>3, <1>6
  <2>3. Len(sets) <= Len(all) /\ \A i \in 1 .. Len(sets) : sets[i] = all[Len(all) - Len(sets) + i]
    BY <1>7 DEF InPlace
  <2>4. Len(renders'[n].rest) < Len(all)
    BY <1>4, <1>5, <1>7, <2>3
  <2>5. ASSUME NEW i \in 1 .. Len(renders'[n].rest)
        PROVE  renders'[n].rest[i] = all[Len(all) - Len(renders'[n].rest) + i]
    <3>1. i + 1 \in 1 .. Len(sets) /\ i \in 1 .. Len(sets) - 1
      BY <1>4
    <3>2. Len(all) - Len(sets) + (i + 1) = Len(all) - Len(renders'[n].rest) + i
      <4>1. PICK a \in Int : a = Len(all)
        BY <1>5, <1>7
      <4>2. PICK b \in Int : b = Len(sets)
        BY <1>4
      <4>3. Len(renders'[n].rest) = b - 1 /\ i \in Int
        BY <1>4, <4>2
      <4>4. a - b + (i + 1) = a - (b - 1) + i
        BY <4>3
      <4> QED
        BY <4>1, <4>2, <4>3, <4>4, Zenon
    <3> QED
      BY <1>4, <2>3, <3>1, <3>2
  <2> QED
    BY <1>5, <1>7, <2>1, <2>2, <2>4, <2>5 DEF Placed
<1>8. ASSUME NEW k \in DOMAIN renders, k < n, renders[k].of = page, page \in Mapped, ~renders[k].failed
      PROVE  Ahead(k, n)'
  <2>1. renders'[k] = renders[k] /\ Placed(k) /\ Further(k, shown, Len(sets))
    BY <1>1, <1>8 DEF InOrder, InPlace
  <2>2. Len(renders[k].rest) \in Nat /\ renders[k].waits \subseteq Promises
    BY RestOf
  <2>3. CASE renders[k].shown /\ ~shown
    BY <1>3, <2>1, <2>3 DEF Ahead, Further
  <2>4. CASE renders[k].shown = shown /\ Len(renders[k].rest) < Len(sets) - 1
    BY <1>3, <1>4, <2>1, <2>4 DEF Ahead, Further
  <2>5. CASE renders[k].shown = shown /\ Len(renders[k].rest) = Len(sets) - 1
    <3>1. AwaitedOf(k) = all
      BY <1>8, <2>5 DEF AwaitedOf
    <3>2. \A f \in renders[k].waits : f.path \in Head(sets)
      BY <1>4, <1>5, <1>8, <2>1, <2>5, <3>1 DEF Placed
    <3>3. ASSUME NEW f \in renders[k].waits PROVE f \in promises \cap flight
      <4>1. f \in flight /\ f.path \in Head(sets) /\ f.path \notin Fresh /\ f \in Promises
        BY <1>5, <1>8, <2>2, <3>2 DEF Remembered
      <4>2. memo[f.path] = f /\ f # Nil
        BY <4>1, Shell DEF Remembered
      <4>3. Promise(f.path, n) = f
        BY <4>1, <4>2 DEF Promise
      <4> QED
        BY <4>1, <4>3
    <3>4. renders[k].waits \subseteq renders'[n].waits
      BY <1>3, <3>3
    <3> QED
      BY <1>3, <1>4, <2>1, <2>5, <3>4 DEF Ahead
  <2> QED
    BY <1>4, <2>1, <2>2, <2>3, <2>4, <2>5 DEF Further
<1>9. ASSUME NEW k \in DOMAIN renders, n < k, renders[k].of = page, page \in Mapped
      PROVE  Ahead(n, k)'
  <2>1. renders'[k] = renders[k]
    BY <1>1, <1>9
  <2>2. Len(renders[k].rest) \in Nat
    BY RestOf
  <2>3. \/ shown /\ ~renders[k].shown
        \/ renders[k].shown = shown /\ Len(sets) <= Len(renders[k].rest)
    BY <1>9 DEF InPlace
  <2>4. Len(renders'[n].rest) = Len(sets) - 1 /\ Len(sets) \in Nat
    BY <1>4
  <2>5. renders'[n].shown = shown
    BY <1>3
  <2>6. CASE shown /\ ~renders[k].shown
    BY <2>1, <2>5, <2>6 DEF Ahead, Further
  <2>7. CASE renders[k].shown = shown /\ Len(sets) <= Len(renders[k].rest)
    <3>1. Len(renders'[n].rest) < Len(renders[k].rest)
      BY <2>2, <2>4, <2>7
    <3> QED
      BY <2>1, <2>5, <2>7, <3>1 DEF Ahead, Further
  <2> QED
    BY <2>3, <2>6, <2>7
<1>10. ASSUME NEW k \in DOMAIN renders', renders'[k].of \in Mapped PROVE Placed(k)'
  <2>1. CASE k = n
    BY <1>3, <1>7, <1>10, <2>1
  <2>2. CASE k # n
    <3>1. k \in DOMAIN renders /\ renders'[k] = renders[k]
      BY <1>1, <2>2
    <3>2. Placed(k)
      BY <1>10, <3>1 DEF InOrder
    <3> QED
      BY <3>1, <3>2 DEF Placed, AwaitedOf
  <2> QED
    BY <2>1, <2>2
<1>11. ASSUME NEW j \in DOMAIN renders', NEW k \in DOMAIN renders', j < k, renders'[j].of = renders'[k].of,
              renders'[j].of \in Mapped, ~renders'[j].failed
       PROVE  Ahead(j, k)'
  <2>1. CASE j = n
    <3>1. k \in DOMAIN renders /\ renders'[k] = renders[k]
      BY <1>1, <1>11, <2>1
    <3> QED
      BY <1>3, <1>9, <1>11, <2>1, <3>1
  <2>2. CASE k = n
    <3>1. j \in DOMAIN renders /\ renders'[j] = renders[j]
      BY <1>1, <1>11, <2>2
    <3> QED
      BY <1>3, <1>8, <1>11, <2>2, <3>1
  <2>3. CASE j # n /\ k # n
    <3>1. j \in DOMAIN renders /\ k \in DOMAIN renders /\ renders'[k] = renders[k] /\ renders'[j] = renders[j]
      BY <1>1, <2>3
    <3>2. Ahead(j, k)
      BY <1>11, <3>1 DEF InOrder
    <3> QED
      BY <3>1, <3>2 DEF Ahead, Further
  <2> QED
    BY <2>1, <2>2, <2>3
<1> QED
  BY <1>10, <1>11 DEF InOrder

LEMMA WithoutOneInOrder ==
    ASSUME InOrder, NEW n, DOMAIN renders' = DOMAIN renders \ {n}, \A k \in DOMAIN renders' : renders'[k] = renders[k]
    PROVE  InOrder'
<1>1. ASSUME NEW k \in DOMAIN renders', renders'[k].of \in Mapped PROVE Placed(k)'
  <2>1. k \in DOMAIN renders /\ renders'[k] = renders[k]
    BY <1>1
  <2>2. Placed(k)
    BY <1>1, <2>1 DEF InOrder
  <2> QED
    BY <2>1, <2>2 DEF Placed, AwaitedOf
<1>2. ASSUME NEW j \in DOMAIN renders', NEW k \in DOMAIN renders', j < k, renders'[j].of = renders'[k].of,
             renders'[j].of \in Mapped, ~renders'[j].failed
      PROVE  Ahead(j, k)'
  <2>1. j \in DOMAIN renders /\ k \in DOMAIN renders /\ renders'[k] = renders[k] /\ renders'[j] = renders[j]
    BY <1>2
  <2>2. Ahead(j, k)
    BY <1>2, <2>1 DEF InOrder
  <2> QED
    BY <2>1, <2>2 DEF Ahead, Further
<1> QED
  BY <1>1, <1>2 DEF InOrder

LEMMA InOrderStays == ASSUME InOrder, renders' = renders PROVE InOrder'
<1>1. ASSUME NEW k \in DOMAIN renders', renders'[k].of \in Mapped PROVE Placed(k)'
  <2>1. Placed(k)
    BY <1>1 DEF InOrder
  <2> QED
    BY <2>1 DEF Placed, AwaitedOf
<1>2. ASSUME NEW j \in DOMAIN renders', NEW k \in DOMAIN renders', j < k, renders'[j].of = renders'[k].of,
             renders'[j].of \in Mapped, ~renders'[j].failed
      PROVE  Ahead(j, k)'
  <2>1. Ahead(j, k)
    BY <1>2 DEF InOrder
  <2> QED
    BY <2>1 DEF Ahead, Further
<1> QED
  BY <1>1, <1>2 DEF InOrder

(* Whose turn it is has the older pages of its case beyond it, or failed.   *)
LEMMA OlderIsFurther ==
    ASSUME InOrder, NEW n \in DOMAIN renders, Turn(n), NEW k \in DOMAIN renders, k < n,
           renders[k].of = renders[n].of, renders[n].of \in Mapped, ~renders[k].failed
    PROVE  Further(k, renders[n].shown, Len(renders[n].rest))
<1>1. Ahead(k, n)
  BY DEF InOrder
<1>2. renders[n].waits = {} /\ ~Ready(k)
  BY DEF Turn, Ready
<1>3. renders[k].waits # {}
  BY <1>2 DEF Ready
<1> QED
  BY <1>1, <1>2, <1>3 DEF Ahead

LEMMA NextSetInOrder ==
    ASSUME ShellInv, InOrder, NEW n \in DOMAIN renders, NextSet(n) PROVE InOrder'
<1>1. RequestsTyped /\ Remembered /\ Routed
  BY DEF ShellInv
<1>2. PICK page, sets, shown : page = renders[n].of /\ sets = renders[n].rest /\ shown = renders[n].shown
  OBVIOUS
<1>3. PICK all : all = IF shown THEN After[page] ELSE Before[page]
  OBVIOUS
<1>4. /\ sets # <<>> /\ Request(n, page, shown, sets) /\ Turn(n) /\ got' = got
      /\ ~renders[n].failed
  BY <1>2 DEF NextSet, Turn, Ready
<1>5. n \in Nat /\ page \in Pages /\ shown \in BOOLEAN /\ sets \in Seq(SUBSET Paths) /\ DOMAIN renders \subseteq Nat
  BY <1>1, <1>2, OfRender DEF Routed
<1>6. ASSUME page \in Mapped
      PROVE  /\ Len(sets) <= Len(all) /\ \A i \in 1 .. Len(sets) : sets[i] = all[Len(all) - Len(sets) + i]
  <2>1. Placed(n) /\ all = AwaitedOf(n)
    BY <1>2, <1>3, <1>6 DEF InOrder, AwaitedOf
  <2>2. Len(sets) \in Nat /\ Len(all) \in Nat
    BY <1>3, <1>5, <1>6, OnlyCached
  <2>3. Len(sets) < Len(all) /\ \A i \in 1 .. Len(sets) : sets[i] = all[Len(all) - Len(sets) + i]
    BY <1>2, <2>1 DEF Placed
  <2>4. Len(sets) <= Len(all)
    BY <2>2, <2>3
  <2> QED
    BY <2>3, <2>4, Zenon
<1>7. ASSUME page \in Mapped, NEW k \in DOMAIN renders, k < n, renders[k].of = page, ~renders[k].failed
      PROVE  Further(k, shown, Len(sets))
  BY <1>2, <1>4, <1>7, OlderIsFurther
<1>8. ASSUME page \in Mapped, NEW k \in DOMAIN renders, n < k, renders[k].of = page
      PROVE  \/ shown /\ ~renders[k].shown
             \/ renders[k].shown = shown /\ Len(sets) <= Len(renders[k].rest)
  <2>1. Ahead(n, k)
    BY <1>2, <1>4, <1>8 DEF InOrder
  <2>2. Len(sets) \in Nat /\ Len(renders[k].rest) \in Nat
    BY <1>1, <1>2, RestOf
  <2> QED
    BY <1>2, <2>1, <2>2 DEF Ahead, Further
<1>9. page \in Mapped => InPlace(n, page, shown, sets, all)
  BY <1>6, <1>7, <1>8 DEF InPlace
<1> QED
  BY <1>1, <1>4, <1>5, <1>9, <1>3, RequestInOrder

LEMMA DrawInOrder ==
    ASSUME ShellInv, InOrder, NEW n \in DOMAIN renders, Draw(n) PROVE InOrder'
<1>1. RequestsTyped /\ Remembered /\ Routed
  BY DEF ShellInv
<1> DEFINE page == renders[n].of
<1>2. Turn(n) /\ renders[n].rest = <<>> /\ ~renders[n].shown /\ got' = got /\ ~renders[n].failed
  BY DEF Draw, DrawOn, Turn, Ready
<1>3. n \in Nat /\ page \in Pages /\ DOMAIN renders \subseteq Nat /\ After[page] \in Seq(SUBSET Paths)
  BY <1>1, OfRender, Shell DEF Routed
<1>4. CASE After[page] = <<>>
  <2>1. renders' = Without(renders, n) /\ UNCHANGED <<memo, flight, got>>
    BY <1>4 DEF Draw, DrawOn
  <2> QED
    BY <1>1, <2>1, WithoutOne, WithoutOneInOrder
<1>5. CASE After[page] # <<>>
  <2>1. Request(n, page, TRUE, After[page])
    BY <1>5 DEF Draw, DrawOn
  <2>2. Len(After[page]) \in Nat
    BY <1>3
  <2>3. ASSUME page \in Mapped, NEW k \in DOMAIN renders, k < n, renders[k].of = page, ~renders[k].failed
        PROVE  Further(k, TRUE, Len(After[page]))
    <3>1. Further(k, renders[n].shown, Len(renders[n].rest))
      BY <1>2, <2>3, OlderIsFurther
    <3>2. Len(renders[k].rest) \in Nat /\ Len(renders[n].rest) = 0 /\ renders[k].shown \in BOOLEAN
      BY <1>1, <1>2, RestOf
    <3>3. renders[k].shown
      BY <1>2, <3>1, <3>2 DEF Further
    <3>4. Placed(k)
      BY <2>3 DEF InOrder
    <3>5. Len(renders[k].rest) < Len(After[page])
      BY <2>3, <3>3, <3>4 DEF Placed, AwaitedOf
    <3> QED
      BY <3>2, <3>3, <3>5 DEF Further
  <2>4. ASSUME page \in Mapped, NEW k \in DOMAIN renders, n < k, renders[k].of = page
        PROVE  ~renders[k].shown
    <3>1. Ahead(n, k)
      BY <1>2, <2>4 DEF InOrder
    <3>2. renders[n].shown = FALSE /\ renders[k].shown \in BOOLEAN
      BY <1>1, <1>2, RestOf
    <3> QED
      BY <3>1, <3>2 DEF Ahead, Further
  <2>5. \A i \in 1 .. Len(After[page]) : After[page][i] = After[page][Len(After[page]) - Len(After[page]) + i]
    BY <2>2
  <2>6. Len(After[page]) <= Len(After[page])
    BY <2>2
  <2>7. page \in Mapped => InPlace(n, page, TRUE, After[page], After[page])
    BY <2>3, <2>4, <2>5, <2>6 DEF InPlace
  <2>8. PICK kind, all : kind = page /\ all = After[page]
    OBVIOUS
  <2> HIDE DEF page
  <2> QED
    BY <1>1, <1>2, <1>3, <1>5, <2>1, <2>7, <2>8, RequestInOrder
<1> QED
  BY <1>4, <1>5

LEMMA RouteInOrder ==
    ASSUME ShellInv, InOrder, NEW page \in Pages \cup {Board}, Route(page) PROVE InOrder'
<1>1. RequestsTyped /\ Remembered /\ Routed
  BY DEF ShellInv
<1>2. CASE page = Board
  <2>1. renders' = renders
    BY <1>2 DEF Route, requestVars
  <2> QED
    BY <2>1, InOrderStays
<1>3. CASE page \in Pages
  <2>1. Request(nav + 1, page, FALSE, Before[page]) /\ got' = got
    BY <1>3, Shell DEF Route
  <2>2. /\ Before[page] \in Seq(SUBSET Paths) /\ Before[page] # <<>> /\ nav + 1 \in Nat /\ Len(Before[page]) \in Nat
        /\ DOMAIN renders \subseteq 0 .. nav /\ nav \in Nat /\ DOMAIN renders \subseteq Nat
    BY <1>1, <1>3, Shell DEF Routed
  <2>3. ASSUME page \in Mapped, NEW k \in DOMAIN renders, renders[k].of = page
        PROVE  Further(k, FALSE, Len(Before[page]))
    <3>1. Placed(k) /\ renders[k].shown \in BOOLEAN
      BY <1>1, <2>3, RestOf DEF InOrder
    <3>2. ~renders[k].shown => Len(renders[k].rest) < Len(Before[page])
      BY <2>3, <3>1 DEF Placed, AwaitedOf
    <3> QED
      BY <3>1, <3>2 DEF Further
  <2>4. \A k \in DOMAIN renders : ~(nav + 1 < k)
    BY <2>2
  <2>5. \A i \in 1 .. Len(Before[page]) : Before[page][i] = Before[page][Len(Before[page]) - Len(Before[page]) + i]
    BY <2>2
  <2>6. Len(Before[page]) <= Len(Before[page])
    BY <2>2
  <2>7. PICK n, all : n = nav + 1 /\ all = Before[page]
    OBVIOUS
  <2>8. page \in Mapped => InPlace(n, page, FALSE, all, all)
    BY <2>3, <2>4, <2>5, <2>6, <2>7 DEF InPlace
  <2> QED
    BY <1>1, <1>3, <2>1, <2>2, <2>7, <2>8, RequestInOrder
<1> QED
  BY <1>2, <1>3

LEMMA ArriveInOrder ==
    ASSUME ShellInv, InOrder, NEW f \in flight, NEW ok \in BOOLEAN, Arrive(f, ok) PROVE InOrder'
<1>1. DOMAIN renders' = DOMAIN renders
  BY DEF Arrive
<1>2. ASSUME NEW n \in DOMAIN renders
      PROVE  /\ renders'[n].of = renders[n].of /\ renders'[n].shown = renders[n].shown
             /\ renders'[n].rest = renders[n].rest /\ renders'[n].waits = renders[n].waits \ {f}
             /\ ~renders[n].failed
  <2>1. renders[n] \in UnderWay
    BY DEF ShellInv, RequestsTyped
  <2>2. renders'[n] = [renders[n] EXCEPT
                !.waits = @ \ {f},
                !.failed = ~ok /\ f \in renders[n].waits /\ f.path \notin Optional[renders[n].of]]
    BY DEF Arrive
  <2>3. ~renders[n].failed
    BY DEF Arrive, Settled
  <2> QED
    BY <2>1, <2>2, <2>3 DEF UnderWay
<1>3. ASSUME NEW k \in DOMAIN renders', renders'[k].of \in Mapped PROVE Placed(k)'
  <2>1. Placed(k)
    BY <1>1, <1>2, <1>3 DEF InOrder
  <2>2. AwaitedOf(k)' = AwaitedOf(k)
    BY <1>1, <1>2 DEF AwaitedOf
  <2> QED
    BY <1>1, <1>2, <2>1, <2>2 DEF Placed
<1>4. ASSUME NEW j \in DOMAIN renders', NEW k \in DOMAIN renders', j < k, renders'[j].of = renders'[k].of,
             renders'[j].of \in Mapped
      PROVE  Ahead(j, k)'
  <2>1. Ahead(j, k)
    BY <1>1, <1>2, <1>4 DEF InOrder
  <2> QED
    BY <1>1, <1>2, <2>1 DEF Ahead, Further
<1> QED
  BY <1>3, <1>4 DEF InOrder

LEMMA EndInOrder ==
    ASSUME ShellInv, InOrder, NEW n \in DOMAIN renders, Finish(n) \/ DrawError(n) PROVE InOrder'
<1>1. renders' = Without(renders, n) /\ UNCHANGED <<memo, flight, got>>
  BY DEF Finish, DrawError
<1> QED
  BY <1>1, WithoutOne, WithoutOneInOrder DEF ShellInv

-----------------------------------------------------------------------------
(* Whose the things of the page are: n is on the screen, or one of the two  *)
(* was left while it was under way.                                         *)
Mine(n) == n = screen.by \/ {n, screen.by} \cap left # {}

Numbered == nav \in 0 .. MaxNav /\ DOMAIN renders \subseteq 1 .. nav

CaseTyped ==
    /\ at \in [1 .. MaxNav -> [of : Pages \cup {Board}, step : Int]]
    /\ map # Nil => map \in [by : 1 .. MaxNav, on : Nat, loaded : BOOLEAN, step : Int]
    /\ timer # Nil => timer \in 1 .. MaxNav
    /\ awaiting \subseteq 1 .. MaxNav
    /\ OnCase => screen.by \in 1 .. MaxNav /\ at[screen.by].of = screen.of

(* Once the page of the tab is drawn no older one of its case is drawn over *)
(* it, and once it has its map no other comes.                              *)
Mounted ==
    /\ nav \in DOMAIN renders /\ renders[nav].shown /\ hash \in Mapped /\ OnCase /\ screen.of \in Mapped =>
          screen.by = nav
    /\ map # Nil =>
          /\ Mine(map.on) /\ (hash # Board => map.on \in left \cup {nav})
          /\ map.by # map.on => map.by \in left
          /\ \/ map.by \in left
             \/ map.by = nav /\ \A n \in DOMAIN renders : renders[n].of \in Mapped => renders[n].failed
    /\ \A m \in leaked : m.by \in left

Ruled ==
    /\ awaiting \subseteq unread \cup left \cup {nav}
    /\ hash = Board => awaiting \subseteq unread \cup left
    /\ rule # Nil => OnCase /\ (Mine(rule) \/ rule \in unread)

Running ==
    /\ timer # Nil => hash # Board /\ timer \in left \cup {nav}
    /\ left = {} /\ OnCase =>
          /\ shownStep = at[screen.by].step
          /\ map # Nil /\ map.loaded => map.step = shownStep

CaseInv == CaseTyped /\ Mounted /\ Ruled /\ Running
ReplayInv == ShellInv /\ InOrder /\ Numbered /\ CaseInv

LEMMA CaseOrder ==
    ASSUME ShellInv, InOrder, [ShellNext]_shellVars PROVE InOrder'
<1>1. CASE \E page \in Pages \cup {Board} : Route(page)
  BY <1>1, RouteInOrder
<1>2. CASE \E f \in flight, ok \in BOOLEAN : Arrive(f, ok)
  BY <1>2, ArriveInOrder
<1>3. CASE \E n \in DOMAIN renders : NextSet(n) \/ Draw(n) \/ Finish(n) \/ DrawError(n)
  BY <1>3, NextSetInOrder, DrawInOrder, EndInOrder
<1>4. CASE Type \/ Submit \/ Suggest \/ \E a \in asks, outcome \in {"answered", "unavailable", "failed"} : Replied(a, outcome)
  <2>1. renders' = renders
    BY <1>4 DEF Type, Submit, Suggest, Send, Replied, ReplyTo, requestVars
  <2> QED
    BY <2>1, InOrderStays
<1>5. CASE UNCHANGED shellVars
  <2>1. renders' = renders
    BY <1>5 DEF shellVars, requestVars
  <2> QED
    BY <2>1, InOrderStays
<1> QED
  BY <1>1, <1>2, <1>3, <1>4, <1>5 DEF ShellNext

(* The pages under way after a step: the same, with the same of; a new one  *)
(* has the number of the routing.                                           *)
LEMMA SamePages ==
    ASSUME ShellInv, NEW n \in DOMAIN renders, NextSet(n) \/ Draw(n) \/ Finish(n) \/ DrawError(n)
    PROVE  /\ DOMAIN renders' \subseteq DOMAIN renders /\ UNCHANGED <<hash, nav, left>>
           /\ \A k \in DOMAIN renders' : renders'[k].of = renders[k].of /\ (k # n => renders'[k] = renders[k])
<1>1. RequestsTyped /\ Remembered /\ Routed
  BY DEF ShellInv
<1>2. n \in Nat /\ renders[n].of \in Pages /\ renders[n].shown \in BOOLEAN /\ renders[n].rest \in Seq(SUBSET Paths)
  BY <1>1, OfRender
<1>3. UNCHANGED <<hash, nav, left>>
  BY DEF NextSet, Draw, DrawOn, Finish, DrawError
<1>4. CASE renders' = Without(renders, n)
  <2>1. DOMAIN renders' = DOMAIN renders \ {n} /\ \A k \in DOMAIN renders' : renders'[k] = renders[k]
    BY <1>4 DEF Without
  <2> QED
    BY <1>3, <2>1
<1>5. CASE \E shown, sets : Request(n, renders[n].of, shown, sets)
  <2>1. /\ DOMAIN renders' = DOMAIN renders \cup {n} /\ renders'[n].of = renders[n].of
        /\ \A k \in DOMAIN renders \ {n} : renders'[k] = renders[k]
    BY <1>5 DEF Request, With
  <2> QED
    BY <1>3, <2>1
<1>6. renders' = Without(renders, n) \/ \E shown, sets : Request(n, renders[n].of, shown, sets)
  BY DEF NextSet, Draw, DrawOn, Finish, DrawError
<1> QED
  BY <1>4, <1>5, <1>6

LEMMA NumberedStays ==
    ASSUME ShellInv, Numbered, [ShellNext]_shellVars PROVE Numbered'
<1>1. CASE \E page \in Pages \cup {Board} : Route(page)
  <2>1. PICK page \in Pages \cup {Board} : Route(page)
    BY <1>1
  <2>2. nav < MaxNav /\ nav' = nav + 1 /\ MaxNav \in Nat
    BY <2>1, ShellAssumption DEF Route
  <2>3. DOMAIN renders' \subseteq DOMAIN renders \cup {nav + 1}
    BY <2>1 DEF Route, Request, With, requestVars
  <2> QED
    BY <2>2, <2>3 DEF Numbered
<1>2. CASE \E f \in flight, ok \in BOOLEAN : Arrive(f, ok)
  <2>1. nav' = nav /\ DOMAIN renders' = DOMAIN renders
    BY <1>2 DEF Arrive
  <2> QED
    BY <2>1 DEF Numbered
<1>3. CASE \E n \in DOMAIN renders : NextSet(n) \/ Draw(n) \/ Finish(n) \/ DrawError(n)
  <2>1. nav' = nav /\ DOMAIN renders' \subseteq DOMAIN renders
    BY <1>3, SamePages
  <2> QED
    BY <2>1 DEF Numbered
<1>4. CASE Type \/ Submit \/ Suggest \/ \E a \in asks, outcome \in {"answered", "unavailable", "failed"} : Replied(a, outcome)
  BY <1>4 DEF Type, Submit, Suggest, Send, Replied, ReplyTo, requestVars, Numbered
<1>5. CASE UNCHANGED shellVars
  BY <1>5 DEF shellVars, requestVars, Numbered
<1> QED
  BY <1>1, <1>2, <1>3, <1>4, <1>5 DEF ShellNext

(* A page under way is that of the tab, or was left.                        *)
LEMMA PageUnderWay ==
    ASSUME ShellInv, Numbered, NEW n \in DOMAIN renders
    PROVE  /\ n \in 1 .. MaxNav /\ n \in left \cup {nav} /\ renders[n].of \in Pages
           /\ n = nav => hash = renders[n].of /\ hash # Board
           /\ n # nav => n < nav /\ n \in left
<1>1. n \in 1 .. nav /\ nav \in 0 .. MaxNav /\ MaxNav \in Nat
  BY ShellAssumption DEF Numbered
<1>2. renders[n].of \in Pages /\ n \in left \cup {nav}
  BY OfRender DEF ShellInv, Routed
<1>3. n = nav => hash = renders[n].of
  BY DEF ShellInv, Routed
<1> QED
  BY <1>1, <1>2, <1>3, Shell

LEMMA OfTheTab ==
    ASSUME ShellInv, hash # Board, NEW n \in left \cup {nav} PROVE Mine(n)
  BY DEF ShellInv, ScreenIsOfTheTab, Mine

LEMMA SelectIs ==
    ASSUME CaseTyped, NEW n \in 1 .. MaxNav, NEW page \in Pages \cup {Board}, NEW i \in Int, Select(n, page, i)
    PROVE  /\ at' \in [1 .. MaxNav -> [of : Pages \cup {Board}, step : Int]]
           /\ at'[n].of = page /\ at'[n].step = i /\ \A k \in 1 .. MaxNav : k # n => at'[k] = at[k]
           /\ OnCase' => shownStep' = i
           /\ map' # Nil => /\ map # Nil /\ map'.by = map.by /\ map'.on = map.on
                            /\ map' \in [by : 1 .. MaxNav, on : Nat, loaded : BOOLEAN, step : Int]
           /\ OnCase' /\ screen'.of = page /\ map' # Nil /\ map'.loaded => map'.step = i
<1>1. at' = [at EXCEPT ![n] = [of |-> page, step |-> i]] /\ (OnCase' => shownStep' = i)
  BY DEF Select
<1>2. /\ at' \in [1 .. MaxNav -> [of : Pages \cup {Board}, step : Int]]
      /\ at'[n].of = page /\ at'[n].step = i /\ \A k \in 1 .. MaxNav : k # n => at'[k] = at[k]
  BY <1>1 DEF CaseTyped
<1>3. ASSUME map' # Nil
      PROVE  /\ map # Nil /\ map'.by = map.by /\ map'.on = map.on
             /\ map' \in [by : 1 .. MaxNav, on : Nat, loaded : BOOLEAN, step : Int]
             /\ OnCase' /\ screen'.of = page /\ map'.loaded => map'.step = i
  <2>1. map # Nil
    BY <1>3 DEF Select
  <2>2. map \in [by : 1 .. MaxNav, on : Nat, loaded : BOOLEAN, step : Int]
    BY <2>1 DEF CaseTyped
  <2>3. CASE map' = map
    <3>1. ~(OnCase' /\ map.loaded /\ screen'.of = page) \/ map' = [map EXCEPT !.step = i]
      BY <2>1 DEF Select
    <3> QED
      BY <2>1, <2>2, <2>3, <3>1
  <2>4. CASE map' = [map EXCEPT !.step = i]
    BY <2>1, <2>2, <2>4
  <2> QED
    BY <2>3, <2>4 DEF Select
<1> QED
  BY <1>1, <1>2, <1>3

-----------------------------------------------------------------------------
(* Every step of the replay is one of the shell, or leaves it alone.        *)
LEMMA ReplayIsOfTheShell == [ReplayNext]_caseVars => [ShellNext]_shellVars
<1> SUFFICES ASSUME [ReplayNext]_caseVars PROVE [ShellNext]_shellVars
  OBVIOUS
<1>1. CASE \E page \in Pages \cup {Board} : Leave(page)
  BY <1>1 DEF Leave, GoTo, ShellNext
<1>2. CASE \E f \in flight, ok \in BOOLEAN : Arrive(f, ok) /\ UNCHANGED replayVars
  BY <1>2 DEF ShellNext
<1>3. CASE \E n \in DOMAIN renders : NextOfPage(n) \/ DrawPage(n) \/ FinishPage(n) \/ DrawErrorPage(n)
  BY <1>3 DEF NextOfPage, DrawPage, FinishPage, DrawErrorPage, ShellNext
<1>4. CASE (\E ok \in BOOLEAN : RuleComes(ok)) \/ MapLoads \/ Play \/ Tick \/ \E i \in 0 .. Steps - 1 : Manual(i)
  BY <1>4 DEF RuleComes, MapLoads, Play, Tick, Manual, KeepsRest
<1>5. CASE UNCHANGED caseVars
  BY <1>5 DEF caseVars
<1> QED
  BY <1>1, <1>2, <1>3, <1>4, <1>5 DEF ReplayNext

LEMMA LeaveKeeps ==
    ASSUME ReplayInv, NEW page \in Pages \cup {Board}, Leave(page) PROVE CaseInv'
<1>1. /\ Route(page) /\ timer' = Nil /\ map' = Nil /\ unread' = unread \cup awaiting
      /\ UNCHANGED <<at, leaked, awaiting>>
  BY DEF Leave, GoTo
<1>2. hash' = page /\ nav' = nav + 1 /\ left' = left \cup (DOMAIN renders \cap {nav})
  BY <1>1 DEF Route
<1>3. CASE page = Board
  <2>1. UNCHANGED <<screen, renders, shownStep, rule>>
    BY <1>1, <1>3 DEF Route, requestVars, Leave, GoTo
  <2>2. OnCase' = OnCase
    BY <2>1 DEF OnCase
  <2>3. CaseTyped'
    BY <1>1, <2>1, <2>2 DEF ReplayInv, CaseInv, CaseTyped
  <2>4. page \notin Mapped
    BY <1>3, Shell, ReplayAssumption
  <2>5. Mounted'
    BY <1>1, <1>2, <2>4 DEF ReplayInv, CaseInv, Mounted
  <2>6. rule' # Nil => OnCase' /\ (Mine(rule)' \/ rule' \in unread')
    BY <1>1, <1>2, <2>1, <2>2 DEF ReplayInv, CaseInv, Ruled, Mine
  <2>7. awaiting' \subseteq unread' \cup left'
    BY <1>1
  <2>8. Ruled'
    BY <2>6, <2>7 DEF Ruled
  <2>9. Running'
    BY <1>1, <1>2, <2>1, <2>2 DEF ReplayInv, CaseInv, Running
  <2> QED
    BY <2>3, <2>5, <2>8, <2>9 DEF CaseInv
<1>4. CASE page \in Pages
  <2>1. screen' = [of |-> page, by |-> nav + 1, state |-> "loading"] /\ rule' = Nil
    BY <1>1, <1>4, Shell DEF Route, Leave, GoTo
  <2>2. ~OnCase'
    BY <2>1 DEF OnCase
  <2>3. CaseTyped'
    BY <1>1, <2>2 DEF ReplayInv, CaseInv, CaseTyped
  <2>4. Mounted'
    BY <1>1, <1>2, <2>2 DEF ReplayInv, CaseInv, Mounted
  <2>5. Ruled'
    BY <1>1, <2>1 DEF Ruled
  <2>6. Running'
    BY <1>1, <2>2 DEF Running
  <2> QED
    BY <2>3, <2>4, <2>5, <2>6 DEF CaseInv
<1> QED
  BY <1>3, <1>4

(* Pages go on, or end, under a screen and a map that stay.                 *)
LEMMA MountedStays ==
    ASSUME ReplayInv, UNCHANGED <<hash, nav, left, screen, map, leaked>>, DOMAIN renders' \subseteq DOMAIN renders,
           \A k \in DOMAIN renders' : /\ renders'[k].of = renders[k].of
                                      /\ renders'[k].shown => renders[k].shown
                                      /\ renders'[k].of \in Mapped /\ renders[k].failed => renders'[k].failed
    PROVE  Mounted'
<1>1. OnCase' = OnCase
  BY DEF OnCase
<1>2. /\ nav' \in DOMAIN renders' /\ renders'[nav'].shown /\ hash' \in Mapped /\ OnCase' /\ screen'.of \in Mapped =>
            screen'.by = nav'
  BY <1>1 DEF ReplayInv, CaseInv, Mounted
<1>3. ASSUME map # Nil
      PROVE  /\ Mine(map.on)' /\ (hash' # Board => map'.on \in left' \cup {nav'})
             /\ map'.by # map'.on => map'.by \in left'
             /\ \/ map'.by \in left'
                \/ map'.by = nav' /\ \A n \in DOMAIN renders' : renders'[n].of \in Mapped => renders'[n].failed
  <2>1. Mine(map.on)'
    BY <1>3 DEF ReplayInv, CaseInv, Mounted, Mine
  <2> QED
    BY <1>3, <2>1 DEF ReplayInv, CaseInv, Mounted
<1>4. \A m \in leaked' : m.by \in left'
  BY DEF ReplayInv, CaseInv, Mounted
<1> QED
  BY <1>2, <1>3, <1>4 DEF Mounted

LEMMA RuledStays ==
    ASSUME ReplayInv, UNCHANGED <<hash, nav, left, screen, awaiting, rule, unread>> PROVE Ruled'
<1>1. OnCase' = OnCase
  BY DEF OnCase
<1>2. rule # Nil => Mine(rule)' \/ rule \in unread
  BY DEF ReplayInv, CaseInv, Ruled, Mine
<1> QED
  BY <1>1, <1>2 DEF ReplayInv, CaseInv, Ruled

LEMMA RunningStays ==
    ASSUME ReplayInv, UNCHANGED <<hash, nav, left, screen, at, shownStep, timer, map>>
    PROVE  Running'
<1>1. OnCase' = OnCase
  BY DEF OnCase
<1> QED
  BY <1>1 DEF ReplayInv, CaseInv, Running

LEMMA TypedStays ==
    ASSUME ReplayInv, UNCHANGED <<screen, at, timer, map>>, awaiting' \subseteq 1 .. MaxNav PROVE CaseTyped'
<1>1. OnCase' = OnCase
  BY DEF OnCase
<1> QED
  BY <1>1 DEF ReplayInv, CaseInv, CaseTyped

LEMMA ArriveGoesOn ==
    ASSUME ReplayInv, NEW f \in flight, NEW ok \in BOOLEAN, Arrive(f, ok), UNCHANGED replayVars PROVE CaseInv'
<1>1. /\ DOMAIN renders' = DOMAIN renders /\ UNCHANGED <<hash, nav, left, screen>>
      /\ \A k \in DOMAIN renders : ~renders[k].failed
  BY DEF Arrive, Settled
<1>2. ASSUME NEW k \in DOMAIN renders PROVE renders'[k].of = renders[k].of /\ renders'[k].shown = renders[k].shown
  <2>1. renders[k] \in UnderWay
    BY DEF ReplayInv, ShellInv, RequestsTyped
  <2>2. renders'[k] = [renders[k] EXCEPT
                !.waits = @ \ {f},
                !.failed = ~ok /\ f \in renders[k].waits /\ f.path \notin Optional[renders[k].of]]
    BY DEF Arrive
  <2> QED
    BY <2>1, <2>2 DEF UnderWay
<1>3. UNCHANGED <<at, shownStep, timer, map, leaked, awaiting, rule, unread>> /\ awaiting \subseteq 1 .. MaxNav
  BY DEF replayVars, ReplayInv, CaseInv, CaseTyped
<1>4. Mounted'
  BY <1>1, <1>2, <1>3, MountedStays
<1> QED
  BY <1>1, <1>3, <1>4, RuledStays, RunningStays, TypedStays DEF CaseInv

LEMMA NextOfPageKeeps ==
    ASSUME ReplayInv, NEW n \in DOMAIN renders, NextOfPage(n) PROVE CaseInv'
<1>1. /\ NextSet(n) /\ UNCHANGED <<hash, nav, left, screen, at, shownStep, timer, map, leaked, unread>>
      /\ awaiting' \in {awaiting, awaiting \cup {n}} /\ (rule' = rule \/ (rule' = n /\ OnCase))
  BY DEF NextOfPage, NextSet
<1>2. ShellInv /\ Numbered /\ CaseTyped /\ Ruled
  BY DEF ReplayInv, CaseInv
<1>3. n \in 1 .. MaxNav /\ n \in left \cup {nav} /\ (hash # Board \/ n \in left)
  BY <1>2, PageUnderWay
<1>4. awaiting' \subseteq 1 .. MaxNav
  BY <1>1, <1>2, <1>3 DEF CaseTyped
<1>5. Mounted'
  <2>1. /\ DOMAIN renders' \subseteq DOMAIN renders
        /\ \A k \in DOMAIN renders' : renders'[k].of = renders[k].of /\ (k # n => renders'[k] = renders[k])
    BY <1>1, <1>2, SamePages
  <2>2. /\ n \in Nat /\ renders[n].of \in Pages /\ renders[n].shown \in BOOLEAN /\ renders[n].rest \in Seq(SUBSET Paths)
    BY <1>2, OfRender DEF ShellInv
  <2>3. renders'[n].shown = renders[n].shown /\ ~renders[n].failed
    BY <1>1 DEF NextSet, Request, With, Turn, Ready
  <2> QED
    BY <1>1, <2>1, <2>3, MountedStays
<1>6. OnCase' = OnCase
  BY <1>1 DEF OnCase
<1>7. Ruled'
  <2>1. awaiting' \subseteq unread \cup left \cup {nav} /\ (hash = Board => awaiting' \subseteq unread \cup left)
    BY <1>1, <1>2, <1>3 DEF Ruled
  <2>2. rule' # Nil => OnCase /\ (Mine(rule)' \/ rule' \in unread)
    <3>1. CASE rule' = rule
      BY <1>1, <1>2, <3>1 DEF Ruled, Mine
    <3>2. CASE rule' = n /\ OnCase
      <4>1. Mine(n)
        BY <1>2, <1>3, OfTheTab DEF Mine
      <4> QED
        BY <1>1, <3>2, <4>1 DEF Mine
    <3> QED
      BY <1>1, <3>1, <3>2
  <2> QED
    BY <1>1, <1>6, <2>1, <2>2 DEF Ruled
<1> QED
  BY <1>1, <1>4, <1>5, <1>7, RunningStays, TypedStays DEF CaseInv

LEMMA DrawErrorPageKeeps ==
    ASSUME ReplayInv, NEW n \in DOMAIN renders, DrawErrorPage(n) PROVE CaseInv'
<1>1. /\ DrawError(n) /\ screen' = [of |-> renders[n].of, by |-> n, state |-> "error"]
      /\ rule' = Nil /\ UNCHANGED <<hash, nav, left, at, timer, map, leaked, awaiting, unread>>
  BY DEF DrawErrorPage, DrawError
<1>2. ~OnCase' /\ screen'.by = n
  BY <1>1 DEF OnCase
<1>3. ShellInv /\ Numbered /\ CaseTyped /\ Ruled /\ Mounted /\ Running
  BY DEF ReplayInv, CaseInv
<1>4. /\ n \in left \cup {nav} /\ (n = nav => hash # Board) /\ (n # nav => n \in left)
  BY <1>3, PageUnderWay
<1>5. /\ DOMAIN renders' \subseteq DOMAIN renders
      /\ \A k \in DOMAIN renders' : renders'[k] = renders[k]
  BY <1>1 DEF DrawError, Without
<1>6. CaseTyped'
  BY <1>1, <1>2, <1>3 DEF CaseTyped
<1>7. Mounted'
  <2>1. ASSUME map # Nil PROVE Mine(map.on)'
    BY <1>1, <1>2, <1>3, <1>4, <2>1 DEF Mounted, Mine
  <2>2. ASSUME map # Nil
        PROVE  /\ (hash' # Board => map'.on \in left' \cup {nav'})
               /\ map'.by # map'.on => map'.by \in left'
               /\ \/ map'.by \in left'
                  \/ map'.by = nav' /\ \A k \in DOMAIN renders' : renders'[k].of \in Mapped => renders'[k].failed
    BY <1>1, <1>3, <1>5, <2>2 DEF Mounted
  <2>3. \A m \in leaked' : m.by \in left'
    BY <1>1, <1>3 DEF Mounted
  <2> QED
    BY <1>1, <1>2, <2>1, <2>2, <2>3 DEF Mounted
<1>8. Ruled'
  BY <1>1, <1>3 DEF Ruled
<1>9. Running'
  BY <1>1, <1>2, <1>3 DEF Running
<1> QED
  BY <1>6, <1>7, <1>8, <1>9 DEF CaseInv

(* The page of the tab is drawn, or one that was left; the map is under     *)
(* either.                                                                  *)
LEMMA DrawPageKeeps ==
    ASSUME ReplayInv, NEW n \in DOMAIN renders, DrawPage(n) PROVE CaseInv'
<1>1. /\ Draw(n) /\ screen' = [of |-> renders[n].of, by |-> n, state |-> "page"] /\ Turn(n) /\ ~renders[n].shown
      /\ rule' = Nil /\ UNCHANGED <<hash, nav, left, timer, leaked, awaiting, unread>>
  BY DEF DrawPage, Draw, DrawOn
<1>2. ShellInv /\ InOrder /\ Numbered /\ CaseTyped /\ Ruled /\ Mounted /\ Running
  BY DEF ReplayInv, CaseInv
<1>3. PICK page \in Pages : page = renders[n].of
  BY <1>2, PageUnderWay
<1>4. screen'.of = page /\ screen'.by = n /\ (OnCase' <=> page \in Cases)
  BY <1>1, <1>3 DEF OnCase
<1>5. /\ n \in 1 .. MaxNav /\ n \in left \cup {nav}
      /\ n = nav => hash = renders[n].of /\ hash # Board
      /\ n # nav => n < nav /\ n \in left
  BY <1>2, PageUnderWay
<1>6. /\ DOMAIN renders' \subseteq DOMAIN renders
      /\ \A k \in DOMAIN renders' : renders'[k].of = renders[k].of /\ (k # n => renders'[k] = renders[k])
  BY <1>1, <1>2, SamePages
<1>7. /\ at' \in [1 .. MaxNav -> [of : Pages \cup {Board}, step : Int]]
      /\ OnCase' => at'[n].of = page /\ at'[n].step = 0 /\ shownStep' = 0
      /\ map' # Nil => /\ map # Nil /\ map'.by = map.by /\ map'.on = map.on
                       /\ map' \in [by : 1 .. MaxNav, on : Nat, loaded : BOOLEAN, step : Int]
      /\ OnCase' /\ map' # Nil /\ map'.loaded => map'.step = 0
  <2>1. CASE page \in Cases
    <3>1. Select(n, page, 0) /\ 0 \in Int /\ page \in Pages \cup {Board}
      BY <1>3, <2>1 DEF DrawPage
    <3> QED
      BY <1>2, <1>4, <1>5, <3>1, SelectIs
  <2>2. CASE page \notin Cases
    <3>1. UNCHANGED <<at, map>>
      BY <1>3, <2>2 DEF DrawPage
    <3> QED
      BY <1>2, <1>4, <2>2, <3>1 DEF CaseTyped
  <2> QED
    BY <2>1, <2>2
<1>8. CaseTyped'
  BY <1>1, <1>2, <1>4, <1>5, <1>7 DEF CaseTyped
<1>9. Mounted'
  <2>1. ASSUME nav' \in DOMAIN renders', renders'[nav'].shown, hash' \in Mapped, OnCase', screen'.of \in Mapped
        PROVE  screen'.by = nav'
    <3>1. nav' = nav /\ hash' = hash /\ page \in Mapped
      BY <1>1, <1>4, <2>1
    <3>2. CASE n = nav
      BY <1>4, <3>1, <3>2
    <3>3. CASE n # nav
      <4>1. nav \in DOMAIN renders /\ renders'[nav] = renders[nav] /\ renders[nav].shown /\ n < nav
        BY <1>5, <1>6, <2>1, <3>1, <3>3
      <4>2. renders[nav].of = hash /\ hash = page
        BY <1>2, <2>1, <3>1, <4>1, ReplayAssumption DEF ShellInv, Routed
      <4>3. Ahead(n, nav)
        BY <1>1, <1>2, <1>3, <3>1, <4>1, <4>2 DEF InOrder, Turn, Ready
      <4> QED
        BY <1>1, <4>1, <4>3 DEF Ahead, Further
    <3> QED
      BY <3>2, <3>3
  <2>2. ASSUME map' # Nil PROVE Mine(map.on)'
    <3>1. map'.on = map.on /\ map # Nil
      BY <1>7, <2>2
    <3>2. n \in left \/ (n = nav /\ map.on \in left \cup {nav})
      BY <1>2, <1>5, <3>1 DEF Mounted
    <3> QED
      BY <1>1, <1>4, <3>1, <3>2 DEF Mine
  <2>3. ASSUME map' # Nil
        PROVE  /\ (hash' # Board => map'.on \in left' \cup {nav'})
               /\ map'.by # map'.on => map'.by \in left'
               /\ \/ map'.by \in left'
                  \/ map'.by = nav' /\ \A k \in DOMAIN renders' : renders'[k].of \in Mapped => renders'[k].failed
    <3>1. map # Nil /\ map'.by = map.by /\ map'.on = map.on
      BY <1>7, <2>3
    <3>2. (hash' # Board => map'.on \in left' \cup {nav'}) /\ (map'.by # map'.on => map'.by \in left')
      BY <1>1, <1>2, <3>1 DEF Mounted
    <3>3. ASSUME map.by \notin left
          PROVE  map.by = nav /\ \A k \in DOMAIN renders' : renders'[k].of \in Mapped => renders'[k].failed
      <4>1. map.by = nav /\ \A k \in DOMAIN renders : renders[k].of \in Mapped => renders[k].failed
        BY <1>2, <3>1, <3>3 DEF Mounted
      <4>2. ~renders[n].failed
        BY <1>1 DEF Turn, Ready
      <4> QED
        BY <1>6, <4>1, <4>2
    <3> QED
      BY <1>1, <3>1, <3>2, <3>3
  <2>4. \A m \in leaked' : m.by \in left'
    BY <1>1, <1>2 DEF Mounted
  <2> QED
    BY <2>1, <2>2, <2>3, <2>4 DEF Mounted
<1>10. Ruled'
  BY <1>1, <1>2 DEF Ruled
<1>11. Running'
  BY <1>1, <1>2, <1>4, <1>7 DEF Running
<1> QED
  BY <1>8, <1>9, <1>10, <1>11 DEF CaseInv

(* The map of the page of the tab is the first and the last that it gets:   *)
(* any page of its case that could bring another was left.                  *)
LEMMA FinishPageKeeps ==
    ASSUME ReplayInv, NEW n \in DOMAIN renders, FinishPage(n) PROVE CaseInv'
<1>1. /\ Finish(n) /\ Turn(n) /\ renders[n].shown /\ renders[n].rest = <<>> /\ renders' = Without(renders, n)
      /\ UNCHANGED <<hash, nav, left, screen, at, shownStep, timer, awaiting, rule, unread>>
  BY DEF FinishPage, Finish
<1>2. ShellInv /\ InOrder /\ Numbered /\ CaseTyped /\ Ruled /\ Mounted /\ Running
  BY DEF ReplayInv, CaseInv
<1>3. Ruled'
  BY <1>1, RuledStays
<1>4. DOMAIN renders' = DOMAIN renders \ {n} /\ \A k \in DOMAIN renders' : renders'[k] = renders[k]
  BY <1>1 DEF Without
<1>5. OnCase' = OnCase
  BY <1>1 DEF OnCase
<1>6. CASE UNCHANGED <<map, leaked>>
  <2>1. Mounted'
    BY <1>1, <1>4, <1>6, MountedStays
  <2>2. Running' /\ CaseTyped'
    BY <1>1, <1>2, <1>6, RunningStays, TypedStays DEF CaseTyped
  <2> QED
    BY <1>3, <2>1, <2>2 DEF CaseInv
<1>7. CASE MountMap(n) /\ renders[n].of \in Mapped /\ OnCase /\ screen.of \in Mapped
  <2>1. /\ map' = [by |-> n, on |-> screen.by, loaded |-> FALSE, step |-> -1]
        /\ leaked' \subseteq leaked \cup {map} /\ (map = Nil => leaked' = leaked)
    BY <1>7 DEF MountMap
  <2>2. map'.by = n /\ map'.on = screen.by /\ map'.loaded = FALSE
    BY <2>1
  <2>3. /\ n \in 1 .. MaxNav /\ n \in left \cup {nav}
        /\ n = nav => hash = renders[n].of /\ hash # Board
        /\ n # nav => n < nav /\ n \in left
    BY <1>2, PageUnderWay
  <2>4. screen.by \in 1 .. MaxNav /\ at[screen.by].of = screen.of
    BY <1>2, <1>7 DEF CaseTyped
  <2>5. map' \in [by : 1 .. MaxNav, on : Nat, loaded : BOOLEAN, step : Int]
    BY <2>1, <2>3, <2>4
  <2>6. CaseTyped'
    BY <1>1, <1>2, <1>5, <2>5 DEF CaseTyped
  <2>7. Running'
    BY <1>1, <1>2, <1>5, <2>2 DEF Running
  <2>8. n = nav => screen.by = nav
    BY <1>1, <1>2, <1>7, <2>3 DEF Mounted
  <2>9. ASSUME n = nav, NEW k \in DOMAIN renders', renders'[k].of \in Mapped PROVE renders'[k].failed
    <3>1. k \in DOMAIN renders /\ renders'[k] = renders[k] /\ k # n
      BY <1>4, <2>9
    <3>2. k < n /\ renders[k].of = renders[n].of
      BY <1>2, <1>7, <2>9, <3>1, PageUnderWay, ReplayAssumption
    <3>3. SUFFICES ASSUME ~renders[k].failed PROVE FALSE
      BY <3>1
    <3>4. Further(k, renders[n].shown, Len(renders[n].rest))
      BY <1>1, <1>2, <1>7, <3>1, <3>2, <3>3, OlderIsFurther
    <3>5. Len(renders[n].rest) = 0 /\ Len(renders[k].rest) \in Nat
      BY <1>1, <1>2, <3>1, RestOf DEF ShellInv
    <3> QED
      BY <1>1, <3>4, <3>5 DEF Further
  <2>10. ASSUME map # Nil PROVE map.by \in left
    <3>1. ~renders[n].failed
      BY <1>1 DEF Turn, Ready
    <3> QED
      BY <1>2, <1>7, <2>10, <3>1 DEF Mounted
  <2>11. Mounted'
    <3>1. screen'.by = nav' \/ ~(nav' \in DOMAIN renders' /\ renders'[nav'].shown /\ hash' \in Mapped /\ OnCase' /\ screen'.of \in Mapped)
      BY <1>1, <1>2, <1>4, <1>5 DEF Mounted
    <3>2. Mine(map.on)' /\ (hash' # Board => map'.on \in left' \cup {nav'})
      <4>1. hash # Board => screen.by \in left \cup {nav}
        BY <1>2 DEF ShellInv, ScreenIsOfTheTab
      <4> QED
        BY <1>1, <2>2, <4>1 DEF Mine
    <3>3. map'.by # map'.on => map'.by \in left'
      BY <1>1, <2>2, <2>3, <2>8
    <3>4. \/ map'.by \in left'
          \/ map'.by = nav' /\ \A k \in DOMAIN renders' : renders'[k].of \in Mapped => renders'[k].failed
      BY <1>1, <2>2, <2>3, <2>9
    <3>5. \A m \in leaked' : m.by \in left'
      BY <1>1, <1>2, <2>1, <2>10 DEF Mounted
    <3> QED
      BY <3>1, <3>2, <3>3, <3>4, <3>5 DEF Mounted
  <2> QED
    BY <1>3, <2>6, <2>7, <2>11 DEF CaseInv
<1> QED
  BY <1>6, <1>7 DEF FinishPage

LEMMA RuleComesKeeps ==
    ASSUME ReplayInv, NEW ok \in BOOLEAN, RuleComes(ok) PROVE CaseInv'
<1>1. /\ awaiting # {} /\ awaiting' = {} /\ UNCHANGED <<hash, nav, left, screen, renders, at, shownStep, timer, map, leaked, unread>>
      /\ rule' = IF OnCase THEN CHOOSE n \in awaiting : \A k \in awaiting : k <= n ELSE rule
  BY DEF RuleComes, shellVars, requestVars
<1>2. ShellInv /\ CaseTyped /\ Ruled
  BY DEF ReplayInv, CaseInv
<1>3. OnCase => rule' \in awaiting
  <2>1. awaiting \subseteq 1 .. MaxNav /\ MaxNav \in Nat
    BY <1>2, ShellAssumption DEF CaseTyped
  <2>2. \E n \in awaiting : \A k \in awaiting : k <= n
    BY <1>1, <2>1, GreatestBelow
  <2> QED
    BY <1>1, <2>2
<1>4. OnCase' = OnCase
  BY <1>1 DEF OnCase
<1>5. Mounted' /\ Running' /\ CaseTyped'
  BY <1>1, MountedStays, RunningStays, TypedStays
<1>6. ASSUME OnCase PROVE Mine(rule)' \/ rule' \in unread'
  <2>1. PICK n \in awaiting : rule' = n
    BY <1>3, <1>6
  <2>2. n \in unread \/ (n \in left \cup {nav} /\ (hash # Board \/ n \in left))
    BY <1>2 DEF Ruled
  <2>3. n \in unread \/ Mine(n)
    BY <1>2, <2>2, OfTheTab DEF Mine
  <2> QED
    BY <1>1, <2>1, <2>3 DEF Mine
<1>7. rule' # Nil => OnCase' /\ (Mine(rule)' \/ rule' \in unread')
  BY <1>1, <1>2, <1>4, <1>6 DEF Ruled
<1>8. Ruled'
  BY <1>1, <1>7 DEF Ruled
<1> QED
  BY <1>5, <1>8 DEF CaseInv

LEMMA MapLoadsKeeps == ASSUME ReplayInv, MapLoads PROVE CaseInv'
<1>1. /\ map # Nil /\ UNCHANGED <<hash, nav, left, screen, renders, at, timer, leaked, awaiting, rule, unread>>
      /\ map' = [map EXCEPT !.loaded = TRUE, !.step = IF OnCase THEN at[map.by].step ELSE @]
      /\ shownStep' = IF OnCase THEN at[map.by].step ELSE shownStep
  BY DEF MapLoads, shellVars, requestVars
<1>2. CaseTyped /\ Mounted /\ Running
  BY DEF ReplayInv, CaseInv
<1>3. map \in [by : 1 .. MaxNav, on : Nat, loaded : BOOLEAN, step : Int] /\ at[map.by].step \in Int
  BY <1>1, <1>2 DEF CaseTyped
<1>4. /\ map' \in [by : 1 .. MaxNav, on : Nat, loaded : BOOLEAN, step : Int]
      /\ map'.by = map.by /\ map'.on = map.on /\ (OnCase => map'.step = at[map.by].step)
  BY <1>1, <1>3
<1>5. OnCase' = OnCase
  BY <1>1 DEF OnCase
<1>6. CaseTyped'
  BY <1>1, <1>2, <1>4, <1>5 DEF CaseTyped
<1>7. Mounted'
  <2>1. Mine(map.on)'
    BY <1>1, <1>2, <1>4 DEF Mounted, Mine
  <2> QED
    BY <1>1, <1>2, <1>4, <1>5, <2>1 DEF Mounted
<1>8. left = {} => map.by = screen.by
  BY <1>1, <1>2 DEF Mounted, Mine
<1>9. Running'
  BY <1>1, <1>2, <1>4, <1>5, <1>8 DEF Running
<1>10. Ruled'
  BY <1>1, RuledStays
<1> QED
  BY <1>6, <1>7, <1>9, <1>10 DEF CaseInv

(* The buttons and the timer: the page whose step moves.                    *)
LEMMA SelectAgainKeeps ==
    ASSUME ReplayInv, KeepsRest, NEW n \in 1 .. MaxNav, left = {} /\ OnCase => n = screen.by,
           NEW i \in Int, SelectAgain(n, i), timer' \in {timer, Nil, n}, timer' # Nil => hash # Board /\ n \in left \cup {nav}
    PROVE  CaseInv'
<1>1. UNCHANGED <<hash, nav, left, screen, renders, leaked, awaiting, rule, unread>> /\ OnCase' = OnCase
  BY DEF KeepsRest, shellVars, requestVars, OnCase
<1>2. CaseTyped /\ Mounted /\ Running
  BY DEF ReplayInv, CaseInv
<1>3. PICK page \in Pages \cup {Board} : page = at[n].of
  BY <1>2 DEF CaseTyped
<1>4. Select(n, page, i)
  BY <1>3 DEF SelectAgain
<1>5. /\ at' \in [1 .. MaxNav -> [of : Pages \cup {Board}, step : Int]]
      /\ at'[n].of = page /\ at'[n].step = i /\ \A k \in 1 .. MaxNav : k # n => at'[k] = at[k]
      /\ OnCase' => shownStep' = i
      /\ map' # Nil => /\ map # Nil /\ map'.by = map.by /\ map'.on = map.on
                       /\ map' \in [by : 1 .. MaxNav, on : Nat, loaded : BOOLEAN, step : Int]
      /\ OnCase' /\ screen'.of = page /\ map' # Nil /\ map'.loaded => map'.step = i
  BY <1>2, <1>4, SelectIs
<1>6. OnCase => screen.by \in 1 .. MaxNav /\ at'[screen.by].of = screen.of /\ (screen.by = n => screen.of = page)
  BY <1>2, <1>3, <1>5 DEF CaseTyped
<1>7. timer' # Nil => timer' \in 1 .. MaxNav
  BY <1>2 DEF CaseTyped
<1>8. CaseTyped'
  BY <1>1, <1>2, <1>5, <1>6, <1>7 DEF CaseTyped
<1>9. Mounted'
  <2>1. map' # Nil => Mine(map.on)'
    BY <1>1, <1>2, <1>5 DEF Mounted, Mine
  <2> QED
    BY <1>1, <1>2, <1>5, <2>1 DEF Mounted
<1>10. Running'
  <2>1. timer' # Nil => hash' # Board /\ timer' \in left' \cup {nav'}
    BY <1>1, <1>2 DEF Running
  <2>2. ASSUME left = {}, OnCase
        PROVE  shownStep' = at'[screen.by].step /\ (map' # Nil /\ map'.loaded => map'.step = shownStep')
    BY <1>1, <1>5, <1>6, <2>2
  <2> QED
    BY <1>1, <2>1, <2>2 DEF Running
<1>11. Ruled'
  BY <1>1, RuledStays
<1> QED
  BY <1>8, <1>9, <1>10, <1>11 DEF CaseInv

LEMMA TimerKeeps ==
    ASSUME ReplayInv, KeepsRest, UNCHANGED <<at, shownStep, map>>,
           timer' # Nil => timer' \in 1 .. MaxNav /\ hash # Board /\ timer' \in left \cup {nav}
    PROVE  CaseInv'
<1>1. UNCHANGED <<hash, nav, left, screen, renders, leaked, awaiting, rule, unread>> /\ OnCase' = OnCase
  BY DEF KeepsRest, shellVars, requestVars, OnCase
<1>2. CaseTyped /\ Running
  BY DEF ReplayInv, CaseInv
<1>3. CaseTyped' /\ Running'
  BY <1>1, <1>2 DEF CaseTyped, Running
<1>4. Mounted' /\ Ruled'
  BY <1>1, MountedStays, RuledStays
<1> QED
  BY <1>3, <1>4 DEF CaseInv

LEMMA ButtonKeeps ==
    ASSUME ReplayInv, Play \/ Tick \/ \E i \in 0 .. Steps - 1 : Manual(i) PROVE CaseInv'
<1>1. ShellInv /\ CaseTyped /\ Running /\ Steps \in Nat
  BY ReplayAssumption DEF ReplayInv, CaseInv
<1>2. ASSUME InSight PROVE OnCase /\ hash # Board /\ screen.by \in 1 .. MaxNav /\ screen.by \in left \cup {nav}
  BY <1>1, <1>2 DEF InSight, CaseTyped, ShellInv, ScreenIsOfTheTab
<1>3. ASSUME NEW i \in 0 .. Steps - 1, Manual(i) PROVE CaseInv'
  <2>1. PICK n \in 1 .. MaxNav : n = screen.by
    BY <1>2, <1>3 DEF Manual
  <2>2. i \in Int /\ KeepsRest /\ timer' = Nil /\ SelectAgain(n, i)
    BY <1>3, <2>1 DEF Manual
  <2> QED
    BY <2>1, <2>2, SelectAgainKeeps
<1>4. CASE Play
  <2>1. KeepsRest /\ InSight
    BY <1>4 DEF Play
  <2>2. PICK n \in 1 .. MaxNav : n = screen.by
    BY <1>2, <2>1
  <2>3. CASE SelectAgain(n, 0) /\ timer' = n
    BY <1>2, <2>1, <2>2, <2>3, SelectAgainKeeps
  <2>4. CASE UNCHANGED <<at, shownStep, map>> /\ timer' \in {Nil, n}
    BY <1>2, <2>1, <2>2, <2>4, TimerKeeps
  <2> QED
    BY <1>4, <2>2, <2>3, <2>4 DEF Play
<1>5. CASE Tick
  <2>1. KeepsRest /\ timer # Nil /\ timer \in 1 .. MaxNav /\ hash # Board /\ timer \in left \cup {nav}
    BY <1>1, <1>5 DEF Tick, CaseTyped, Running
  <2>2. PICK n \in 1 .. MaxNav : n = timer
    BY <2>1
  <2>3. PICK i \in Int : i = at[n].step + 1
    BY <1>1 DEF CaseTyped
  <2>4. left = {} => n = screen.by
    BY <1>1, <2>1, <2>2 DEF ShellInv, ScreenIsOfTheTab
  <2>5. CASE SelectAgain(n, i) /\ timer' = timer
    BY <2>1, <2>2, <2>4, <2>5, SelectAgainKeeps
  <2>6. CASE UNCHANGED <<at, shownStep, map>> /\ timer' = Nil
    BY <2>1, <2>6, TimerKeeps
  <2> QED
    BY <1>5, <2>2, <2>3, <2>5, <2>6 DEF Tick
<1> QED
  BY <1>3, <1>4, <1>5

-----------------------------------------------------------------------------
LEMMA ReplayStarts == ReplayInit => ReplayInv
<1> SUFFICES ASSUME ReplayInit PROVE ReplayInv
  OBVIOUS
<1>1. ShellInv
  BY ShellStarts DEF ReplayInit
<1>2. /\ nav = 0 /\ DOMAIN renders = {} /\ hash = Board /\ screen = [of |-> Board, by |-> 0, state |-> "page"]
      /\ at = [n \in 1 .. MaxNav |-> [of |-> Board, step |-> 0]]
      /\ timer = Nil /\ map = Nil /\ leaked = {} /\ awaiting = {} /\ rule = Nil /\ unread = {}
  BY DEF ReplayInit, ShellInit
<1>3. screen.of = Board /\ Board \notin Cases
  BY <1>2, Shell, ReplayAssumption
<1>4. ~OnCase
  BY <1>3 DEF OnCase
<1>5. InOrder /\ Numbered
  BY <1>2, ShellAssumption DEF InOrder, Numbered
<1>6. CaseTyped
  BY <1>2, <1>4 DEF CaseTyped
<1>7. Mounted /\ Ruled /\ Running
  BY <1>2, <1>4 DEF Mounted, Ruled, Running
<1> QED
  BY <1>1, <1>5, <1>6, <1>7 DEF ReplayInv, CaseInv

LEMMA ReplayGoesOn == ReplayInv /\ [ReplayNext]_caseVars => ReplayInv'
<1> SUFFICES ASSUME ReplayInv, [ReplayNext]_caseVars PROVE ReplayInv'
  OBVIOUS
<1>1. ShellInv' /\ InOrder' /\ Numbered'
  BY ReplayIsOfTheShell, ShellStep, CaseOrder, NumberedStays DEF ReplayInv
<1>2. CASE \E page \in Pages \cup {Board} : Leave(page)
  BY <1>1, <1>2, LeaveKeeps DEF ReplayInv
<1>3. CASE \E f \in flight, ok \in BOOLEAN : Arrive(f, ok) /\ UNCHANGED replayVars
  BY <1>1, <1>3, ArriveGoesOn DEF ReplayInv
<1>4. CASE \E n \in DOMAIN renders : NextOfPage(n) \/ DrawPage(n) \/ FinishPage(n) \/ DrawErrorPage(n)
  BY <1>1, <1>4, NextOfPageKeeps, DrawPageKeeps, FinishPageKeeps, DrawErrorPageKeeps DEF ReplayInv
<1>5. CASE (\E ok \in BOOLEAN : RuleComes(ok)) \/ MapLoads
  BY <1>1, <1>5, RuleComesKeeps, MapLoadsKeeps DEF ReplayInv
<1>6. CASE Play \/ Tick \/ \E i \in 0 .. Steps - 1 : Manual(i)
  BY <1>1, <1>6, ButtonKeeps DEF ReplayInv
<1>7. CASE UNCHANGED caseVars
  <2>1. /\ UNCHANGED <<hash, nav, left, screen, renders, at, shownStep, timer, map, leaked, awaiting, rule, unread>>
        /\ awaiting \subseteq 1 .. MaxNav
    BY <1>7 DEF caseVars, shellVars, requestVars, replayVars, ReplayInv, CaseInv, CaseTyped
  <2>2. CaseInv'
    BY <2>1, MountedStays, RuledStays, RunningStays, TypedStays DEF CaseInv
  <2> QED
    BY <1>1, <2>2 DEF ReplayInv
<1> QED
  BY <1>2, <1>3, <1>4, <1>5, <1>6, <1>7 DEF ReplayNext

LEMMA ReplayKept == ReplayInv => ReplayIsOfThePage
<1> SUFFICES ASSUME ReplayInv PROVE ReplayIsOfThePage
  OBVIOUS
<1>1. ShellInv /\ Mounted /\ Ruled /\ Running
  BY DEF ReplayInv, CaseInv
<1>2. timer # Nil => timer = screen.by \/ {timer, screen.by} \cap left # {}
  BY <1>1, OfTheTab DEF Running, ShellInv, ScreenIsOfTheTab
<1>3. map # Nil => (map.on = screen.by \/ {map.on, screen.by} \cap left # {}) /\ (map.by # map.on => map.by \in left)
  BY <1>1 DEF Mounted, Mine
<1>4. leaked # {} => \E m \in leaked : m.by \in left
  BY <1>1 DEF Mounted
<1>5. rule # Nil => OnCase /\ (rule = screen.by \/ {rule, screen.by} \cap left # {} \/ rule \in unread)
  BY <1>1 DEF Ruled, Mine
<1>6. left = {} /\ OnCase =>
          /\ shownStep = at[screen.by].step
          /\ map # Nil /\ map.loaded => map.step = shownStep
  BY <1>1 DEF Running
<1> QED
  BY <1>2, <1>3, <1>4, <1>5, <1>6 DEF ReplayIsOfThePage

-----------------------------------------------------------------------------
LEMMA PanelKeepsReplay == ASSUME ReplayInv, PanelNext PROVE ReplayInv'
<1>1. [ShellNext]_shellVars /\ UNCHANGED <<hash, nav, left, screen, renders, replayVars>>
  BY DEF PanelNext, ShellNext, Type, Submit, Suggest, Send, Replied, ReplyTo, requestVars
<1>2. ShellInv' /\ InOrder' /\ Numbered'
  BY <1>1, ShellStep, CaseOrder, NumberedStays DEF ReplayInv
<1>3. UNCHANGED <<at, shownStep, timer, map, leaked, awaiting, rule, unread>> /\ awaiting \subseteq 1 .. MaxNav
  BY <1>1 DEF replayVars, ReplayInv, CaseInv, CaseTyped
<1>4. CaseInv'
  BY <1>1, <1>3, MountedStays, RuledStays, RunningStays, TypedStays DEF CaseInv
<1> QED
  BY <1>2, <1>4 DEF ReplayInv

LEMMA BrowserHolds == BrowserSpec => [](ReplayInv /\ ConsoleInv)
<1>1. BrowserInit => ReplayInv /\ ConsoleInv
  BY ReplayStarts, ConsoleStarts DEF BrowserInit
<1>2. ReplayInv /\ ConsoleInv /\ [BrowserNext]_browserVars => (ReplayInv /\ ConsoleInv)'
  <2> SUFFICES ASSUME ReplayInv, ConsoleInv, [BrowserNext]_browserVars PROVE ReplayInv' /\ ConsoleInv'
    OBVIOUS
  <2>1. CASE ReplayNext /\ UNCHANGED consoleVars
    BY <2>1, ReplayGoesOn, ConsoleSteps
  <2>2. CASE PanelNext /\ UNCHANGED consoleVars
    BY <2>2, PanelKeepsReplay, ConsoleSteps
  <2>3. CASE ConsoleNext /\ UNCHANGED caseVars
    BY <2>3, ReplayGoesOn, ConsoleSteps
  <2>4. CASE UNCHANGED browserVars
    <3>1. UNCHANGED caseVars /\ UNCHANGED consoleVars
      BY <2>4 DEF browserVars
    <3> QED
      BY <3>1, ReplayGoesOn, ConsoleSteps
  <2> QED
    BY <2>1, <2>2, <2>3, <2>4 DEF BrowserNext
<1> QED
  BY <1>1, <1>2, PTL DEF BrowserSpec

(* Whatever order answers, failures, clicks and timers come in: playback,   *)
(* map and rule are those of the case on the screen, which shows one step   *)
(* (ops/views/cases.js); the page and its panel are those of the tab        *)
(* (ops/app.js); and the older console shows what is chosen (src/dark).     *)
(* What a page that was left under way may do is said by the properties.    *)
THEOREM PagesShowWhatIsAskedHolds == BrowserSpec => []PagesShowWhatIsAsked
<1>1. ReplayInv => ScreenIsOfTheTab /\ ReplayIsOfThePage
  BY ReplayKept DEF ReplayInv, ShellInv
<1>2. ConsoleInv => ConsoleShowsWhatIsChosen
  BY ConsoleKept
<1>3. ReplayInv /\ ConsoleInv => PagesShowWhatIsAsked
  BY <1>1, <1>2 DEF PagesShowWhatIsAsked
<1> QED
  BY <1>3, BrowserHolds, PTL
=============================================================================
