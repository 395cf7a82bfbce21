------------------------------ MODULE OpsShell ------------------------------
(***************************************************************************)
(* The operator's pages in one browser tab: ops/app.js routes an address   *)
(* to a page, ops/views/*.js request what the page needs and draw it,      *)
(* ops/lib.js remembers the requests, and ops/agent.js puts a panel on a   *)
(* page that asks the Agent.  JavaScript runs one step at a time; between  *)
(* two awaits of a page the user may go elsewhere and answers come in any  *)
(* order.                                                                  *)
(*                                                                         *)
(* A request is a promise: its path and the routing that made it.  A page  *)
(* awaits sets of paths, one after the other, is drawn, and may await more *)
(* (the map of Osong).                                                     *)
(***************************************************************************)
EXTENDS Integers, Sequences, FiniteSets

CONSTANTS
    Pages, Paths, Chats,
    Board,         \* the watch board, an iframe beside the pages
    NoChat,        \* a page without a panel
    Before, After, \* [Pages -> Seq(SUBSET Paths)]: awaited before and after it is drawn
    Optional,      \* [Pages -> SUBSET Paths]: the page does without them
    Fresh,         \* paths requested with get, not with cached
    ChatOf,        \* [Pages -> Chats or NoChat]
    Nil,           \* no promise, no panel
    MaxNav, MaxAsks

ASSUME ShellAssumption ==
    /\ {Before, After} \subseteq [Pages -> Seq(SUBSET Paths)]
    /\ \A p \in Pages : Before[p] # <<>>
    /\ Fresh \subseteq Paths /\ Board \notin Pages
    /\ ChatOf \in [Pages -> Chats \cup {NoChat}] /\ NoChat \notin Chats
    /\ Nil \notin [path : Paths, by : Nat]
    /\ {MaxNav, MaxAsks} \subseteq Nat

VARIABLES
    hash,     \* the page of the address
    nav,      \* how often the address was routed
    renders,  \* nav -> a page under way: [of, shown, rest, waits, failed]
    memo,     \* path -> the promise kept, or Nil
    flight,   \* promises that are not settled
    got,      \* paths that were answered (history)
    left,     \* routings left while their page was under way (history)
    screen,   \* what #op-view shows: [of, by, state]
    panel,    \* the panel on it, or Nil: [by, chat, busy, input, shown]
    conv,     \* chat -> its turns and the text typed last
    asks,     \* questions on their way
    asked     \* how often something was typed or asked; it numbers the texts

requestVars == <<renders, memo, flight, got>>
chatVars    == <<conv, asks, asked>>
shellVars   == <<hash, nav, left, screen, panel, requestVars, chatVars>>

-----------------------------------------------------------------------------
(* cached and get.  A request is remembered from its start; one that fails  *)
(* is forgotten (Arrive).  As a bug: it is remembered once answered, never  *)
(* while it is on its way.                                                  *)
Promise(path, n) ==
    IF path \in Fresh \/ memo[path] = Nil THEN [path |-> path, by |-> n] ELSE memo[path]
RememberNothing(promises) == memo
Remember(promises) ==
    [p \in Paths |-> IF p \notin Fresh /\ \E q \in promises : q.path = p
                     THEN CHOOSE q \in promises : q.path = p ELSE memo[p]]

Without(f, n)   == [k \in DOMAIN f \ {n} |-> f[k]]
With(f, n, val) == [k \in DOMAIN f \cup {n} |-> IF k = n THEN val ELSE f[k]]

(* A page awaits the next of its sets; what is settled it does not wait for. *)
Request(n, page, shown, sets) ==
    LET promises == {Promise(p, n) : p \in Head(sets)}
        new      == {q \in promises : q.path \in Fresh \/ memo[q.path] = Nil}
    IN /\ flight' = flight \cup new
       /\ memo' = Remember(promises)
       /\ renders' = With(renders, n, [of |-> page, shown |-> shown, rest |-> Tail(sets), failed |-> FALSE,
                                       waits |-> promises \cap (flight \cup new)])

(* What awaits nothing goes on before the next event, the older of a page   *)
(* first.                                                                   *)
Ready(n)  == renders[n].waits = {} /\ ~renders[n].failed
Settled   == \A n \in DOMAIN renders : ~Ready(n) /\ ~renders[n].failed
Turn(n)   == Ready(n) /\ \A k \in DOMAIN renders : k < n /\ renders[k].of = renders[n].of => ~Ready(k)

(* mountAgent: a panel with what the conversation remembers.                *)
Mount(page, n) ==
    IF ChatOf[page] = NoChat THEN Nil
    ELSE [by |-> n, chat |-> ChatOf[page], busy |-> FALSE, input |-> conv[ChatOf[page]].draft,
          shown |-> Len(conv[ChatOf[page]].turns)]

-----------------------------------------------------------------------------
(* route, at the start and on hashchange.                                   *)
Route(page) ==
    /\ Settled /\ nav < MaxNav /\ page # hash
    /\ hash' = page /\ nav' = nav + 1
    /\ left' = left \cup (DOMAIN renders \cap {nav})
    /\ IF page = Board THEN UNCHANGED <<screen, panel, requestVars>>
       ELSE /\ screen' = [of |-> page, by |-> nav + 1, state |-> "loading"]
            /\ panel' = Nil
            /\ Request(nav + 1, page, FALSE, Before[page])
            /\ UNCHANGED got
    /\ UNCHANGED chatVars

(* A request is answered or fails, for every page that waits for it.        *)
Arrive(f, ok) ==
    /\ Settled /\ f \in flight
    /\ flight' = flight \ {f}
    /\ memo' = IF ~ok /\ memo[f.path] = f THEN [memo EXCEPT ![f.path] = Nil] ELSE memo
    /\ got' = IF ok THEN got \cup {f.path} ELSE got
    /\ renders' = [n \in DOMAIN renders |->
            [renders[n] EXCEPT
                !.waits = @ \ {f},
                !.failed = ~ok /\ f \in renders[n].waits /\ f.path \notin Optional[renders[n].of]]]
    /\ UNCHANGED <<hash, nav, left, screen, panel, chatVars>>

(* A page goes on where it awaited: the next set, the page, its end, or     *)
(* the error, wherever the user is by then.                                 *)
NextSet(n) ==
    /\ Turn(n) /\ renders[n].rest # <<>>
    /\ Request(n, renders[n].of, renders[n].shown, renders[n].rest)
    /\ UNCHANGED <<hash, nav, left, screen, panel, got, chatVars>>

DrawOn(n, mounted) ==
    /\ Turn(n) /\ renders[n].rest = <<>> /\ ~renders[n].shown
    /\ screen' = [of |-> renders[n].of, by |-> n, state |-> "page"]
    /\ panel' = mounted
    /\ IF After[renders[n].of] = <<>> THEN renders' = Without(renders, n) /\ UNCHANGED <<memo, flight>>
       ELSE Request(n, renders[n].of, TRUE, After[renders[n].of])
    /\ UNCHANGED <<hash, nav, left, got, chatVars>>
(* As a bug: a panel that is there stays.                                   *)
DrawUnderPanel(n) == DrawOn(n, IF panel # Nil THEN panel ELSE Mount(renders[n].of, n))
Draw(n) == DrawOn(n, Mount(renders[n].of, n))

Finish(n) ==
    /\ Turn(n) /\ renders[n].rest = <<>> /\ renders[n].shown
    /\ renders' = Without(renders, n)
    /\ UNCHANGED <<hash, nav, left, screen, panel, memo, flight, got, chatVars>>

DrawError(n) ==
    /\ renders[n].failed
    /\ screen' = [of |-> renders[n].of, by |-> n, state |-> "error"]
    /\ panel' = Nil
    /\ renders' = Without(renders, n)
    /\ UNCHANGED <<hash, nav, left, memo, flight, got, chatVars>>

-----------------------------------------------------------------------------
(* The panel.  Texts are numbered; 0 is an empty input.                     *)
Usable == Settled /\ hash # Board /\ panel # Nil /\ ~panel.busy

Type ==
    /\ Usable /\ asked < MaxAsks
    /\ asked' = asked + 1
    /\ panel' = [panel EXCEPT !.input = asked + 1]
    /\ conv' = [conv EXCEPT ![panel.chat].draft = asked + 1]
    /\ UNCHANGED <<hash, nav, left, screen, requestVars, asks>>

(* ask, with the turns so far; the input keeps its text until the reply.    *)
Send(text) ==
    /\ panel' = [panel EXCEPT !.busy = TRUE]
    /\ asks' = asks \cup {[by |-> panel.by, chat |-> panel.chat, text |-> text,
                           knew |-> Len(conv[panel.chat].turns)]}
    /\ UNCHANGED <<hash, nav, left, screen, requestVars, conv>>
Submit  == Usable /\ panel.input # 0 /\ asked < MaxAsks /\ Send(panel.input) /\ asked' = asked + 1
Suggest == Usable /\ asked < MaxAsks /\ Send(asked + 1) /\ asked' = asked + 1

(* The reply goes to the panel that asked, which may be off the page.  As a *)
(* bug: to whatever panel of the conversation is there.                     *)
ReplyTo(a, outcome, here) ==
    /\ Settled
    /\ asks' = asks \ {a}
    /\ conv' = IF outcome = "failed" THEN conv
               ELSE [conv EXCEPT ![a.chat].turns = Append(@, [text |-> a.text, by |-> a.by, knew |-> a.knew])]
    /\ panel' = IF ~here THEN panel
                ELSE [panel EXCEPT !.busy = FALSE,
                                   !.input = IF outcome = "answered" THEN 0 ELSE a.text,
                                   !.shown = IF outcome = "failed" THEN @ ELSE Len(conv'[a.chat].turns)]
    /\ UNCHANGED <<hash, nav, left, screen, requestVars, asked>>
RepliedToAny(a, outcome) == ReplyTo(a, outcome, panel # Nil /\ panel.chat = a.chat)
Replied(a, outcome)      == ReplyTo(a, outcome, panel # Nil /\ panel.by = a.by)

ShellInit ==
    /\ hash = Board /\ nav = 0 /\ left = {}
    /\ renders = [n \in {} |-> 0] /\ memo = [p \in Paths |-> Nil] /\ flight = {} /\ got = {}
    /\ screen = [of |-> Board, by |-> 0, state |-> "page"] /\ panel = Nil
    /\ conv = [c \in Chats |-> [turns |-> <<>>, draft |-> 0]] /\ asks = {} /\ asked = 0
ShellNext ==
    \/ \E page \in Pages \cup {Board} : Route(page)
    \/ \E f \in flight, ok \in BOOLEAN : Arrive(f, ok)
    \/ \E n \in DOMAIN renders : NextSet(n) \/ Draw(n) \/ Finish(n) \/ DrawError(n)
    \/ Type \/ Submit \/ Suggest
    \/ \E a \in asks, outcome \in {"answered", "unavailable", "failed"} : Replied(a, outcome)
ShellSpec == ShellInit /\ [][ShellNext]_shellVars

-----------------------------------------------------------------------------
(* Going back and forth between the tabs sends no request twice: of a path  *)
(* one is on its way at most, and none once it was answered.  And no page   *)
(* says that it is loading for ever: what it waits for is on its way.       *)
RequestedOnce ==
    /\ \A f, g \in flight : f.path = g.path /\ f.path \notin Fresh => f = g
    /\ \A f \in flight : f.path \in Fresh \/ f.path \notin got
    /\ screen.state = "loading" => screen.by \in DOMAIN renders
    /\ \A n \in DOMAIN renders : renders[n].waits \subseteq flight

(* Under the tab of a page stands that page, or one that was left while it  *)
(* was drawn and comes late.  Either way the panel on it is its own: what   *)
(* is asked there is asked about what is shown.                             *)
ScreenIsOfTheTab ==
    /\ hash # Board => screen.by \in left \cup {nav}
    /\ screen.by = nav /\ nav > 0 => screen.of = hash
    /\ panel # Nil => screen.state = "page" /\ panel.by = screen.by /\ panel.chat = ChatOf[screen.of]

(* A panel waits for a reply exactly while its question is on its way, and  *)
(* asks one thing at a time.  It shows, and a question knows of, every turn *)
(* of the conversation but those that another panel, since off the page,    *)
(* asked for.                                                               *)
FollowUpsKnowTheTurns ==
    /\ panel # Nil =>
          /\ panel.busy <=> \E a \in asks : a.by = panel.by
          /\ \A i \in panel.shown + 1 .. Len(conv[panel.chat].turns) :
                conv[panel.chat].turns[i].by # panel.by
    /\ \A a, b \in asks : a.by = b.by => a = b
    /\ \A c \in Chats : \A j \in DOMAIN conv[c].turns :
          \A i \in conv[c].turns[j].knew + 1 .. j - 1 : conv[c].turns[i].by # conv[c].turns[j].by
=============================================================================
