---------------------------- MODULE EditorSession ----------------------------
(***************************************************************************)
(* One document in the browsers that open it: the template it may start    *)
(* from, the seed an editor puts into its empty Y.Doc, the copy IndexedDB  *)
(* keeps, and the socket to the gateway.  All may write.  (SyncGateway     *)
(* models modes and frames; here a frame arrives when it is sent.)         *)
(*                                                                         *)
(* A Y.Doc is the set of updates it was given.  Yjs shows an update only   *)
(* with everything that update builds on: what it is typed into, and what  *)
(* the same Y.Doc made before.  The seed a tab makes is named by the tab.  *)
(***************************************************************************)
EXTENDS Integers, FiniteSets

CONSTANTS
    Tabs,        \* the times the editor is opened
    Browsers,
    Inputs,      \* what is typed
    MaxBreaks    \* bound: restarts of the gateway and sockets that break

ASSUME SessionConstants ==
    Tabs \cap Inputs = {} /\ Browsers # {} /\ MaxBreaks \in Nat

VARIABLES
    template,   \* template_id of the row is set
    tab,        \* what each tab is doing
    doc,        \* what the Y.Doc of each tab was given
    idb,        \* what IndexedDB holds, of each browser
    body,       \* what the gateway was given
    made,       \* history: the updates there are, by the tab that made them
    need,       \* history: what each update builds on
    early,      \* history: the updates made outside the room and not sent
    breaks

session == <<template, tab, doc, idb, body, made, need, early, breaks>>

Updates == Tabs \cup Inputs

\* `answer` is of GET template-content.  A tab's socket is open when the browser
\* says so and in the room when the gateway has added it.
Tab == [browser : Browsers,
        pc : {"off", "loading", "bundled", "mounted", "left"},
        answer : {"none", "claiming", "nothing", "content", "parsed"},
        seed : {"none", "blank", "template"},
        socket : {"none", "connecting", "open", "joined", "closed"},
        hydrated : BOOLEAN]

SessionTypeOK ==
    /\ template \in BOOLEAN
    /\ tab \in [Tabs -> Tab]
    /\ doc \in [Tabs -> SUBSET Updates] /\ idb \in [Browsers -> SUBSET Updates]
    /\ body \subseteq Updates /\ early \subseteq Updates
    /\ made \in SUBSET [update : Updates, by : Tabs]
    /\ need \in [Updates -> SUBSET Updates]
    /\ breaks \in 0 .. MaxBreaks

NewTab(b) == [browser |-> b, pc |-> "off", answer |-> "none", seed |-> "none",
              socket |-> "none", hydrated |-> FALSE]

SessionInit ==
    /\ template = TRUE
    /\ tab \in [Tabs -> {NewTab(b) : b \in Browsers}]
    /\ doc = [t \in Tabs |-> {}] /\ idb = [b \in Browsers |-> {}]
    /\ body = {} /\ made = {} /\ early = {}
    /\ need = [u \in Updates |-> {}]
    /\ breaks = 0

\* What Yjs shows of a set of updates; the others wait in its store.
Whole(us) == {u \in us : need[u] \subseteq us}

Mounted(t) == tab[t].pc = "mounted"
InRoom(t)  == tab[t].socket = "joined"

-----------------------------------------------------------------------------
(* A tab loads: the sync token and the template, in one Promise.all.       *)

SetTab(t, r) ==
    /\ tab' = [tab EXCEPT ![t] = r]
    /\ UNCHANGED <<doc, idb, body, made, need, early, breaks>>

ReadTemplate_Unlocked(t) ==
    /\ tab[t].pc = "off"
    /\ SetTab(t, [tab[t] EXCEPT !.pc = "loading",
                                !.answer = IF template THEN "claiming" ELSE "nothing"])
    /\ UNCHANGED template

\* SELECT ... FOR UPDATE waits for the row, and reads what the one before left.
ReadTemplate(t) ==
    /\ tab[t].pc = "off"
    /\ \A x \in Tabs : tab[x].answer # "claiming"
    /\ SetTab(t, [tab[t] EXCEPT !.pc = "loading",
                                !.answer = IF template THEN "claiming" ELSE "nothing"])
    /\ UNCHANGED template

\* The column is cleared and committed; the file may then fail to load.
ClaimTemplate(t) ==
    /\ tab[t].answer = "claiming"
    /\ template' = FALSE
    /\ \E got \in {"content", "nothing"} : SetTab(t, [tab[t] EXCEPT !.answer = got])

\* Both have answered: setBundle.  Or the token is refused, and there is no editor.
Bundle(t) ==
    /\ tab[t].pc = "loading" /\ tab[t].answer \in {"nothing", "content"}
    /\ \E pc \in {"bundled", "left"} : SetTab(t, [tab[t] EXCEPT !.pc = pc])
    /\ UNCHANGED template

\* The template is awaited once more, as JSON.  Once the editor has mounted it is
\* of no use: the seed is not in the effect's dependencies.
ParseTemplate(t) ==
    /\ tab[t].pc = "bundled" /\ tab[t].answer = "content"
    /\ SetTab(t, [tab[t] EXCEPT !.answer = "parsed"])
    /\ UNCHANGED template

-----------------------------------------------------------------------------
(* What an update of one Y.Doc does to the others.                         *)

Sends_BestEffort(t) == IF tab[t].socket \in {"open", "joined"} THEN BOOLEAN ELSE {FALSE}

\* handle.observe: the transport sends what did not come from it while its socket
\* is open.  What the gateway hears before the tab is in the room it drops, if
\* the tab is not in it by then.
Sends(t) == IF InRoom(t) THEN {TRUE}
            ELSE IF tab[t].socket = "open" THEN BOOLEAN ELSE {FALSE}

ShownOf(us, nd) == {u \in us : nd[u] \subseteq us}

\* What each tab is given: t what it makes of itself, the others in the room what
\* t sends.
Given(t, mine, news, sent) ==
    [x \in Tabs |-> IF x = t THEN mine ELSE IF sent /\ InRoom(x) THEN news ELSE {}]

\* Where IndexedDB is open it stores what becomes visible by that.  (nd is `need`,
\* with the new update in it.)
Store(given, nd) ==
    [b \in Browsers |-> idb[b] \cup
        UNION {ShownOf(doc[x] \cup given[x], nd) \ ShownOf(doc[x], nd) :
                  x \in {x \in Tabs : tab[x].hydrated /\ tab[x].browser = b}}]

Take(given) == doc' = [x \in Tabs |-> doc[x] \cup given[x]]

-----------------------------------------------------------------------------
(* A tab at work.                                                          *)

\* setupSync, and the seed into a Y.Doc that has just been made: it is empty
\* whatever IndexedDB and the gateway have, and the socket is still connecting.
Mount(t) ==
    /\ tab[t].pc = "bundled"
    /\ tab' = [tab EXCEPT ![t] = [@ EXCEPT !.pc = "mounted", !.socket = "connecting",
                 !.answer = "none",
                 !.seed = IF tab[t].answer = "parsed" THEN "template" ELSE "blank"]]
    /\ doc' = [doc EXCEPT ![t] = {t}]
    /\ made' = made \cup {[update |-> t, by |-> t]}
    /\ early' = early \cup {t}
    /\ UNCHANGED <<template, idb, body, need, breaks>>

\* IndexedDB is open: it stores what the Y.Doc has and gives it what it has.  To
\* the transport that is an update like any other.
Hydrate(t) ==
    LET b    == tab[t].browser
        held == doc[t] \cup idb[b]
        news == Whole(held) \ Whole(doc[t])
    IN  /\ Mounted(t) /\ ~tab[t].hydrated
        /\ tab' = [tab EXCEPT ![t] = [@ EXCEPT !.hydrated = TRUE]]
        /\ \E sent \in Sends(t) :
              LET given == Given(t, held, news, sent)
              IN  /\ Take(given)
                  /\ idb' = [Store(given, need) EXCEPT ![b] = @ \cup doc[t]]
                  /\ body' = IF sent THEN body \cup news ELSE body
        /\ UNCHANGED <<template, made, need, early, breaks>>

\* An edit goes into something the tab shows, and follows what it typed before.
Type(t, u, at) ==
    LET before == {m.update : m \in {m \in made : m.by = t}} \ {t}
        nd     == [need EXCEPT ![u] = UNION {{x} \cup need[x] : x \in before \cup {at}}]
    IN  /\ Mounted(t) /\ tab[t].socket # "closed"
        /\ \A m \in made : m.update # u
        /\ at \in Whole(doc[t])
        /\ made' = made \cup {[update |-> u, by |-> t]}
        /\ need' = nd
        /\ \E sent \in Sends(t) :
              LET given == Given(t, {u}, {u}, sent)
              IN  /\ Take(given) /\ idb' = Store(given, nd)
                  /\ body' = IF sent THEN body \cup {u} ELSE body
                  /\ early' = IF sent \/ InRoom(t) THEN early ELSE early \cup {u}
        /\ UNCHANGED <<template, tab, breaks>>

Connect(t) ==
    /\ tab[t].socket = "connecting"
    /\ SetTab(t, [tab[t] EXCEPT !.socket = "open"])
    /\ UNCHANGED template

Enter_NotStored(t) ==
    /\ tab[t].socket = "open"
    /\ tab' = [tab EXCEPT ![t] = [@ EXCEPT !.socket = "joined"]]
    /\ Take(Given(t, body, {}, FALSE))
    /\ UNCHANGED <<template, idb, body, made, need, early, breaks>>

\* The gateway has added the tab to the room and replays the body.
Enter(t) ==
    /\ tab[t].socket = "open"
    /\ tab' = [tab EXCEPT ![t] = [@ EXCEPT !.socket = "joined"]]
    /\ LET given == Given(t, body, {}, FALSE)
       IN  Take(given) /\ idb' = Store(given, need)
    /\ UNCHANGED <<template, body, made, need, early, breaks>>

\* An editor whose socket has closed shows the error in its place.
Break(t) ==
    /\ tab[t].socket \in {"connecting", "open", "joined"} /\ breaks < MaxBreaks
    /\ tab' = [tab EXCEPT ![t] = [@ EXCEPT !.socket = "closed"]]
    /\ breaks' = breaks + 1
    /\ UNCHANGED <<template, doc, idb, body, made, need, early>>

\* The gateway starts again: y-sweet has what the gateway's Y.Doc could show.
Restart ==
    /\ breaks < MaxBreaks /\ breaks' = breaks + 1
    /\ body' = Whole(body)
    /\ tab' = [t \in Tabs |-> IF tab[t].socket \in {"none", "connecting"} THEN tab[t]
                              ELSE [tab[t] EXCEPT !.socket = "closed"]]
    /\ UNCHANGED <<template, doc, idb, made, need, early>>

\* The tab is closed or loaded again, which is a tab of its own.
Leave(t) ==
    /\ tab[t].pc \notin {"off", "left"} /\ tab[t].answer # "claiming"
    /\ tab' = [tab EXCEPT ![t] = [NewTab(@.browser) EXCEPT
                 !.pc = "left", !.seed = tab[t].seed,
                 !.socket = IF tab[t].socket \in {"none", "connecting"} THEN "none" ELSE "closed"]]
    /\ doc' = [doc EXCEPT ![t] = {}]
    /\ UNCHANGED <<template, idb, body, made, need, early, breaks>>

TabStep(t) ==
    \/ ReadTemplate(t) \/ ClaimTemplate(t) \/ Bundle(t) \/ ParseTemplate(t)
    \/ Mount(t) \/ Hydrate(t) \/ Connect(t) \/ Enter(t) \/ Break(t) \/ Leave(t)
    \/ \E u \in Inputs, at \in Updates : Type(t, u, at)

SessionNext == (\E t \in Tabs : TabStep(t)) \/ Restart

SessionSpec == SessionInit /\ [][SessionNext]_session

-----------------------------------------------------------------------------
(* Properties.                                                             *)

\* However many open a new document at once, one of them at most starts it from
\* the template: the promise of the template-content route.
TemplateStartsOneTab ==
    \A t, x \in Tabs : tab[t].seed = "template" /\ tab[x].seed = "template" => t = x

\* Nothing a tab shows is lost by loading it again, as soon as IndexedDB has been
\* heard of once: setup.ts has "offline edits survive a tab reload".
ShownIsStored ==
    \A t \in Tabs : tab[t].hydrated => Whole(doc[t]) \subseteq idb[tab[t].browser]

\* What the body lacks of what a tab shows rests on something a tab of the same
\* browser made and could not send: the seed, or what was typed before the tab was
\* in the room.  Nothing else keeps an edit from the others.
OnlyTheUnsentIsMissing ==
    \A t \in Tabs : InRoom(t) =>
        \A u \in Whole(doc[t]) \ Whole(body) :
            \E m \in made : /\ m.update \in (need[u] \cup {u}) \cap early
                            /\ tab[m.by].browser = tab[t].browser
=============================================================================
