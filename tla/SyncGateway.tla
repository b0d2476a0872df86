------------------------------ MODULE SyncGateway ------------------------------
(***************************************************************************)
(* The WebSocket gateway in front of one document.  A connection is        *)
(* authenticated against the access list, waits for the document's room,   *)
(* joins it, and from then on each frame it sends is routed by the mode    *)
(* the gateway holds for it: a writer's into the body, a proposer's into   *)
(* the drafts, a reader's nowhere.  A heartbeat reads the access list      *)
(* again and changes the mode or closes the socket.                        *)
(*                                                                         *)
(* A room is named after the connection whose arrival built it.  A client  *)
(* applies an update as it is sent; MODE_SET it acts on later.  Y.Docs are *)
(* the sets of their updates: an update commutes and repeats harmlessly.   *)
(* The rooms have the y-sweet backend.                                     *)
(***************************************************************************)
EXTENDS Integers, Sequences

CONSTANTS
    Conns,       \* connections, each of a principal of its own
    Edits,       \* Yjs updates
    Start,       \* what the access list grants each principal at first
    MaxLoads,    \* bound: reads of the access list one heartbeat has under way
    MaxChanges,  \* bound: changes of the access list and tokens that run out
    MaxFaults    \* bound: builds that fail and crashes of the process

Modes == {"writer", "proposer", "reader"}
Acl   == Modes \cup {"none"}
Slots == 1 .. MaxLoads

ASSUME ConstantsOK ==
    /\ Start \in [Conns -> Acl] /\ MaxLoads \in Nat \ {0}
    /\ MaxChanges \in Nat /\ MaxFaults \in Nat
    /\ Conns \cap {"none", "nobody", "external"} = {}   \* the marks are no connections

VARIABLES
    acl,         \* what the access list grants: now, and ever (history)
    expired,     \* connections whose token has run out
    conn,        \* a connection: the gateway's side and the client's
    load,        \* reads of the access list a heartbeat has not acted on yet
    uplink,      \* frames a client has sent and the gateway has not seen
    has,         \* the updates of a connected client's document
    author,      \* history: who made each update
    registry,    \* the document's entries in `rooms` and `pendingRooms`
    room,        \* members, body and drafts of each room
    store,       \* the updates the y-sweet server holds
    faults

vars == <<acl, expired, conn, load, uplink, has, author, registry, room, store, faults>>

Frame == [kind : {"body", "draft"}, edit : Edits]

TypeOK ==
    /\ acl.now \in [Conns -> Acl] /\ acl.ever \in [Conns -> SUBSET Modes]
    /\ acl.changes \in 0 .. MaxChanges /\ expired \subseteq Conns
    /\ \A c \in Conns :
          /\ conn[c].pc \in {"off", "auth", "room", "live", "gone"}
          /\ conn[c].ws \in {"none", "open", "closing", "closed"}
          /\ conn[c].mode \in Acl /\ conn[c].client \in Modes \cup {"unset"}
          /\ conn[c].told \in Seq(Modes) /\ uplink[c] \in Seq(Frame)
          /\ conn[c].waits \in Conns \cup {"none"}
          /\ room[c].members \subseteq Conns /\ room[c].drafts \subseteq Edits
          /\ room[c].body \subseteq Edits
    /\ load \in [Conns -> [Slots -> Acl \cup {"idle"}]]
    /\ has \in [Conns -> SUBSET Edits]
    /\ author \in [Edits -> Conns \cup {"nobody", "external"}]
    /\ registry \in [room : Conns \cup {"none"}, pending : Conns \cup {"none"}]
    /\ store \subseteq Edits /\ faults \in 0 .. MaxFaults

NewConn == [pc |-> "off", ws |-> "none", mode |-> "none", client |-> "unset", told |-> <<>>,
            waits |-> "none"]
PastConn == [NewConn EXCEPT !.pc = "gone", !.ws = "closed"]
NewRoom == [members |-> {}, body |-> {}, drafts |-> {}]

Init ==
    /\ acl = [now |-> Start, ever |-> [c \in Conns |-> {Start[c]} \cap Modes], changes |-> 0]
    /\ expired = {}
    /\ conn = [c \in Conns |-> NewConn]
    /\ load = [c \in Conns |-> [k \in Slots |-> "idle"]]
    /\ uplink = [c \in Conns |-> <<>>]
    /\ has = [c \in Conns |-> {}]
    /\ author = [u \in Edits |-> "nobody"]
    /\ registry = [room |-> "none", pending |-> "none"]
    /\ room = [c \in Conns |-> NewRoom]
    /\ store = {} /\ faults = 0

IsOpen(c) == conn[c].ws = "open"
Live(c)   == conn[c].pc = "live" /\ IsOpen(c)
Body(r)   == room[r].body

\* What befalls a connection k: it is let in with a mode, its socket opens and it
\* awaits a build, it joins and is told its mode, the build fails, it hears a mode,
\* and a heartbeat finds a mode for it.
Admitted(k, mode)  == [k EXCEPT !.pc = "auth", !.mode = mode]
Opened(k, builder) == [k EXCEPT !.pc = "room", !.ws = "open", !.waits = builder]
Joined(k)          == [k EXCEPT !.pc = "live",
                                !.told = IF k.ws = "open" THEN Append(@, k.mode) ELSE @]
Refused(k)         == [k EXCEPT !.pc = "gone", !.ws = IF @ = "open" THEN "closing" ELSE @]
Heard(k)           == [k EXCEPT !.client = Head(k.told), !.told = Tail(@)]
Granted(k, mode)   == [k EXCEPT !.mode = mode,
                                !.told = IF mode # k.mode /\ k.ws = "open"
                                           THEN Append(@, mode) ELSE @]

\* `send`: to the sockets that are open.
Sent(to, us) == [c \in Conns |-> IF c \in to /\ IsOpen(c) THEN has[c] \cup us ELSE has[c]]

-----------------------------------------------------------------------------
(* Around the gateway: the access list, tokens, another gateway's clients. *)

ChangeAcl(c, v) ==
    /\ acl.changes < MaxChanges /\ acl.now[c] # v
    /\ acl' = [now |-> [acl.now EXCEPT ![c] = v], changes |-> acl.changes + 1,
               ever |-> [acl.ever EXCEPT ![c] = @ \cup ({v} \cap Modes)]]
    /\ UNCHANGED <<expired, conn, load, uplink, has, author, registry, room, store, faults>>

Expire(c) ==
    /\ c \notin expired /\ acl.changes < MaxChanges
    /\ expired' = expired \cup {c} /\ acl' = [acl EXCEPT !.changes = @ + 1]
    /\ UNCHANGED <<conn, load, uplink, has, author, registry, room, store, faults>>

EditElsewhere(u) ==
    /\ author[u] = "nobody"
    /\ author' = [author EXCEPT ![u] = "external"]
    /\ store' = store \cup {u}
    /\ UNCHANGED <<acl, expired, conn, load, uplink, has, registry, room, faults>>

-----------------------------------------------------------------------------
(* A connection comes up: handleUpgrade, onConnection, getOrCreateRoom.    *)

Authenticate(c) ==
    /\ conn[c].pc = "off"
    /\ conn' = [conn EXCEPT
          ![c] = IF c \in expired \/ acl.now[c] = "none" THEN PastConn
                 ELSE Admitted(@, acl.now[c])]
    /\ UNCHANGED <<acl, expired, load, uplink, has, author, registry, room, store, faults>>

\* From the room's promise on, onConnection awaits nothing that is not there:
\* it adds the member, tells the mode, replays the body and attaches its
\* handlers before any other event.  It does not ask whether the socket closed.
Join(cn, r, cs) ==
    /\ conn' = [c \in Conns |-> IF c \in cs THEN Joined(cn[c]) ELSE cn[c]]
    /\ room' = [room EXCEPT ![r].members = @ \cup cs]
    /\ has' = [c \in Conns |-> IF c \in cs /\ cn[c].ws = "open" THEN has[c] \cup Body(r) ELSE has[c]]

Upgrade_NoPending(c) ==       \* mutant: creations under way are not shared
    /\ conn[c].pc = "auth"
    /\ LET cn == [conn EXCEPT ![c] = Opened(@, c)]
       IN \/ /\ registry.room # "none"
             /\ Join(cn, registry.room, {c}) /\ UNCHANGED registry
          \/ /\ registry.room = "none"
             /\ registry' = [registry EXCEPT !.pending = c]
             /\ conn' = cn /\ UNCHANGED <<room, has>>
    /\ UNCHANGED <<acl, expired, load, uplink, author, store, faults>>

\* The handshake ends: the document's room, the room under way, or a new one.
Upgrade(c) ==
    /\ conn[c].pc = "auth"
    /\ LET builder == IF registry.pending = "none" THEN c ELSE registry.pending
           cn == [conn EXCEPT ![c] = Opened(@, builder)]
       IN \/ /\ registry.room # "none"
             /\ Join(cn, registry.room, {c}) /\ UNCHANGED registry
          \/ /\ registry.room = "none"
             /\ registry' = [registry EXCEPT !.pending = builder]
             /\ conn' = cn /\ UNCHANGED <<room, has>>
    /\ UNCHANGED <<acl, expired, load, uplink, author, store, faults>>

Waiting(r) == {c \in Conns : conn[c].pc = "room" /\ conn[c].waits = r}

\* The backend has connected (not: synchronised), and all who wait join.
BuildDone(r) ==
    /\ Waiting(r) # {}
    /\ registry' = [room |-> r, pending |-> "none"]
    /\ Join(conn, r, Waiting(r))
    /\ UNCHANGED <<acl, expired, load, uplink, author, store, faults>>

BuildFails(r) ==
    /\ Waiting(r) # {} /\ faults < MaxFaults
    /\ faults' = faults + 1
    /\ registry' = [registry EXCEPT !.pending = "none"]
    /\ conn' = [c \in Conns |-> IF c \in Waiting(r) THEN Refused(conn[c]) ELSE conn[c]]
    /\ UNCHANGED <<acl, expired, load, uplink, has, author, room, store>>

-----------------------------------------------------------------------------
(* A connection at work.                                                   *)

\* The transport frames an edit by the mode it was told; before the first
\* MODE_SET it sends it as a writer's.
Edit(c, u) ==
    /\ conn[c].ws \in {"open", "closing"} /\ author[u] = "nobody"
    /\ author' = [author EXCEPT ![u] = c]
    /\ has' = [has EXCEPT ![c] = @ \cup {u}]
    /\ uplink' = [uplink EXCEPT ![c] =
          CASE conn[c].client = "reader"            -> @
            [] conn[c].client = "proposer"          -> Append(@, [kind |-> "draft", edit |-> u])
            [] conn[c].client \in {"unset", "writer"} -> Append(@, [kind |-> "body", edit |-> u])]
    /\ UNCHANGED <<acl, expired, conn, load, registry, room, store, faults>>

HearMode(c) ==
    /\ conn[c].ws \in {"open", "closing"} /\ conn[c].told # <<>>
    /\ conn' = [conn EXCEPT ![c] = Heard(@)]
    /\ UNCHANGED <<acl, expired, load, uplink, has, author, registry, room, store, faults>>

\* A frame that arrives while the room is awaited has no listener.
DropFrame(c) ==
    /\ conn[c].pc = "room" /\ conn[c].ws \in {"open", "closing"} /\ uplink[c] # <<>>
    /\ uplink' = [uplink EXCEPT ![c] = Tail(@)]
    /\ UNCHANGED <<acl, expired, conn, load, has, author, registry, room, store, faults>>

RoomOf(c) == CHOOSE r \in Conns : c \in room[r].members

OnFrame_ByKind(c) ==          \* mutant: the kind of the frame opens the gate
    /\ conn[c].pc = "live" /\ conn[c].ws \in {"open", "closing"} /\ uplink[c] # <<>>
    /\ uplink' = [uplink EXCEPT ![c] = Tail(@)]
    /\ LET f == Head(uplink[c])
           r == RoomOf(c)
       IN CASE conn[c].mode # "reader" /\ f.kind = "body" ->
                 /\ room' = [room EXCEPT ![r].body = @ \cup {f.edit}]
                 /\ has' = Sent(room[r].members \ {c}, {f.edit})
            [] conn[c].mode # "reader" /\ f.kind = "draft" ->
                 /\ room' = [room EXCEPT ![r].drafts = @ \cup {f.edit}]
                 /\ UNCHANGED has
            [] conn[c].mode = "reader" -> UNCHANGED <<room, has>>
    /\ UNCHANGED <<acl, expired, conn, load, author, registry, store, faults>>

OnFrame_ToWriters(c) ==       \* mutant: body updates go the way drafts go
    /\ conn[c].pc = "live" /\ conn[c].ws \in {"open", "closing"} /\ uplink[c] # <<>>
    /\ uplink' = [uplink EXCEPT ![c] = Tail(@)]
    /\ LET f == Head(uplink[c])
           r == RoomOf(c)
           us == {u \in {f.edit} : f.kind = "body"}
       IN CASE conn[c].mode = "writer" ->
                 /\ room' = [room EXCEPT ![r].body = @ \cup us]
                 /\ has' = Sent({d \in room[r].members \ {c} : conn[d].mode = "writer"},
                                us)
            [] conn[c].mode = "proposer" ->
                 /\ room' = [room EXCEPT ![r].drafts = @ \cup {f.edit}]
                 /\ UNCHANGED has
            [] conn[c].mode = "reader" -> UNCHANGED <<room, has>>
    /\ UNCHANGED <<acl, expired, conn, load, author, registry, store, faults>>

\* The gate looks at the mode the gateway holds, not at the kind of frame; so
\* a draft frame of a proposer made writer goes to the body as it is, and the
\* four zero bytes its draftId starts with decode to nothing.
OnFrame(c) ==
    /\ conn[c].pc = "live" /\ conn[c].ws \in {"open", "closing"} /\ uplink[c] # <<>>
    /\ uplink' = [uplink EXCEPT ![c] = Tail(@)]
    /\ LET f == Head(uplink[c])
           r == RoomOf(c)
           us == {u \in {f.edit} : f.kind = "body"}
       IN CASE conn[c].mode = "writer" ->
                 /\ room' = [room EXCEPT ![r].body = @ \cup us]
                 /\ has' = Sent(room[r].members \ {c}, us)
            [] conn[c].mode = "proposer" ->
                 /\ room' = [room EXCEPT ![r].drafts = @ \cup {f.edit}]
                 /\ UNCHANGED has
            [] conn[c].mode = "reader" -> UNCHANGED <<room, has>>
    /\ UNCHANGED <<acl, expired, conn, load, author, registry, store, faults>>

Closing(c) == [conn EXCEPT ![c].ws = IF @ = "open" THEN "closing" ELSE @]

\* heartbeatTick up to the database, and from its answer on.  A tick does not
\* wait for the one before it.
TickStart(c, k) ==
    /\ conn[c].pc = "live" /\ load[c][k] = "idle"
    /\ IF c \in expired THEN conn' = Closing(c) /\ UNCHANGED load
                        ELSE load' = [load EXCEPT ![c][k] = acl.now[c]] /\ UNCHANGED conn
    /\ UNCHANGED <<acl, expired, uplink, has, author, registry, room, store, faults>>

TickApply_Quiet(c, k) ==      \* mutant: the client is not told of a change
    /\ conn[c].pc = "live" /\ load[c][k] # "idle"
    /\ conn' = IF load[c][k] = "none" THEN Closing(c)
               ELSE [conn EXCEPT ![c].mode = load[c][k]]
    /\ load' = [load EXCEPT ![c][k] = "idle"]
    /\ UNCHANGED <<acl, expired, uplink, has, author, registry, room, store, faults>>

TickApply(c, k) ==
    /\ conn[c].pc = "live" /\ load[c][k] # "idle"
    /\ conn' = IF load[c][k] = "none" THEN Closing(c)
               ELSE [conn EXCEPT ![c] = Granted(@, load[c][k])]
    /\ load' = [load EXCEPT ![c][k] = "idle"]
    /\ UNCHANGED <<acl, expired, uplink, has, author, registry, room, store, faults>>

Gone(c) == [room EXCEPT ![RoomOf(c)].members = @ \ {c}]

\* The socket closes: the client left, the network broke, or a close of the
\* gateway's is through.  Before Join there is no listener to hear of it.
Close(c) ==
    /\ conn[c].ws \in {"open", "closing"}
    /\ conn' = [conn EXCEPT ![c] = IF @.pc = "room" THEN [@ EXCEPT !.ws = "closed"] ELSE PastConn]
    /\ uplink' = [uplink EXCEPT ![c] = <<>>] /\ has' = [has EXCEPT ![c] = {}]
    /\ load' = [load EXCEPT ![c] = [k \in Slots |-> "idle"]]
    /\ room' = IF conn[c].pc = "live" THEN Gone(c) ELSE room
    /\ UNCHANGED <<acl, expired, author, registry, store, faults>>

-----------------------------------------------------------------------------
(* The y-sweet provider, and the process.                                  *)

SyncOut(r) ==
    /\ registry.room = r /\ ~(Body(r) \subseteq store)
    /\ store' = store \cup Body(r)
    /\ UNCHANGED <<acl, expired, conn, load, uplink, has, author, registry, room, faults>>

SyncIn_AtStart(r, u) ==       \* mutant: listens only until the first member is in
    /\ registry.room = r /\ u \in store \ Body(r)
    /\ room[r].members = {}
    /\ room' = [room EXCEPT ![r].body = @ \cup {u}]
    /\ UNCHANGED <<acl, expired, conn, load, uplink, has, author, registry, store, faults>>

\* What the server has and the room's document lacks arrives, and goes to all.
SyncIn(r, u) ==
    /\ registry.room = r /\ u \in store \ Body(r)
    /\ room' = [room EXCEPT ![r].body = @ \cup {u}]
    /\ has' = Sent(room[r].members, {u})
    /\ UNCHANGED <<acl, expired, conn, load, uplink, author, registry, store, faults>>

\* A rejection nobody handles, of a heartbeat's read or of a handshake's, ends
\* the process; it is started again.
Crash ==
    /\ faults < MaxFaults /\ faults' = faults + 1
    /\ \E c \in Conns : conn[c].pc = "auth" \/ \E k \in Slots : load[c][k] # "idle"
    /\ conn' = [c \in Conns |-> IF conn[c].pc = "off" THEN conn[c]
                                ELSE PastConn]
    /\ load' = [c \in Conns |-> [k \in Slots |-> "idle"]]
    /\ uplink' = [c \in Conns |-> <<>>]
    /\ registry' = [room |-> "none", pending |-> "none"]
    /\ room' = [r \in Conns |-> NewRoom]
    /\ has' = [c \in Conns |-> {}]
    /\ UNCHANGED <<acl, expired, author, store>>

-----------------------------------------------------------------------------
Tick(c)    == \E k \in Slots : TickStart(c, k) \/ TickApply(c, k)
Deliver(c) == HearMode(c) \/ OnFrame(c) \/ SyncOut(c) \/ \E u \in Edits : SyncIn(c, u)

Next ==
    \/ \E c \in Conns :
          \/ Expire(c) \/ Authenticate(c) \/ Upgrade(c) \/ BuildDone(c) \/ BuildFails(c)
          \/ DropFrame(c) \/ Close(c) \/ Deliver(c) \/ Tick(c)
          \/ \E v \in Acl : ChangeAcl(c, v)
          \/ \E u \in Edits : Edit(c, u)
    \/ \E u \in Edits : EditElsewhere(u)
    \/ Crash

Spec == Init /\ [][Next]_vars

\* The heartbeat's timer fires and some read of its returns (one may hang); what
\* is on a socket arrives, the provider's to y-sweet among them.
Fairness == \A c \in Conns : WF_vars(Tick(c)) /\ WF_vars(Deliver(c))

FairSpec == Spec /\ Fairness
-----------------------------------------------------------------------------
(* Properties.                                                             *)

\* However arrivals, builds and closes interleave, the members of all rooms are in
\* the one room the registry has, and none is one whose close the gateway has heard.
\* (The close of a socket whose room is still being built it does not hear.)
OneRoom ==
    \A r, c \in Conns : c \in room[r].members => registry.room = r /\ conn[c].pc = "live"

\* A member whose socket is open has what its room's body has, whichever frames
\* and updates came between its joining and its backlog.
NobodyLags ==
    \A r, c \in Conns : c \in room[r].members /\ IsOpen(c) => Body(r) \subseteq has[c]

\* Whatever frames were sent before the first MODE_SET or around a change of
\* mode, a body holds no edit of a client that was at no time a writer.
OnlyWritersChangeTheBody ==
    \A r \in Conns : \A u \in Body(r) \cup store :
        author[u] \in Conns => "writer" \in acl.ever[author[u]]

\* When the access list is at rest, no client is left without access or with a
\* token that ran out, and gateway and client agree on the mode the list grants,
\* however the heartbeats' reads overtook each other.
AccessSettles ==
    <>[](\A c \in Conns : Live(c) =>
            /\ c \notin expired /\ acl.now[c] # "none"
            /\ conn[c].mode = acl.now[c] /\ conn[c].client = acl.now[c])

\* All clients that stay connected get what the server has and what a body has,
\* and the server gets what a body has.
Converges ==
    <>[](\A c, r \in Conns : /\ Body(r) \subseteq store
                             /\ Live(c) => store \subseteq has[c])
=============================================================================
