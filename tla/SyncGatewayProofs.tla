--------------------------- MODULE SyncGatewayProofs ---------------------------
(***************************************************************************)
(* What the gateway guarantees for any number of clients, edits, reads     *)
(* under way, changes of the access list and faults.  The invariant adds   *)
(* to the types who is a member of what (Membership), whose the frames on  *)
(* their way are (Backlog), and where modes and updates come from          *)
(* (ModesGranted, Written).                                                *)
(***************************************************************************)
EXTENDS SyncGateway, SnapshotWorker, TLAPS, FiniteSetTheorems, WellFoundedInduction

ConnRec == [pc : {"off", "auth", "room", "live", "gone"},
            ws : {"none", "open", "closing", "closed"},
            mode : Acl, client : Modes \cup {"unset"}, told : Seq(Modes),
            waits : Conns \cup {"none"}]
RoomRec == [members : SUBSET Conns, body : SUBSET Edits, drafts : SUBSET Edits]

\* TypeOK, with the records and functions it is about.
Types ==
    /\ acl \in [now : [Conns -> Acl], ever : [Conns -> SUBSET Modes], changes : 0 .. MaxChanges]
    /\ expired \subseteq Conns
    /\ conn \in [Conns -> ConnRec]
    /\ load \in [Conns -> [Slots -> Acl \cup {"idle"}]]
    /\ uplink \in [Conns -> Seq(Frame)]
    /\ has \in [Conns -> SUBSET Edits]
    /\ author \in [Edits -> Conns \cup {"nobody", "external"}]
    /\ registry \in [room : Conns \cup {"none"}, pending : Conns \cup {"none"}]
    /\ room \in [Conns -> RoomRec]
    /\ store \subseteq Edits /\ faults \in 0 .. MaxFaults

\* The members are the live connections, all in the registry's room; who waits,
\* waits for the build the registry has, and then there is no room yet.
Membership ==
    /\ \A r, c \in Conns : c \in room[r].members <=> registry.room = r /\ conn[c].pc = "live"
    /\ \A c \in Conns : conn[c].pc = "live" => registry.room \in Conns
    /\ \A c \in Conns : conn[c].pc = "room" =>
          registry.room = "none" /\ conn[c].waits \in Conns /\ registry.pending = conn[c].waits

\* A frame's edit is its sender's, who has it.
Backlog ==
    \A c \in Conns : \A i \in DOMAIN uplink[c] :
        uplink[c][i].edit \in has[c] /\ author[uplink[c][i].edit] = c

\* Every mode in use or read was granted at some time, and who is authenticated
\* has one.
ModesGranted ==
    \A c \in Conns :
        /\ conn[c].pc \in {"auth", "room", "live"} => conn[c].mode # "none"
        /\ acl.now[c] # "none" => acl.now[c] \in acl.ever[c]
        /\ conn[c].mode # "none" => conn[c].mode \in acl.ever[c]
        /\ \A k \in Slots : load[c][k] \notin {"none", "idle"} => load[c][k] \in acl.ever[c]

\* What bodies and server hold was made, and by a client only if it may write.
Written ==
    \A r \in Conns : \A u \in Body(r) \cup store :
        /\ author[u] # "nobody"
        /\ author[u] \in Conns => "writer" \in acl.ever[author[u]]

IInv == Types /\ Membership /\ NobodyLags /\ Backlog /\ ModesGranted /\ Written

-----------------------------------------------------------------------------
\* The empty gateway, with what the access list grants at first.
LEMMA InitIInv == Init => IInv
<1> SUFFICES ASSUME Init PROVE IInv
    OBVIOUS
<1> USE ConstantsOK DEF Init
<1>1. Types
  <2>1. acl \in [now : [Conns -> Acl], ever : [Conns -> SUBSET Modes], changes : 0 .. MaxChanges]
    BY DEF Modes
  <2>2. conn \in [Conns -> ConnRec]
    BY DEF NewConn, ConnRec, Acl
  <2>3. load \in [Conns -> [Slots -> Acl \cup {"idle"}]] /\ uplink \in [Conns -> Seq(Frame)]
    OBVIOUS
  <2>4. room \in [Conns -> RoomRec] /\ registry \in [room : Conns \cup {"none"}, pending : Conns \cup {"none"}]
    BY DEF NewRoom, RoomRec
  <2>. QED BY <2>1, <2>2, <2>3, <2>4 DEF Types
<1>2. Membership
  BY DEF Membership, NewConn, NewRoom
<1>3. NobodyLags /\ Backlog
  BY DEF NobodyLags, Backlog, NewConn, NewRoom
<1>4. ModesGranted
  BY DEF ModesGranted, NewConn, Acl
<1>5. Written
  BY DEF Written, Body, NewRoom
<1>. QED BY <1>1, <1>2, <1>3, <1>4, <1>5 DEF IInv

\* A step, by the operation it is of.
LEMMA Steps ==
    ASSUME Next
    PROVE  \/ \E c \in Conns :
                 \/ Expire(c) \/ Authenticate(c) \/ Upgrade(c) \/ BuildDone(c) \/ BuildFails(c)
                 \/ DropFrame(c) \/ Close(c) \/ HearMode(c) \/ OnFrame(c) \/ SyncOut(c)
                 \/ \E u \in Edits : SyncIn(c, u) \/ Edit(c, u)
                 \/ \E k \in Slots : TickStart(c, k) \/ TickApply(c, k)
                 \/ \E v \in Acl : ChangeAcl(c, v)
           \/ \E u \in Edits : EditElsewhere(u)
           \/ Crash
BY DEF Next, Deliver, Tick

-----------------------------------------------------------------------------
(* Types.                                                                  *)

\* The records of connections stay what they are, and which fields change how.
LEMMA AdmittedRec ==
    ASSUME NEW k \in ConnRec, NEW mode \in Modes
    PROVE  /\ Admitted(k, mode) \in ConnRec /\ Admitted(k, mode).pc = "auth"
           /\ Admitted(k, mode).mode = mode /\ Admitted(k, mode).ws = k.ws
<1>1. mode \in Acl
  BY DEF Acl
<1>. QED BY <1>1, Zenon DEF Admitted, ConnRec

\* A socket that opens has a build to wait for.
LEMMA OpenedRec ==
    ASSUME NEW k \in ConnRec, NEW b \in Conns
    PROVE  /\ Opened(k, b) \in ConnRec /\ Opened(k, b).pc = "room" /\ Opened(k, b).waits = b
           /\ Opened(k, b).ws = "open" /\ Opened(k, b).mode = k.mode
BY Zenon DEF Opened, ConnRec

\* A member keeps the mode it was let in with, and its socket the state it had.
LEMMA JoinedRec ==
    ASSUME NEW k \in ConnRec
    PROVE  /\ k.mode # "none" => Joined(k) \in ConnRec
           /\ Joined(k).pc = "live" /\ Joined(k).ws = k.ws /\ Joined(k).mode = k.mode
<1>1. k.mode # "none" => Append(k.told, k.mode) \in Seq(Modes)
  BY DEF ConnRec, Acl
<1>. QED BY <1>1, Zenon DEF Joined, ConnRec

\* No open socket is left to a connection whose build failed.
LEMMA RefusedRec ==
    ASSUME NEW k \in ConnRec
    PROVE  /\ Refused(k) \in ConnRec /\ Refused(k).pc = "gone" /\ Refused(k).ws # "open"
           /\ Refused(k).mode = k.mode
BY Zenon DEF Refused, ConnRec

\* Hearing a mode is the client's affair.
LEMMA HeardRec ==
    ASSUME NEW k \in ConnRec
    PROVE  /\ k.told # <<>> => Heard(k) \in ConnRec
           /\ Heard(k).pc = k.pc /\ Heard(k).ws = k.ws /\ Heard(k).mode = k.mode
           /\ Heard(k).waits = k.waits
<1>1. k.told # <<>> => Head(k.told) \in Modes /\ Tail(k.told) \in Seq(Modes)
  BY DEF ConnRec
<1>. QED BY <1>1, Zenon DEF Heard, ConnRec

\* A mode found by a heartbeat is taken over, and nothing else changes at the gateway.
LEMMA GrantedRec ==
    ASSUME NEW k \in ConnRec, NEW mode \in Modes
    PROVE  /\ Granted(k, mode) \in ConnRec /\ Granted(k, mode).mode = mode
           /\ Granted(k, mode).pc = k.pc /\ Granted(k, mode).ws = k.ws
           /\ Granted(k, mode).waits = k.waits
<1>1. Append(k.told, mode) \in Seq(Modes) /\ k.told \in Seq(Modes) /\ mode \in Acl
  BY DEF ConnRec, Acl
<1>. QED BY <1>1, Zenon DEF Granted, ConnRec

\* A connection that is over has no mode and no socket.
LEMMA PastRec ==
    /\ PastConn \in ConnRec /\ PastConn.pc = "gone" /\ PastConn.ws = "closed"
    /\ PastConn.mode = "none"
<1>1. <<>> \in Seq(Modes)
  OBVIOUS
<1>. QED BY <1>1, Zenon DEF PastConn, NewConn, ConnRec, Acl

\* A socket changes state on its own.
LEMMA SocketCloses ==
    ASSUME NEW k \in ConnRec, NEW w \in {"none", "open", "closing", "closed"}
    PROVE  LET new == [k EXCEPT !.ws = w]
           IN  /\ new \in ConnRec /\ new.ws = w /\ new.pc = k.pc /\ new.mode = k.mode
               /\ new.waits = k.waits
BY Zenon DEF ConnRec

\* So do the rooms', whichever field is written.
LEMMA MembersWritten ==
    ASSUME Types, NEW r \in Conns, NEW new \in SUBSET Conns,
           room' = [room EXCEPT ![r].members = new]
    PROVE  /\ room' \in [Conns -> RoomRec]
           /\ \A q \in Conns : /\ room'[q].members = IF q = r THEN new ELSE room[q].members
                               /\ room'[q].body = room[q].body
<1>1. room[r] \in RoomRec
  BY DEF Types
<1>2. /\ [room[r] EXCEPT !.members = new] \in RoomRec
      /\ [room[r] EXCEPT !.members = new].members = new
      /\ [room[r] EXCEPT !.members = new].body = room[r].body
  BY <1>1, Zenon DEF RoomRec
<1>. QED BY <1>2 DEF Types

\* A body.
LEMMA BodyWritten ==
    ASSUME Types, NEW r \in Conns, NEW new \in SUBSET Edits,
           room' = [room EXCEPT ![r].body = new]
    PROVE  /\ room' \in [Conns -> RoomRec]
           /\ \A q \in Conns : /\ room'[q].members = room[q].members
                               /\ room'[q].body = IF q = r THEN new ELSE room[q].body
<1>1. room[r] \in RoomRec
  BY DEF Types
<1>2. /\ [room[r] EXCEPT !.body = new] \in RoomRec
      /\ [room[r] EXCEPT !.body = new].members = room[r].members
      /\ [room[r] EXCEPT !.body = new].body = new
  BY <1>1, Zenon DEF RoomRec
<1>. QED BY <1>2 DEF Types

\* The drafts.
LEMMA DraftsWritten ==
    ASSUME Types, NEW r \in Conns, NEW new \in SUBSET Edits,
           room' = [room EXCEPT ![r].drafts = new]
    PROVE  /\ room' \in [Conns -> RoomRec]
           /\ \A q \in Conns : /\ room'[q].members = room[q].members
                               /\ room'[q].body = room[q].body
<1>1. room[r] \in RoomRec
  BY DEF Types
<1>2. /\ [room[r] EXCEPT !.drafts = new] \in RoomRec
      /\ [room[r] EXCEPT !.drafts = new].members = room[r].members
      /\ [room[r] EXCEPT !.drafts = new].body = room[r].body
  BY <1>1, Zenon DEF RoomRec
<1>. QED BY <1>2 DEF Types

\* A room's fields are sets of connections and of edits.
LEMMA RoomFields ==
    ASSUME Types, NEW r \in Conns
    PROVE  /\ room[r].members \in SUBSET Conns /\ room[r].body \in SUBSET Edits
           /\ room[r].drafts \in SUBSET Edits
BY DEF Types, RoomRec

\* A close asked for changes a socket that is open, and no more.
LEMMA ClosingRec ==
    ASSUME Types, NEW c \in Conns
    PROVE  /\ Closing(c) \in [Conns -> ConnRec]
           /\ \A d \in Conns : /\ Closing(c)[d].pc = conn[d].pc /\ Closing(c)[d].mode = conn[d].mode
                               /\ Closing(c)[d].waits = conn[d].waits
                               /\ Closing(c)[d].ws = "open" => conn[d].ws = "open"
<1>. DEFINE w == IF conn[c].ws = "open" THEN "closing" ELSE conn[c].ws
            new == [conn[c] EXCEPT !.ws = w]
<1>1. conn[c] \in ConnRec
  BY DEF Types
<1>2. w \in {"none", "open", "closing", "closed"} /\ w # "open"
  BY <1>1 DEF ConnRec
<1>3. Closing(c) = [conn EXCEPT ![c] = new]
  BY DEF Closing
<1>. HIDE DEF w
<1>4. new \in ConnRec /\ new.ws = w /\ new.pc = conn[c].pc /\ new.mode = conn[c].mode
      /\ new.waits = conn[c].waits
  BY <1>1, <1>2, SocketCloses
<1>. HIDE DEF new
<1>. QED BY <1>2, <1>3, <1>4 DEF Types

\* A live connection's room is the registry's.
LEMMA RoomOfLive ==
    ASSUME Types, Membership, NEW c \in Conns, conn[c].pc = "live"
    PROVE  RoomOf(c) = registry.room /\ registry.room \in Conns
<1>1. registry.room \in Conns /\ c \in room[registry.room].members
  BY DEF Membership
<1>2. \A r \in Conns : c \in room[r].members => r = registry.room
  BY DEF Membership
<1>. QED BY <1>1, <1>2 DEF RoomOf

-----------------------------------------------------------------------------
(* What the steps with several cases do.                                   *)

\* Who joins a room is a member of it, and its body stays.
LEMMA JoinEffect ==
    ASSUME Types, NEW cn \in [Conns -> ConnRec], NEW r \in Conns, NEW cs \in SUBSET Conns,
           Join(cn, r, cs), \A c \in cs : cn[c].mode # "none"
    PROVE  /\ conn' \in [Conns -> ConnRec] /\ room' \in [Conns -> RoomRec]
           /\ has' \in [Conns -> SUBSET Edits]
           /\ \A c \in Conns : /\ c \in cs => conn'[c].pc = "live"
                               /\ c \notin cs => conn'[c] = cn[c]
                               /\ conn'[c].ws = cn[c].ws /\ conn'[c].mode = cn[c].mode
           /\ \A q \in Conns :
                 /\ room'[q].members = IF q = r THEN room[q].members \cup cs ELSE room[q].members
                 /\ room'[q].body = room[q].body
<1>1. conn' \in [Conns -> ConnRec]
  BY JoinedRec DEF Join
<1>2. \A c \in Conns : /\ c \in cs => conn'[c].pc = "live"
                       /\ c \notin cs => conn'[c] = cn[c]
                       /\ conn'[c].ws = cn[c].ws /\ conn'[c].mode = cn[c].mode
  BY JoinedRec DEF Join
<1>3. /\ room' \in [Conns -> RoomRec]
      /\ \A q \in Conns :
            /\ room'[q].members = IF q = r THEN room[q].members \cup cs ELSE room[q].members
            /\ room'[q].body = room[q].body
  <2>. DEFINE new == room[r].members \cup cs
  <2>1. new \in SUBSET Conns
    BY RoomFields
  <2>2. room' = [room EXCEPT ![r].members = new]
    BY DEF Join
  <2>. HIDE DEF new
  <2>3. /\ room' \in [Conns -> RoomRec]
        /\ \A q \in Conns : /\ room'[q].members = IF q = r THEN new ELSE room[q].members
                            /\ room'[q].body = room[q].body
    BY <2>1, <2>2, MembersWritten
  <2>. QED BY <2>3 DEF new
<1>4. has' \in [Conns -> SUBSET Edits]
  BY RoomFields DEF Join, Types, Body
<1>. QED BY <1>1, <1>2, <1>3, <1>4

\* A handshake ends in the room there is, with its body, or in waiting for one.
LEMMA UpgradeEffect ==
    ASSUME Types, ModesGranted, NEW c \in Conns, Upgrade(c)
    PROVE  /\ conn' \in [Conns -> ConnRec] /\ room' \in [Conns -> RoomRec]
           /\ has' \in [Conns -> SUBSET Edits]
           /\ registry' \in [room : Conns \cup {"none"}, pending : Conns \cup {"none"}]
           /\ conn[c].pc = "auth" /\ conn'[c].ws = "open" /\ conn'[c].mode = conn[c].mode
           /\ \A d \in Conns : d # c => conn'[d] = conn[d]
           /\ \A q \in Conns : room'[q].body = room[q].body
           /\ \/ /\ registry.room \in Conns /\ registry' = registry /\ conn'[c].pc = "live"
                 /\ \A d \in Conns : has'[d] = IF d = c THEN has[c] \cup Body(registry.room) ELSE has[d]
                 /\ \A q \in Conns : room'[q].members = IF q = registry.room THEN room[q].members \cup {c}
                                                        ELSE room[q].members
              \/ /\ registry.room = "none" /\ UNCHANGED <<room, has>>
                 /\ conn'[c].pc = "room" /\ conn'[c].waits \in Conns
                 /\ registry'.room = "none" /\ registry'.pending = conn'[c].waits
                 /\ registry.pending # "none" => conn'[c].waits = registry.pending
<1>. DEFINE builder == IF registry.pending = "none" THEN c ELSE registry.pending
            cn == [conn EXCEPT ![c] = Opened(@, builder)]
<1>1. conn[c] \in ConnRec /\ builder \in Conns /\ conn[c].pc = "auth" /\ conn[c].mode # "none"
  BY DEF Upgrade, Types, ModesGranted
<1>2. /\ cn \in [Conns -> ConnRec] /\ cn[c].pc = "room" /\ cn[c].waits = builder
      /\ cn[c].ws = "open" /\ cn[c].mode = conn[c].mode
      /\ \A d \in Conns : d # c => cn[d] = conn[d]
  <2>1. /\ Opened(conn[c], builder) \in ConnRec /\ Opened(conn[c], builder).pc = "room"
        /\ Opened(conn[c], builder).waits = builder /\ Opened(conn[c], builder).ws = "open"
        /\ Opened(conn[c], builder).mode = conn[c].mode
    BY <1>1, OpenedRec
  <2>. QED BY <2>1 DEF Types
<1>3. registry.pending # "none" => builder = registry.pending
  OBVIOUS
<1>4. CASE registry.room # "none" /\ Join(cn, registry.room, {c}) /\ UNCHANGED registry
  <2>. DEFINE r == registry.room
              cs == {c}
  <2>1. Join(cn, r, cs) /\ cs \in SUBSET Conns /\ \A d \in cs : cn[d].mode # "none"
    BY <1>1, <1>2, <1>4
  <2>2. r \in Conns /\ registry' = registry /\ cn \in [Conns -> ConnRec]
    BY <1>2, <1>4 DEF Types
  <2>3. \A d \in Conns : has'[d] = IF d = c THEN has[c] \cup Body(r) ELSE has[d]
    BY <1>2, <1>4 DEF Join, Types
  <2>. HIDE DEF r, cs, cn
  <2>4. /\ conn' \in [Conns -> ConnRec] /\ room' \in [Conns -> RoomRec]
        /\ has' \in [Conns -> SUBSET Edits]
        /\ \A d \in Conns : /\ d \in cs => conn'[d].pc = "live"
                            /\ d \notin cs => conn'[d] = cn[d]
                            /\ conn'[d].ws = cn[d].ws /\ conn'[d].mode = cn[d].mode
        /\ \A q \in Conns :
              /\ room'[q].members = IF q = r THEN room[q].members \cup cs ELSE room[q].members
              /\ room'[q].body = room[q].body
    BY <2>1, <2>2, JoinEffect
  <2>5. \A d \in Conns : /\ d = c => conn'[d].pc = "live"
                         /\ d # c => conn'[d] = cn[d]
    BY <2>4 DEF cs
  <2>6. \A q \in Conns : room'[q].members = IF q = r THEN room[q].members \cup {c} ELSE room[q].members
    BY <2>4 DEF cs
  <2>7. /\ conn'[c].pc = "live" /\ conn'[c].ws = "open" /\ conn'[c].mode = conn[c].mode
        /\ \A d \in Conns : d # c => conn'[d] = conn[d]
    BY <1>2, <2>4, <2>5
  <2>8. registry' \in [room : Conns \cup {"none"}, pending : Conns \cup {"none"}]
    BY <2>2 DEF Types
  <2>9. /\ registry.room \in Conns
        /\ \A d \in Conns : has'[d] = IF d = c THEN has[c] \cup Body(registry.room) ELSE has[d]
        /\ \A q \in Conns : room'[q].members = IF q = registry.room THEN room[q].members \cup {c}
                                               ELSE room[q].members
    BY <2>2, <2>3, <2>6 DEF r
  <2>. QED BY <1>1, <2>2, <2>4, <2>7, <2>8, <2>9
<1>5. CASE /\ registry.room = "none" /\ registry' = [registry EXCEPT !.pending = builder]
           /\ conn' = cn /\ UNCHANGED <<room, has>>
  <2>. HIDE DEF cn, builder
  <2>. QED BY <1>1, <1>2, <1>3, <1>5 DEF Types
<1>. QED BY <1>4, <1>5 DEF Upgrade

\* A frame leaves the bodies alone, or is a writer's and reaches all other members.
LEMMA FrameEffect ==
    ASSUME Types, Membership, ModesGranted, NEW c \in Conns, OnFrame(c)
    PROVE  /\ Head(uplink[c]) \in Frame /\ uplink' = [uplink EXCEPT ![c] = Tail(@)]
           /\ room' \in [Conns -> RoomRec] /\ has' \in [Conns -> SUBSET Edits]
           /\ \A q \in Conns : room'[q].members = room[q].members
           /\ \/ has' = has /\ \A q \in Conns : room'[q].body = room[q].body
              \/ /\ conn[c].mode = "writer"
                 /\ \E us \in SUBSET {Head(uplink[c]).edit} :
                       /\ has' = Sent(room[registry.room].members \ {c}, us)
                       /\ \A q \in Conns : room'[q].body = IF q = registry.room
                                                           THEN room[q].body \cup us ELSE room[q].body
<1>. DEFINE f == Head(uplink[c])
            r == registry.room
<1>1. f \in Frame /\ f.edit \in Edits /\ uplink' = [uplink EXCEPT ![c] = Tail(@)]
  <2>1. f \in Frame /\ uplink' = [uplink EXCEPT ![c] = Tail(@)]
    BY DEF OnFrame, Types
  <2>. QED BY <2>1 DEF Frame
<1>2. RoomOf(c) = r /\ r \in Conns
  BY RoomOfLive DEF OnFrame
<1>3. CASE conn[c].mode = "writer"
  <2>. DEFINE us == {u \in {f.edit} : f.kind = "body"}
              new == room[r].body \cup us
  <2>1. us \in SUBSET {f.edit} /\ us \in SUBSET Edits /\ new \in SUBSET Edits
    BY <1>1, <1>2, RoomFields
  <2>2. room' = [room EXCEPT ![r].body = new] /\ has' = Sent(room[r].members \ {c}, us)
    BY <1>2, <1>3 DEF OnFrame
  <2>. HIDE DEF f, r, us, new
  <2>3. /\ room' \in [Conns -> RoomRec]
        /\ \A q \in Conns : /\ room'[q].members = room[q].members
                            /\ room'[q].body = IF q = r THEN new ELSE room[q].body
    BY <1>2, <2>1, <2>2, BodyWritten
  <2>4. has' \in [Conns -> SUBSET Edits]
    BY <2>1, <2>2 DEF Sent, Types
  <2>5. \A q \in Conns : room'[q].body = IF q = r THEN room[q].body \cup us ELSE room[q].body
    BY <2>3 DEF new
  <2>. QED BY <1>1, <1>3, <2>1, <2>2, <2>3, <2>4, <2>5 DEF f, r
<1>4. CASE conn[c].mode = "proposer"
  <2>. DEFINE new == room[r].drafts \cup {f.edit}
  <2>1. new \in SUBSET Edits
    BY <1>1, <1>2, RoomFields
  <2>2. room' = [room EXCEPT ![r].drafts = new] /\ has' = has
    BY <1>2, <1>4 DEF OnFrame
  <2>. HIDE DEF f, r, new
  <2>3. /\ room' \in [Conns -> RoomRec]
        /\ \A q \in Conns : /\ room'[q].members = room[q].members
                            /\ room'[q].body = room[q].body
    BY <1>2, <2>1, <2>2, DraftsWritten
  <2>. QED BY <1>1, <2>2, <2>3 DEF f, Types
<1>5. CASE conn[c].mode = "reader"
  BY <1>1, <1>5 DEF OnFrame, Types
<1>6. conn[c].mode \in Modes
  BY DEF OnFrame, ModesGranted, Types, ConnRec, Acl
<1>. QED BY <1>3, <1>4, <1>5, <1>6 DEF Modes

\* A close is heard of a member, and of nobody who waits.
LEMMA CloseEffect ==
    ASSUME Types, Membership, NEW c \in Conns, Close(c)
    PROVE  /\ conn' \in [Conns -> ConnRec] /\ room' \in [Conns -> RoomRec]
           /\ conn'[c].ws = "closed" /\ \A d \in Conns : d # c => conn'[d] = conn[d]
           /\ conn'[c].mode \in {"none", conn[c].mode}
           /\ IF conn[c].pc = "room"
                THEN conn'[c].pc = "room" /\ conn'[c].waits = conn[c].waits
                     /\ conn'[c].mode = conn[c].mode
                ELSE conn'[c].pc = "gone"
           /\ \A q \in Conns : /\ room'[q].body = room[q].body
                               /\ room'[q].members = IF conn[c].pc = "live" /\ q = registry.room
                                                       THEN room[q].members \ {c} ELSE room[q].members
<1>1. conn[c] \in ConnRec /\ DOMAIN conn = Conns
  BY DEF Types
<1>2. CASE conn[c].pc = "room"
  <2>. DEFINE new == [conn[c] EXCEPT !.ws = "closed"]
  <2>1. /\ new \in ConnRec /\ new.ws = "closed" /\ new.pc = conn[c].pc
        /\ new.mode = conn[c].mode /\ new.waits = conn[c].waits
    BY <1>1, SocketCloses
  <2>2. conn' = [conn EXCEPT ![c] = new] /\ room' = room
    BY <1>2 DEF Close
  <2>. HIDE DEF new
  <2>. QED BY <1>2, <2>1, <2>2 DEF Types
<1>3. CASE conn[c].pc # "room"
  <2>1. conn' = [conn EXCEPT ![c] = PastConn]
    BY <1>3 DEF Close
  <2>2. /\ conn' \in [Conns -> ConnRec] /\ conn'[c].ws = "closed" /\ conn'[c].pc = "gone"
        /\ conn'[c].mode = "none" /\ \A d \in Conns : d # c => conn'[d] = conn[d]
    BY <2>1, PastRec DEF Types
  <2>3. CASE conn[c].pc = "live"
    <3>. DEFINE r == registry.room
                new == room[r].members \ {c}
    <3>1. RoomOf(c) = r /\ r \in Conns /\ new \in SUBSET Conns
      BY <2>3, RoomOfLive, RoomFields
    <3>2. room' = [room EXCEPT ![r].members = new]
      BY <2>3, <3>1 DEF Close, Gone
    <3>. HIDE DEF r, new
    <3>3. /\ room' \in [Conns -> RoomRec]
          /\ \A q \in Conns : /\ room'[q].members = IF q = r THEN new ELSE room[q].members
                              /\ room'[q].body = room[q].body
      BY <3>1, <3>2, MembersWritten
    <3>. QED BY <1>3, <2>2, <2>3, <3>3 DEF r, new
  <2>4. CASE conn[c].pc # "live"
    <3>1. room' = room
      BY <2>4 DEF Close
    <3>. QED BY <1>3, <2>2, <2>4, <3>1 DEF Types
  <2>. QED BY <2>3, <2>4
<1>. QED BY <1>2, <1>3

\* One update enters one body.
LEMMA SyncInEffect ==
    ASSUME Types, NEW r \in Conns, NEW u \in Edits, SyncIn(r, u)
    PROVE  /\ room' \in [Conns -> RoomRec] /\ has' \in [Conns -> SUBSET Edits]
           /\ \A q \in Conns : /\ room'[q].members = room[q].members
                               /\ room'[q].body = IF q = r THEN room[q].body \cup {u} ELSE room[q].body
<1>. DEFINE new == room[r].body \cup {u}
<1>1. new \in SUBSET Edits /\ room' = [room EXCEPT ![r].body = new]
  BY RoomFields DEF SyncIn
<1>. HIDE DEF new
<1>2. /\ room' \in [Conns -> RoomRec]
      /\ \A q \in Conns : /\ room'[q].members = room[q].members
                          /\ room'[q].body = IF q = r THEN new ELSE room[q].body
  BY <1>1, BodyWritten
<1>3. has' \in [Conns -> SUBSET Edits]
  BY DEF SyncIn, Sent, Types
<1>. QED BY <1>2, <1>3 DEF new

-----------------------------------------------------------------------------
(* A step keeps the types.  (That a mode is there to be told needs         *)
(* ModesGranted.)                                                          *)

\* Every step keeps the types.
LEMMA TypeStep ==
    ASSUME Types, Membership, ModesGranted, [Next]_vars
    PROVE  Types'
<1>. USE DEF Types
<1>1. ASSUME NEW c \in Conns, Expire(c) PROVE Types'
  <2>1. acl.changes + 1 \in 0 .. MaxChanges
    BY <1>1, ConstantsOK DEF Expire
  <2>2. acl' \in [now : [Conns -> Acl], ever : [Conns -> SUBSET Modes], changes : 0 .. MaxChanges]
    <3>1. acl' = [acl EXCEPT !.changes = acl.changes + 1]
      BY <1>1 DEF Expire
    <3>. QED BY <2>1, <3>1, Zenon
  <2>. QED BY <1>1, <2>2 DEF Expire
<1>2. ASSUME NEW c \in Conns, Authenticate(c) PROVE Types'
  <2>1. conn' \in [Conns -> ConnRec]
    <3>1. acl.now[c] # "none" => Admitted(conn[c], acl.now[c]) \in ConnRec
      BY AdmittedRec DEF Acl
    <3>. QED BY <1>2, <3>1, PastRec DEF Authenticate
  <2>. QED BY <1>2, <2>1 DEF Authenticate
<1>3. ASSUME NEW c \in Conns, Upgrade(c) PROVE Types'
  BY <1>3, UpgradeEffect DEF Upgrade
<1>4. ASSUME NEW r \in Conns, BuildDone(r) PROVE Types'
  <2>1. /\ conn' \in [Conns -> ConnRec] /\ room' \in [Conns -> RoomRec]
        /\ has' \in [Conns -> SUBSET Edits]
    <3>1. Waiting(r) \in SUBSET Conns /\ \A c \in Waiting(r) : conn[c].mode # "none"
      BY DEF Waiting, ModesGranted
    <3>. QED BY <1>4, <3>1, JoinEffect DEF BuildDone
  <2>. QED BY <1>4, <2>1 DEF BuildDone
<1>5. ASSUME NEW r \in Conns, BuildFails(r) PROVE Types'
  <2>1. conn' \in [Conns -> ConnRec]
    BY <1>5, RefusedRec DEF BuildFails
  <2>2. registry' \in [room : Conns \cup {"none"}, pending : Conns \cup {"none"}]
    BY <1>5 DEF BuildFails
  <2>3. faults' \in 0 .. MaxFaults
    BY <1>5, ConstantsOK DEF BuildFails
  <2>. QED BY <1>5, <2>1, <2>2, <2>3 DEF BuildFails
<1>6. ASSUME NEW c \in Conns, DropFrame(c) PROVE Types'
  BY <1>6 DEF DropFrame
<1>7. ASSUME NEW c \in Conns, Close(c) PROVE Types'
  <2>1. conn' \in [Conns -> ConnRec] /\ room' \in [Conns -> RoomRec]
    BY <1>7, CloseEffect
  <2>3. load' \in [Conns -> [Slots -> Acl \cup {"idle"}]]
    BY <1>7 DEF Close
  <2>4. uplink' \in [Conns -> Seq(Frame)] /\ has' \in [Conns -> SUBSET Edits]
    BY <1>7 DEF Close
  <2>. QED BY <1>7, <2>1, <2>3, <2>4 DEF Close
<1>8. ASSUME NEW c \in Conns, HearMode(c) PROVE Types'
  <2>1. conn' \in [Conns -> ConnRec]
    BY <1>8, HeardRec DEF HearMode
  <2>. QED BY <1>8, <2>1 DEF HearMode
<1>9. ASSUME NEW c \in Conns, OnFrame(c) PROVE Types'
  <2>1. uplink' \in [Conns -> Seq(Frame)]
    BY <1>9 DEF OnFrame
  <2>. QED BY <1>9, <2>1, FrameEffect DEF OnFrame
<1>10. ASSUME NEW r \in Conns, SyncOut(r) PROVE Types'
  BY <1>10 DEF SyncOut, RoomRec, Body
<1>11. ASSUME NEW r \in Conns, NEW u \in Edits, SyncIn(r, u) PROVE Types'
  BY <1>11, SyncInEffect DEF SyncIn
<1>12. ASSUME NEW c \in Conns, NEW u \in Edits, Edit(c, u) PROVE Types'
  <2>1. uplink' \in [Conns -> Seq(Frame)]
    <3>. DEFINE d == [kind |-> "draft", edit |-> u]
                b == [kind |-> "body", edit |-> u]
    <3>1. d \in Frame /\ b \in Frame
      BY DEF Frame
    <3>. HIDE DEF d, b
    <3>2. Append(uplink[c], d) \in Seq(Frame) /\ Append(uplink[c], b) \in Seq(Frame)
      BY <3>1
    <3>3. \/ uplink' = uplink
          \/ uplink' = [uplink EXCEPT ![c] = Append(uplink[c], d)]
          \/ uplink' = [uplink EXCEPT ![c] = Append(uplink[c], b)]
      BY <1>12 DEF Edit, ConnRec, Modes, d, b
    <3>. QED BY <3>2, <3>3
  <2>. QED BY <1>12, <2>1 DEF Edit
<1>13. ASSUME NEW c \in Conns, NEW k \in Slots, TickStart(c, k) PROVE Types'
  <2>1. Closing(c) \in [Conns -> ConnRec]
    BY ClosingRec
  <2>2. load' \in [Conns -> [Slots -> Acl \cup {"idle"}]]
    <3>1. [load[c] EXCEPT ![k] = acl.now[c]] \in [Slots -> Acl \cup {"idle"}]
      OBVIOUS
    <3>. QED BY <1>13, <3>1 DEF TickStart
  <2>. QED BY <1>13, <2>1, <2>2 DEF TickStart
<1>14. ASSUME NEW c \in Conns, NEW k \in Slots, TickApply(c, k) PROVE Types'
  <2>1. Closing(c) \in [Conns -> ConnRec]
    BY ClosingRec
  <2>2. conn' \in [Conns -> ConnRec]
    <3>1. load[c][k] # "none" => load[c][k] \in Modes
      BY <1>14 DEF TickApply, Acl
    <3>2. load[c][k] # "none" => Granted(conn[c], load[c][k]) \in ConnRec
      BY <3>1, GrantedRec
    <3>. QED BY <1>14, <2>1, <3>2 DEF TickApply
  <2>. QED BY <1>14, <2>2 DEF TickApply
<1>15. ASSUME NEW c \in Conns, NEW v \in Acl, ChangeAcl(c, v) PROVE Types'
  BY <1>15, ConstantsOK DEF ChangeAcl
<1>16. ASSUME NEW u \in Edits, EditElsewhere(u) PROVE Types'
  BY <1>16 DEF EditElsewhere
<1>17. CASE Crash
  <2>1. conn' \in [Conns -> ConnRec]
    BY <1>17, PastRec DEF Crash
  <2>2. room' \in [Conns -> RoomRec]
    BY <1>17 DEF Crash, NewRoom, RoomRec
  <2>3. /\ load' \in [Conns -> [Slots -> Acl \cup {"idle"}]] /\ uplink' \in [Conns -> Seq(Frame)]
        /\ has' \in [Conns -> SUBSET Edits]
    BY <1>17 DEF Crash
  <2>. QED BY <1>17, <2>1, <2>2, <2>3, ConstantsOK DEF Crash
<1>18. CASE UNCHANGED vars
  BY <1>18 DEF vars
<1>. QED BY <1>1, <1>2, <1>3, <1>4, <1>5, <1>6, <1>7, <1>8, <1>9, <1>10, <1>11, <1>12, <1>13,
            <1>14, <1>15, <1>16, <1>17, <1>18, Steps

-----------------------------------------------------------------------------
(* Who is a member of what.                                                *)

\* The steps that touch neither who is where nor the registry.
LEMMA Unmoved ==
    ASSUME Types, Membership, UNCHANGED registry,
           \A c \in Conns : conn'[c].pc = conn[c].pc /\ conn'[c].waits = conn[c].waits,
           \A r \in Conns : room'[r].members = room[r].members
    PROVE  Membership'
BY DEF Membership

\* Arrivals, builds, failures and closes keep members and registry together.
LEMMA MembershipStep ==
    ASSUME Types, Membership, ModesGranted, [Next]_vars
    PROVE  Membership'
<1>0. conn \in [Conns -> ConnRec]
  BY DEF Types
<1>1. ASSUME NEW c \in Conns, Expire(c) \/ DropFrame(c) \/ SyncOut(c) PROVE Membership'
  BY <1>1 DEF Expire, DropFrame, SyncOut, Membership
<1>2. ASSUME NEW c \in Conns, Authenticate(c) PROVE Membership'
  <2>1. /\ conn' = [conn EXCEPT ![c] = conn'[c]] /\ conn'[c].pc \in {"auth", "gone"}
        /\ conn[c].pc = "off"
    <3>1. conn[c] \in ConnRec /\ PastConn.pc = "gone"
      BY <1>0, PastRec
    <3>2. acl.now[c] # "none" => Admitted(conn[c], acl.now[c]).pc = "auth"
      BY <3>1, AdmittedRec DEF Acl, Types
    <3>. QED BY <1>0, <1>2, <3>1, <3>2 DEF Authenticate
  <2>. QED BY <1>2, <2>1 DEF Authenticate, Membership
<1>3. ASSUME NEW c \in Conns, Upgrade(c) PROVE Membership'
  <2>1. \A d \in Conns : d # c => conn'[d] = conn[d]
    BY <1>3, UpgradeEffect
  <2>2. CASE /\ registry.room \in Conns /\ registry' = registry /\ conn'[c].pc = "live"
             /\ \A q \in Conns : room'[q].members = IF q = registry.room THEN room[q].members \cup {c}
                                                    ELSE room[q].members
    <3>1. \A d \in Conns : conn[d].pc # "room" /\ conn'[d].pc # "room"
      BY <2>1, <2>2, ConstantsOK DEF Membership
    <3>2. \A d \in Conns : conn'[d].pc = "live" <=> d = c \/ conn[d].pc = "live"
      BY <2>1, <2>2
    <3>3. ASSUME NEW q \in Conns, NEW d \in Conns
          PROVE  d \in room'[q].members <=> registry'.room = q /\ conn'[d].pc = "live"
      <4>1. d \in room[q].members <=> registry.room = q /\ conn[d].pc = "live"
        BY DEF Membership
      <4>2. d \in room'[q].members <=> d \in room[q].members \/ (q = registry.room /\ d = c)
        BY <2>2
      <4>. QED BY <2>2, <3>2, <4>1, <4>2
    <3>. QED BY <2>2, <3>1, <3>3 DEF Membership
  <2>3. CASE /\ registry.room = "none" /\ UNCHANGED <<room, has>>
             /\ conn'[c].pc = "room" /\ conn'[c].waits \in Conns
             /\ registry'.room = "none" /\ registry'.pending = conn'[c].waits
             /\ registry.pending # "none" => conn'[c].waits = registry.pending
    <3>1. \A d \in Conns : conn[d].pc # "live" /\ conn'[d].pc # "live"
      BY <2>1, <2>3, ConstantsOK DEF Membership
    <3>2. \A d \in Conns : conn[d].pc = "room" =>
             conn[d].waits \in Conns /\ conn[d].waits = registry'.pending
      BY <2>3, ConstantsOK DEF Membership
    <3>. QED BY <2>1, <2>3, <3>1, <3>2, ConstantsOK DEF Membership
  <2>. QED BY <1>3, <2>2, <2>3, UpgradeEffect
<1>4. ASSUME NEW r \in Conns, BuildDone(r) PROVE Membership'
  <2>1. registry.room = "none" /\ registry.pending = r
    BY <1>4 DEF BuildDone, Waiting, Membership
  <2>2. Waiting(r) = {c \in Conns : conn[c].pc = "room"}
    BY <2>1 DEF Waiting, Membership
  <2>3. \A c \in Conns : conn[c].pc # "live"
    BY <2>1, ConstantsOK DEF Membership
  <2>4. \A c \in Conns : /\ conn'[c].pc = "live" <=> c \in Waiting(r)
                         /\ conn'[c].pc # "room"
    <3>1. \A c \in Conns : Joined(conn[c]).pc = "live"
      BY <1>0, JoinedRec
    <3>. QED BY <1>4, <2>2, <2>3, <3>1 DEF BuildDone, Join
  <2>5. \A q, c \in Conns : c \notin room[q].members
    BY <2>3 DEF Membership
  <2>6. registry'.room = r /\ Join(conn, r, Waiting(r))
    BY <1>4 DEF BuildDone
  <2>7. Waiting(r) \in SUBSET Conns /\ \A c \in Waiting(r) : conn[c].mode # "none"
    BY DEF Waiting, ModesGranted
  <2>8. \A q \in Conns : room'[q].members = IF q = r THEN room[q].members \cup Waiting(r)
                                                 ELSE room[q].members
    <3>. DEFINE cs == Waiting(r)
    <3>1. Join(conn, r, cs) /\ cs \in SUBSET Conns /\ \A c \in cs : conn[c].mode # "none"
      BY <2>6, <2>7
    <3>. HIDE DEF cs
    <3>2. \A q \in Conns :
             /\ room'[q].members = IF q = r THEN room[q].members \cup cs ELSE room[q].members
             /\ room'[q].body = room[q].body
      BY <1>0, <3>1, JoinEffect
    <3>. QED BY <3>2 DEF cs
  <2>9. ASSUME NEW q \in Conns, NEW d \in Conns
        PROVE  d \in room'[q].members <=> registry'.room = q /\ conn'[d].pc = "live"
    <3>1. d \in room'[q].members <=> q = r /\ d \in Waiting(r)
      BY <2>5, <2>8
    <3>. QED BY <2>4, <2>6, <3>1
  <2>. QED BY <2>4, <2>6, <2>9 DEF Membership
<1>5. ASSUME NEW r \in Conns, BuildFails(r) PROVE Membership'
  <2>1. registry.room = "none" /\ registry.pending = r
    BY <1>5 DEF BuildFails, Waiting, Membership
  <2>2. Waiting(r) = {c \in Conns : conn[c].pc = "room"}
    BY <2>1 DEF Waiting, Membership
  <2>3. \A c \in Conns : conn'[c].pc # "room" /\ (conn'[c].pc = "live" <=> conn[c].pc = "live")
    BY <1>0, <1>5, <2>2, RefusedRec DEF BuildFails
  <2>. QED BY <1>5, <2>3 DEF BuildFails, Membership
<1>6. ASSUME NEW c \in Conns, Close(c) PROVE Membership'
  <2>1. registry' = registry
    BY <1>6 DEF Close
  <2>2. /\ \A d \in Conns : d # c => conn'[d] = conn[d]
        /\ IF conn[c].pc = "room" THEN conn'[c].pc = "room" /\ conn'[c].waits = conn[c].waits
                                  ELSE conn'[c].pc = "gone"
        /\ \A q \in Conns : room'[q].members = IF conn[c].pc = "live" /\ q = registry.room
                                                THEN room[q].members \ {c} ELSE room[q].members
    BY <1>6, CloseEffect
  <2>3. \A d \in Conns : /\ conn'[d].pc = "live" <=> d # c /\ conn[d].pc = "live"
                         /\ conn'[d].pc = "room" <=> conn[d].pc = "room"
                         /\ conn'[d].pc = "room" => conn'[d].waits = conn[d].waits
    BY <2>2
  <2>4. ASSUME NEW q \in Conns, NEW d \in Conns
        PROVE  d \in room'[q].members <=> registry'.room = q /\ conn'[d].pc = "live"
    <3>1. /\ d \in room[q].members <=> registry.room = q /\ conn[d].pc = "live"
          /\ c \in room[q].members <=> registry.room = q /\ conn[c].pc = "live"
      BY DEF Membership
    <3>2. d \in room'[q].members <=>
             d \in room[q].members /\ ~(conn[c].pc = "live" /\ q = registry.room /\ d = c)
      BY <2>2
    <3>. QED BY <2>1, <2>3, <3>1, <3>2
  <2>. QED BY <2>1, <2>3, <2>4 DEF Membership
<1>7. ASSUME NEW c \in Conns, HearMode(c) PROVE Membership'
  <2>1. \A d \in Conns : conn'[d].pc = conn[d].pc /\ conn'[d].waits = conn[d].waits
    <3>1. Heard(conn[c]).pc = conn[c].pc /\ Heard(conn[c]).waits = conn[c].waits
      BY <1>0, HeardRec
    <3>. QED BY <1>7, <3>1 DEF HearMode
  <2>. QED BY <1>7, <2>1, Unmoved DEF HearMode
<1>8. ASSUME NEW c \in Conns, OnFrame(c) PROVE Membership'
  BY <1>8, FrameEffect, Unmoved DEF OnFrame
<1>9. ASSUME NEW r \in Conns, NEW u \in Edits, SyncIn(r, u) PROVE Membership'
  BY <1>9, SyncInEffect, Unmoved DEF SyncIn
<1>10. ASSUME NEW c \in Conns, NEW k \in Slots, TickStart(c, k) \/ TickApply(c, k)
       PROVE  Membership'
  <2>1. \A d \in Conns : /\ Closing(c)[d].pc = conn[d].pc
                         /\ Closing(c)[d].waits = conn[d].waits
    <3>1. \A d \in Conns : /\ Closing(c)[d].pc = conn[d].pc /\ Closing(c)[d].mode = conn[d].mode
                           /\ Closing(c)[d].waits = conn[d].waits
                           /\ Closing(c)[d].ws = "open" => conn[d].ws = "open"
      BY ClosingRec
    <3>. QED BY <3>1
  <2>2. \A d \in Conns : conn'[d].pc = conn[d].pc /\ conn'[d].waits = conn[d].waits
    <3>1. CASE TickStart(c, k)
      BY <2>1, <3>1 DEF TickStart
    <3>2. CASE TickApply(c, k)
      <4>1. load[c][k] # "none" => load[c][k] \in Modes
        BY <3>2 DEF TickApply, Acl, Types
      <4>2. load[c][k] # "none" => /\ Granted(conn[c], load[c][k]).pc = conn[c].pc
                                   /\ Granted(conn[c], load[c][k]).waits = conn[c].waits
        BY <1>0, <4>1, GrantedRec
      <4>. QED BY <2>1, <3>2, <4>2 DEF TickApply
    <3>. QED BY <1>10, <3>1, <3>2
  <2>. QED BY <1>10, <2>2, Unmoved DEF TickStart, TickApply
<1>11. ASSUME NEW c \in Conns, NEW v \in Acl, ChangeAcl(c, v) PROVE Membership'
  BY <1>11 DEF ChangeAcl, Membership
<1>12. ASSUME NEW u \in Edits, EditElsewhere(u) \/ \E c \in Conns : Edit(c, u) PROVE Membership'
  BY <1>12, Unmoved DEF EditElsewhere, Edit
<1>13. CASE Crash
  <2>1. \A c \in Conns : conn'[c].pc \in {"off", "gone"}
    BY <1>13, PastRec DEF Crash
  <2>2. \A r \in Conns : room'[r].members = {}
    BY <1>13 DEF Crash, NewRoom
  <2>. QED BY <2>1, <2>2 DEF Membership
<1>14. CASE UNCHANGED vars
  BY <1>14 DEF vars, Membership
<1>. QED BY <1>1, <1>2, <1>3, <1>4, <1>5, <1>6, <1>7, <1>8, <1>9, <1>10, <1>11, <1>12, <1>13,
            <1>14, Steps

-----------------------------------------------------------------------------
(* What members and frames hold.                                           *)

\* A document that grows and a body that does not leave nobody behind.
LEMMA NoneLeftBehind ==
    ASSUME NobodyLags,
           \A c \in Conns : conn'[c].ws = "open" => conn[c].ws = "open" /\ has[c] \subseteq has'[c],
           \A r \in Conns : /\ room'[r].members \subseteq room[r].members
                            /\ room'[r].body = room[r].body
    PROVE  NobodyLags'
BY DEF NobodyLags, IsOpen, Body

\* Every step that adds to a body or a room keeps the members even with it.
LEMMA LagStep ==
    ASSUME Types, Membership, Membership', ModesGranted, NobodyLags, Backlog, [Next]_vars
    PROVE  NobodyLags'
<1>0. conn \in [Conns -> ConnRec] /\ has \in [Conns -> SUBSET Edits]
  BY DEF Types
<1>1. ASSUME NEW c \in Conns, Expire(c) \/ DropFrame(c) \/ SyncOut(c) PROVE NobodyLags'
  BY <1>1, NoneLeftBehind DEF Expire, DropFrame, SyncOut
<1>2. ASSUME NEW c \in Conns, Authenticate(c) PROVE NobodyLags'
  <2>1. acl.now[c] # "none" => Admitted(conn[c], acl.now[c]).ws = conn[c].ws
    BY <1>0, AdmittedRec DEF Acl, Types
  <2>2. \A d \in Conns : conn'[d].ws = "open" => conn[d].ws = "open"
    BY <1>0, <1>2, <2>1, PastRec DEF Authenticate
  <2>. QED BY <1>2, <2>2, NoneLeftBehind DEF Authenticate
<1>3. ASSUME NEW c \in Conns, Upgrade(c) PROVE NobodyLags'
  <2>1. /\ conn[c].pc = "auth" /\ \A d \in Conns : d # c => conn'[d] = conn[d]
        /\ \A q \in Conns : room'[q].body = room[q].body
    BY <1>3, UpgradeEffect
  <2>2. CASE /\ registry.room \in Conns /\ registry' = registry
             /\ \A d \in Conns : has'[d] = IF d = c THEN has[c] \cup Body(registry.room) ELSE has[d]
             /\ \A q \in Conns : room'[q].members = IF q = registry.room THEN room[q].members \cup {c}
                                                    ELSE room[q].members
    <3>1. ASSUME NEW q \in Conns, NEW d \in Conns, d \in room'[q].members, conn'[d].ws = "open"
          PROVE  room'[q].body \subseteq has'[d]
      <4>1. CASE d = c
        <5>1. q = registry.room
          BY <2>2, <3>1 DEF Membership
        <5>. QED BY <2>1, <2>2, <4>1, <5>1 DEF Body
      <4>2. CASE d # c
        <5>1. d \in room[q].members /\ conn[d].ws = "open"
          <6>1. d \in room'[q].members => d \in room[q].members \/ d = c
            BY <2>2
          <6>. QED BY <2>1, <3>1, <4>2, <6>1
        <5>. QED BY <2>1, <2>2, <4>2, <5>1 DEF NobodyLags, IsOpen, Body
      <4>. QED BY <4>1, <4>2
    <3>. QED BY <3>1 DEF NobodyLags, IsOpen, Body
  <2>3. CASE registry.room = "none" /\ UNCHANGED <<room, has>>
    <3>1. \A q, d \in Conns : d \notin room[q].members
      BY <2>3, ConstantsOK DEF Membership
    <3>. QED BY <2>3, <3>1 DEF NobodyLags
  <2>. QED BY <1>3, <2>2, <2>3, UpgradeEffect
<1>4. ASSUME NEW r \in Conns, BuildDone(r) PROVE NobodyLags'
  <2>. DEFINE cs == Waiting(r)
  <2>1. Join(conn, r, cs) /\ cs \in SUBSET Conns /\ \A c \in cs : conn[c].mode # "none"
    BY <1>4 DEF BuildDone, Waiting, ModesGranted
  <2>2. registry.room = "none"
    BY <1>4 DEF BuildDone, Waiting, Membership
  <2>3. \A q, d \in Conns : d \notin room[q].members
    BY <2>2, ConstantsOK DEF Membership
  <2>4. \A d \in Conns : has'[d] = IF d \in cs /\ conn[d].ws = "open" THEN has[d] \cup Body(r) ELSE has[d]
    BY <1>0, <2>1 DEF Join
  <2>. HIDE DEF cs
  <2>5. /\ \A c \in Conns : /\ c \in cs => conn'[c].pc = "live"
                            /\ c \notin cs => conn'[c] = conn[c]
                            /\ conn'[c].ws = conn[c].ws /\ conn'[c].mode = conn[c].mode
        /\ \A q \in Conns :
              /\ room'[q].members = IF q = r THEN room[q].members \cup cs ELSE room[q].members
              /\ room'[q].body = room[q].body
    BY <1>0, <2>1, JoinEffect
  <2>6. ASSUME NEW q \in Conns, NEW d \in Conns, d \in room'[q].members, conn'[d].ws = "open"
        PROVE  room'[q].body \subseteq has'[d]
    <3>1. q = r /\ d \in cs /\ conn[d].ws = "open"
      BY <2>3, <2>5, <2>6
    <3>. QED BY <2>4, <2>5, <3>1 DEF Body
  <2>. QED BY <2>6 DEF NobodyLags, IsOpen, Body
<1>5. ASSUME NEW r \in Conns, BuildFails(r) PROVE NobodyLags'
  <2>1. \A d \in Conns : conn'[d].ws = "open" => conn[d].ws = "open"
    BY <1>0, <1>5, RefusedRec DEF BuildFails
  <2>. QED BY <1>5, <2>1, NoneLeftBehind DEF BuildFails
<1>6. ASSUME NEW c \in Conns, Close(c) PROVE NobodyLags'
  <2>1. /\ conn'[c].ws = "closed" /\ \A d \in Conns : d # c => conn'[d] = conn[d]
        /\ \A q \in Conns : /\ room'[q].body = room[q].body
                            /\ room'[q].members = IF conn[c].pc = "live" /\ q = registry.room
                                                    THEN room[q].members \ {c} ELSE room[q].members
    BY <1>6, CloseEffect
  <2>2. \A d \in Conns : d # c => has'[d] = has[d]
    BY <1>0, <1>6 DEF Close
  <2>3. \A q \in Conns : room'[q].members \subseteq room[q].members
    BY <2>1
  <2>. QED BY <2>1, <2>2, <2>3, NoneLeftBehind
<1>7. ASSUME NEW c \in Conns, HearMode(c) PROVE NobodyLags'
  <2>1. \A d \in Conns : conn'[d].ws = conn[d].ws
    BY <1>0, <1>7, HeardRec DEF HearMode
  <2>. QED BY <1>7, <2>1, NoneLeftBehind DEF HearMode
<1>8. ASSUME NEW c \in Conns, OnFrame(c) PROVE NobodyLags'
  <2>1. conn' = conn /\ uplink[c] # <<>> /\ conn[c].pc = "live"
    BY <1>8 DEF OnFrame
  <2>2. \A q \in Conns : room'[q].members = room[q].members
    BY <1>8, FrameEffect
  <2>3. CASE has' = has /\ \A q \in Conns : room'[q].body = room[q].body
    BY <2>1, <2>2, <2>3, NoneLeftBehind
  <2>4. ASSUME NEW us \in SUBSET {Head(uplink[c]).edit},
               has' = Sent(room[registry.room].members \ {c}, us),
               \A q \in Conns : room'[q].body = IF q = registry.room
                                                 THEN room[q].body \cup us ELSE room[q].body
        PROVE  NobodyLags'
    <3>1. us \subseteq has[c]
      <4>1. 1 \in DOMAIN uplink[c] /\ Head(uplink[c]) = uplink[c][1]
        BY <2>1 DEF Types
      <4>. QED BY <2>4, <4>1 DEF Backlog
    <3>2. ASSUME NEW q \in Conns, NEW d \in Conns, d \in room'[q].members, conn'[d].ws = "open"
          PROVE  room'[q].body \subseteq has'[d]
      <4>1. q = registry.room /\ d \in room[q].members /\ conn[d].ws = "open"
        BY <2>1, <2>2, <3>2 DEF Membership
      <4>2. room[q].body \subseteq has[d]
        BY <4>1 DEF NobodyLags, IsOpen, Body
      <4>3. has[d] \cup us \subseteq has'[d]
        BY <2>4, <3>1, <4>1 DEF Sent, IsOpen
      <4>. QED BY <2>4, <4>1, <4>2, <4>3
    <3>. QED BY <3>2 DEF NobodyLags, IsOpen, Body
  <2>. QED BY <1>8, <2>3, <2>4, FrameEffect
<1>9. ASSUME NEW r \in Conns, NEW u \in Edits, SyncIn(r, u) PROVE NobodyLags'
  <2>1. conn' = conn /\ registry.room = r /\ has' = Sent(room[r].members, {u})
    BY <1>9 DEF SyncIn
  <2>2. \A q \in Conns : /\ room'[q].members = room[q].members
                         /\ room'[q].body = IF q = r THEN room[q].body \cup {u} ELSE room[q].body
    BY <1>9, SyncInEffect
  <2>3. ASSUME NEW q \in Conns, NEW d \in Conns, d \in room'[q].members, conn'[d].ws = "open"
        PROVE  room'[q].body \subseteq has'[d]
    <3>1. q = r /\ d \in room[q].members /\ conn[d].ws = "open"
      BY <2>1, <2>2, <2>3 DEF Membership
    <3>2. room[q].body \subseteq has[d]
      BY <3>1 DEF NobodyLags, IsOpen, Body
    <3>3. has'[d] = has[d] \cup {u}
      BY <2>1, <3>1 DEF Sent, IsOpen
    <3>. QED BY <2>2, <3>1, <3>2, <3>3
  <2>. QED BY <2>3 DEF NobodyLags, IsOpen, Body
<1>10. ASSUME NEW c \in Conns, NEW k \in Slots, TickStart(c, k) \/ TickApply(c, k)
       PROVE  NobodyLags'
  <2>1. \A d \in Conns : conn'[d].ws = "open" => conn[d].ws = "open"
    <3>1. \A d \in Conns : Closing(c)[d].ws = "open" => conn[d].ws = "open"
      BY ClosingRec
    <3>2. CASE TickStart(c, k)
      BY <3>1, <3>2 DEF TickStart
    <3>3. CASE TickApply(c, k)
      <4>1. load[c][k] # "none" => load[c][k] \in Modes
        BY <3>3 DEF TickApply, Acl, Types
      <4>2. load[c][k] # "none" => Granted(conn[c], load[c][k]).ws = conn[c].ws
        BY <1>0, <4>1, GrantedRec
      <4>. QED BY <1>0, <3>1, <3>3, <4>2 DEF TickApply
    <3>. QED BY <1>10, <3>2, <3>3
  <2>. QED BY <1>10, <2>1, NoneLeftBehind DEF TickStart, TickApply
<1>11. ASSUME NEW c \in Conns, NEW v \in Acl, ChangeAcl(c, v) PROVE NobodyLags'
  BY <1>11, NoneLeftBehind DEF ChangeAcl
<1>12. ASSUME NEW u \in Edits, NEW c \in Conns, Edit(c, u) PROVE NobodyLags'
  BY <1>0, <1>12, NoneLeftBehind DEF Edit
<1>13. ASSUME NEW u \in Edits, EditElsewhere(u) PROVE NobodyLags'
  BY <1>13, NoneLeftBehind DEF EditElsewhere
<1>14. CASE Crash
  BY <1>14 DEF Crash, NewRoom, NobodyLags
<1>15. CASE UNCHANGED vars
  BY <1>15, NoneLeftBehind DEF vars
<1>. QED BY <1>1, <1>2, <1>3, <1>4, <1>5, <1>6, <1>7, <1>8, <1>9, <1>10, <1>11, <1>12, <1>13,
            <1>14, <1>15, Steps

\* Frames go out as they came in, and their edits' author stays who it was.
LEMMA FramesKept ==
    ASSUME Types, Backlog, \A c \in Conns : has[c] \subseteq has'[c],
           \A u \in Edits : author[u] \in Conns => author'[u] = author[u],
           UNCHANGED uplink \/ \E c \in Conns : uplink[c] # <<>> /\ uplink' = [uplink EXCEPT ![c] = Tail(@)]
    PROVE  Backlog'
<1>1. ASSUME NEW d \in Conns, NEW i \in DOMAIN uplink'[d]
      PROVE  \E j \in DOMAIN uplink[d] : uplink'[d][i] = uplink[d][j]
  <2>1. CASE uplink' = uplink
    BY <1>1, <2>1
  <2>2. ASSUME NEW c \in Conns, uplink[c] # <<>>, uplink' = [uplink EXCEPT ![c] = Tail(@)]
        PROVE  \E j \in DOMAIN uplink[d] : uplink'[d][i] = uplink[d][j]
    <3>1. CASE d = c
      <4>1. uplink[c] \in Seq(Frame) /\ uplink'[d] = Tail(uplink[c])
        BY <2>2, <3>1 DEF Types
      <4>2. i + 1 \in DOMAIN uplink[c] /\ Tail(uplink[c])[i] = uplink[c][i + 1]
        <5>. DEFINE fs == uplink[c]
        <5>1. fs \in Seq(Frame) /\ fs # <<>> /\ i \in DOMAIN Tail(fs)
          BY <1>1, <2>2, <4>1
        <5>. HIDE DEF fs
        <5>2. i + 1 \in DOMAIN fs /\ Tail(fs)[i] = fs[i + 1]
          BY <5>1
        <5>. QED BY <5>2 DEF fs
      <4>. QED BY <3>1, <4>1, <4>2
    <3>2. CASE d # c
      BY <1>1, <2>2, <3>2 DEF Types
    <3>. QED BY <3>1, <3>2
  <2>. QED BY <2>1, <2>2
<1>2. ASSUME NEW d \in Conns, NEW i \in DOMAIN uplink'[d]
      PROVE  uplink'[d][i].edit \in has'[d] /\ author'[uplink'[d][i].edit] = d
  <2>1. PICK j \in DOMAIN uplink[d] : uplink'[d][i] = uplink[d][j]
    BY <1>1
  <2>2. uplink[d][j] \in Frame
    BY DEF Types
  <2>. QED BY <2>1, <2>2 DEF Backlog, Frame
<1>. QED BY <1>2 DEF Backlog

\* Frames stay their senders' work.
LEMMA BacklogStep ==
    ASSUME Types, Membership, ModesGranted, Backlog, [Next]_vars
    PROVE  Backlog'
<1>0. has \in [Conns -> SUBSET Edits] /\ uplink \in [Conns -> Seq(Frame)]
  BY DEF Types
<1>1. ASSUME NEW c \in Conns, \/ Expire(c) \/ Authenticate(c) \/ BuildFails(c) \/ HearMode(c)
                              \/ SyncOut(c) \/ DropFrame(c)
                              \/ \E k \in Slots : TickStart(c, k) \/ TickApply(c, k)
                              \/ \E v \in Acl : ChangeAcl(c, v)
      PROVE  Backlog'
  BY <1>1, FramesKept DEF Expire, Authenticate, BuildFails, HearMode, SyncOut, DropFrame, TickStart,
        TickApply, ChangeAcl
<1>2. ASSUME NEW c \in Conns, Upgrade(c) PROVE Backlog'
  <2>1. \A d \in Conns : has[d] \subseteq has'[d]
    BY <1>2, UpgradeEffect
  <2>. QED BY <1>2, <2>1, FramesKept DEF Upgrade
<1>3. ASSUME NEW r \in Conns, BuildDone(r) PROVE Backlog'
  <2>1. \A d \in Conns : has[d] \subseteq has'[d]
    BY <1>0, <1>3 DEF BuildDone, Join
  <2>. QED BY <1>3, <2>1, FramesKept DEF BuildDone
<1>4. ASSUME NEW c \in Conns, Close(c) PROVE Backlog'
  <2>1. uplink'[c] = <<>> /\ \A d \in Conns : d # c => uplink'[d] = uplink[d] /\ has'[d] = has[d]
    BY <1>0, <1>4 DEF Close
  <2>2. author' = author
    BY <1>4 DEF Close
  <2>. QED BY <2>1, <2>2 DEF Backlog
<1>5. ASSUME NEW c \in Conns, OnFrame(c) PROVE Backlog'
  <2>1. \A d \in Conns : has[d] \subseteq has'[d]
    <3>1. \A cs \in SUBSET Conns : \A us : \A d \in Conns : has[d] \subseteq Sent(cs, us)[d]
      BY DEF Sent
    <3>2. \A r \in Conns : room[r].members \in SUBSET Conns
      BY RoomFields
    <3>3. registry.room \in Conns
      BY <1>5, RoomOfLive DEF OnFrame
    <3>4. \/ has' = has
          \/ \E us \in SUBSET {Head(uplink[c]).edit} : has' = Sent(room[registry.room].members \ {c}, us)
      BY <1>5, FrameEffect
    <3>5. room[registry.room].members \ {c} \in SUBSET Conns
      BY <3>2, <3>3
    <3>. QED BY <3>1, <3>4, <3>5
  <2>. QED BY <1>5, <2>1, FramesKept DEF OnFrame
<1>6. ASSUME NEW r \in Conns, NEW u \in Edits, SyncIn(r, u) PROVE Backlog'
  <2>1. \A d \in Conns : has[d] \subseteq has'[d]
    BY <1>6 DEF SyncIn, Sent
  <2>. QED BY <1>6, <2>1, FramesKept DEF SyncIn
<1>7. ASSUME NEW c \in Conns, NEW u \in Edits, Edit(c, u) PROVE Backlog'
  <2>1. /\ author[u] = "nobody" /\ author' = [author EXCEPT ![u] = c]
        /\ has' = [has EXCEPT ![c] = @ \cup {u}] /\ author'[u] = c
    BY <1>7 DEF Edit, Types
  <2>2. \A e \in Edits : author[e] \in Conns => author'[e] = author[e]
    BY <2>1, ConstantsOK DEF Types
  <2>3. \A d \in Conns : has[d] \subseteq has'[d]
    BY <1>0, <2>1
  <2>4. CASE UNCHANGED uplink
    BY <2>2, <2>3, <2>4, FramesKept
  <2>5. ASSUME NEW kind \in {"draft", "body"},
               uplink' = [uplink EXCEPT ![c] = Append(@, [kind |-> kind, edit |-> u])]
        PROVE  Backlog'
    <3>. DEFINE f == [kind |-> kind, edit |-> u]
    <3>1. f \in Frame /\ f.edit = u
      BY DEF Frame
    <3>. HIDE DEF f
    <3>2. uplink' = [uplink EXCEPT ![c] = Append(@, f)]
      BY <2>5 DEF f
    <3>3. ASSUME NEW d \in Conns, NEW i \in DOMAIN uplink'[d]
          PROVE  uplink'[d][i].edit \in has'[d] /\ author'[uplink'[d][i].edit] = d
      <4>1. \/ uplink'[d][i] = f /\ d = c
            \/ i \in DOMAIN uplink[d] /\ uplink'[d][i] = uplink[d][i]
        <5>1. CASE d = c
          <6>. DEFINE fs == uplink[c]
          <6>1. fs \in Seq(Frame) /\ uplink'[d] = Append(fs, f) /\ uplink[d] = fs
            BY <1>0, <3>2, <5>1
          <6>. HIDE DEF fs
          <6>2. (i \in DOMAIN fs /\ Append(fs, f)[i] = fs[i]) \/ Append(fs, f)[i] = f
            BY <3>1, <6>1
          <6>. QED BY <5>1, <6>1, <6>2
        <5>2. CASE d # c
          BY <1>0, <3>2, <5>2
        <5>. QED BY <5>1, <5>2
      <4>2. CASE uplink'[d][i] = f /\ d = c
        BY <1>0, <2>1, <3>1, <4>2
      <4>3. CASE i \in DOMAIN uplink[d] /\ uplink'[d][i] = uplink[d][i]
        <5>1. uplink[d][i] \in Frame
          BY <1>0, <4>3
        <5>2. /\ uplink[d][i].edit \in Edits
              /\ uplink[d][i].edit \in has[d] /\ author[uplink[d][i].edit] = d
          BY <4>3, <5>1 DEF Frame, Backlog
        <5>. QED BY <2>2, <2>3, <4>3, <5>2
      <4>. QED BY <4>1, <4>2, <4>3
    <3>. QED BY <3>3 DEF Backlog
  <2>6. conn[c].client \in {"unset", "writer", "proposer", "reader"}
    BY DEF Types, ConnRec, Modes
  <2>7. CASE conn[c].client = "reader"
    <3>1. uplink' = uplink
      BY <1>0, <1>7, <2>7 DEF Edit
    <3>. QED BY <2>4, <3>1
  <2>8. CASE conn[c].client = "proposer"
    BY <1>7, <2>5, <2>8 DEF Edit
  <2>9. CASE conn[c].client \in {"unset", "writer"}
    <3>1. uplink' = [uplink EXCEPT ![c] = Append(@, [kind |-> "body", edit |-> u])]
      BY <1>7, <2>9 DEF Edit
    <3>. QED BY <2>5, <3>1
  <2>. QED BY <2>6, <2>7, <2>8, <2>9
<1>8. ASSUME NEW u \in Edits, EditElsewhere(u) PROVE Backlog'
  <2>1. \A e \in Edits : author[e] \in Conns => author'[e] = author[e]
    BY <1>8, ConstantsOK DEF EditElsewhere, Types
  <2>. QED BY <1>8, <2>1, FramesKept DEF EditElsewhere
<1>9. CASE Crash
  BY <1>9 DEF Crash, Backlog
<1>10. CASE UNCHANGED vars
  BY <1>10, FramesKept DEF vars
<1>. QED BY <1>1, <1>2, <1>3, <1>4, <1>5, <1>6, <1>7, <1>8, <1>9, <1>10, Steps

-----------------------------------------------------------------------------
(* Where modes and updates come from.                                      *)

\* Who was granted a mode stays so.
LEMMA ModesKept ==
    ASSUME ModesGranted, UNCHANGED <<acl, load>>,
           \A c \in Conns : /\ conn'[c].mode \in {conn[c].mode, "none"}
                            /\ conn'[c].pc \in {"auth", "room", "live"} =>
                                 conn'[c].mode = conn[c].mode /\ conn[c].pc \in {"auth", "room", "live"}
    PROVE  ModesGranted'
BY DEF ModesGranted

\* A mode comes from the access list, at once or by a read that is under way.
LEMMA ModesStep ==
    ASSUME Types, Membership, ModesGranted, [Next]_vars
    PROVE  ModesGranted'
<1>0. /\ conn \in [Conns -> ConnRec] /\ load \in [Conns -> [Slots -> Acl \cup {"idle"}]]
      /\ acl.now \in [Conns -> Acl] /\ acl.ever \in [Conns -> SUBSET Modes]
  BY DEF Types
<1>1. ASSUME NEW c \in Conns, Expire(c) \/ DropFrame(c) \/ OnFrame(c) \/ SyncOut(c)
                              \/ \E u \in Edits : SyncIn(c, u) \/ Edit(c, u)
      PROVE  ModesGranted'
  <2>1. UNCHANGED <<conn, load>> /\ acl'.now = acl.now /\ acl'.ever = acl.ever
    BY <1>1 DEF Expire, DropFrame, OnFrame, SyncOut, SyncIn, Edit, Types
  <2>. QED BY <2>1 DEF ModesGranted
<1>2. ASSUME NEW c \in Conns, Authenticate(c) PROVE ModesGranted'
  <2>1. acl.now[c] # "none" => /\ Admitted(conn[c], acl.now[c]).mode = acl.now[c]
                               /\ acl.now[c] \in acl.ever[c]
    BY <1>0, AdmittedRec DEF Acl, ModesGranted
  <2>2. \/ conn' = [conn EXCEPT ![c] = PastConn]
        \/ acl.now[c] # "none" /\ conn' = [conn EXCEPT ![c] = Admitted(conn[c], acl.now[c])]
    BY <1>2 DEF Authenticate
  <2>3. UNCHANGED <<acl, load>>
    BY <1>2 DEF Authenticate
  <2>. QED BY <1>0, <2>1, <2>2, <2>3, PastRec DEF ModesGranted
<1>3. ASSUME NEW c \in Conns, Upgrade(c) PROVE ModesGranted'
  <2>1. /\ conn[c].pc = "auth" /\ conn'[c].mode = conn[c].mode
        /\ \A d \in Conns : d # c => conn'[d] = conn[d]
    BY <1>3, UpgradeEffect
  <2>. QED BY <1>3, <2>1, ModesKept DEF Upgrade
<1>4. ASSUME NEW r \in Conns, BuildDone(r) PROVE ModesGranted'
  <2>1. \A c \in Conns : /\ conn'[c].mode = conn[c].mode
                         /\ conn'[c].pc \in {"auth", "room", "live"} => conn[c].pc \in {"auth", "room", "live"}
    BY <1>0, <1>4, JoinedRec DEF BuildDone, Join, Waiting
  <2>. QED BY <1>4, <2>1, ModesKept DEF BuildDone
<1>5. ASSUME NEW r \in Conns, BuildFails(r) PROVE ModesGranted'
  <2>1. \A c \in Conns : /\ conn'[c].mode = conn[c].mode
                         /\ conn'[c].pc \in {"auth", "room", "live"} => conn[c].pc \in {"auth", "room", "live"}
    BY <1>0, <1>5, RefusedRec DEF BuildFails
  <2>. QED BY <1>5, <2>1, ModesKept DEF BuildFails
<1>6. ASSUME NEW c \in Conns, Close(c) PROVE ModesGranted'
  <2>1. /\ \A d \in Conns : d # c => conn'[d] = conn[d]
        /\ conn'[c].mode \in {"none", conn[c].mode}
        /\ IF conn[c].pc = "room"
             THEN conn'[c].pc = "room" /\ conn'[c].waits = conn[c].waits
                  /\ conn'[c].mode = conn[c].mode
             ELSE conn'[c].pc = "gone"
    BY <1>6, CloseEffect
  <2>2. /\ acl' = acl
        /\ \A d \in Conns : \A k \in Slots : load'[d][k] \in {load[d][k], "idle"}
    BY <1>0, <1>6 DEF Close
  <2>. QED BY <2>1, <2>2 DEF ModesGranted
<1>7. ASSUME NEW c \in Conns, HearMode(c) PROVE ModesGranted'
  <2>1. \A d \in Conns : conn'[d].mode = conn[d].mode /\ conn'[d].pc = conn[d].pc
    BY <1>0, <1>7, HeardRec DEF HearMode
  <2>. QED BY <1>7, <2>1, ModesKept DEF HearMode
<1>8. ASSUME NEW c \in Conns, NEW k \in Slots, TickStart(c, k) PROVE ModesGranted'
  <2>1. \A d \in Conns : /\ Closing(c)[d].pc = conn[d].pc /\ Closing(c)[d].mode = conn[d].mode
                         /\ Closing(c)[d].waits = conn[d].waits
                         /\ Closing(c)[d].ws = "open" => conn[d].ws = "open"
    BY ClosingRec
  <2>2. \A d \in Conns : conn'[d].mode = conn[d].mode /\ conn'[d].pc = conn[d].pc
    BY <1>8, <2>1 DEF TickStart
  <2>3. \A d \in Conns : \A j \in Slots : \/ load'[d][j] = load[d][j]
                                          \/ d = c /\ load'[d][j] = acl.now[c]
    BY <1>0, <1>8 DEF TickStart
  <2>4. acl' = acl
    BY <1>8 DEF TickStart
  <2>. QED BY <2>2, <2>3, <2>4 DEF ModesGranted
<1>9. ASSUME NEW c \in Conns, NEW k \in Slots, TickApply(c, k) PROVE ModesGranted'
  <2>1. \A d \in Conns : /\ Closing(c)[d].pc = conn[d].pc /\ Closing(c)[d].mode = conn[d].mode
                         /\ Closing(c)[d].waits = conn[d].waits
                         /\ Closing(c)[d].ws = "open" => conn[d].ws = "open"
    BY ClosingRec
  <2>2. load[c][k] # "none" => /\ load[c][k] \in acl.ever[c] /\ load[c][k] \in Modes
                               /\ Granted(conn[c], load[c][k]).mode = load[c][k]
                               /\ Granted(conn[c], load[c][k]).pc = conn[c].pc
    <3>1. load[c][k] # "none" => load[c][k] \in acl.ever[c] /\ load[c][k] \in Modes
      BY <1>0, <1>9 DEF TickApply, Acl, ModesGranted
    <3>. QED BY <1>0, <3>1, GrantedRec
  <2>3. CASE conn' = Closing(c) /\ load[c][k] = "none"
    <3>1. /\ acl' = acl
          /\ \A d \in Conns : \A j \in Slots : load'[d][j] \in {load[d][j], "idle"}
      BY <1>0, <1>9 DEF TickApply
    <3>. QED BY <2>1, <2>3, <3>1 DEF ModesGranted
  <2>4. CASE conn' = [conn EXCEPT ![c] = Granted(conn[c], load[c][k])] /\ load[c][k] # "none"
    <3>1. /\ acl' = acl
          /\ \A d \in Conns : \A j \in Slots : load'[d][j] \in {load[d][j], "idle"}
      BY <1>0, <1>9 DEF TickApply
    <3>2. /\ conn'[c].mode = load[c][k] /\ conn'[c].pc = conn[c].pc
          /\ \A d \in Conns : d # c => conn'[d] = conn[d]
      BY <1>0, <2>2, <2>4
    <3>. QED BY <2>2, <2>4, <3>1, <3>2 DEF ModesGranted
  <2>. QED BY <1>9, <2>3, <2>4 DEF TickApply
<1>10. ASSUME NEW c \in Conns, NEW v \in Acl, ChangeAcl(c, v) PROVE ModesGranted'
  <2>1. UNCHANGED <<conn, load>> /\ acl'.now = [acl.now EXCEPT ![c] = v]
        /\ acl'.ever = [acl.ever EXCEPT ![c] = @ \cup ({v} \cap Modes)]
    BY <1>10 DEF ChangeAcl
  <2>2. \A d \in Conns : acl.ever[d] \subseteq acl'.ever[d]
    BY <1>0, <2>1
  <2>3. \A d \in Conns : acl'.now[d] # "none" => acl'.now[d] \in acl'.ever[d]
    BY <1>0, <2>1, <2>2 DEF ModesGranted, Acl
  <2>. QED BY <2>1, <2>2, <2>3 DEF ModesGranted
<1>11. CASE Crash
  <2>1. \A c \in Conns : conn'[c] = conn[c] \/ (conn'[c].pc = "gone" /\ conn'[c].mode = "none")
    BY <1>0, <1>11, PastRec DEF Crash
  <2>2. acl' = acl /\ \A c \in Conns : \A k \in Slots : load'[c][k] = "idle"
    BY <1>11 DEF Crash
  <2>. QED BY <2>1, <2>2 DEF ModesGranted
<1>12. CASE UNCHANGED vars
  BY <1>12 DEF vars, ModesGranted
<1>13. ASSUME NEW u \in Edits, EditElsewhere(u) PROVE ModesGranted'
  BY <1>13 DEF EditElsewhere, ModesGranted
<1>. QED BY <1>1, <1>2, <1>3, <1>4, <1>5, <1>6, <1>7, <1>8, <1>9, <1>10, <1>11, <1>12, <1>13, Steps

\* An update that may be in a body.
Welcome(u) == author[u] # "nobody" /\ (author[u] \in Conns => "writer" \in acl.ever[author[u]])

\* Bodies take what was in one, in the store, or is welcome.
LEMMA WrittenKept ==
    ASSUME Types, Written, \A c \in Conns : acl.ever[c] \subseteq acl'.ever[c],
           \A u \in Edits : author[u] # "nobody" => author'[u] = author[u],
           \A r \in Conns : \A u \in room'[r].body \cup store' :
              u \in room[r].body \cup store \/ (u \in Edits /\ Welcome(u)) \/ Welcome(u)'
    PROVE  Written'
<1>1. ASSUME NEW r \in Conns, NEW u \in room'[r].body \cup store' PROVE Welcome(u)'
  <2>1. ASSUME u \in Edits, Welcome(u) PROVE Welcome(u)'
    BY <2>1 DEF Welcome
  <2>2. CASE u \in room[r].body \cup store
    <3>1. u \in Edits
      BY <2>2, RoomFields DEF Types
    <3>2. Welcome(u)
      BY <2>2 DEF Written, Welcome, Body
    <3>. QED BY <2>1, <3>1, <3>2
  <2>. QED BY <2>1, <2>2
<1>. QED BY <1>1 DEF Written, Welcome, Body

\* What enters a body is a writer's frame, the store's, or the body's own.
LEMMA WrittenStep ==
    ASSUME Types, Membership, ModesGranted, Backlog, Written, [Next]_vars
    PROVE  Written'
<1>1. ASSUME NEW c \in Conns, \/ Authenticate(c) \/ BuildFails(c) \/ HearMode(c) \/ DropFrame(c)
                              \/ \E k \in Slots : TickStart(c, k) \/ TickApply(c, k)
      PROVE  Written'
  BY <1>1, WrittenKept DEF Authenticate, BuildFails, HearMode, DropFrame, TickStart, TickApply
<1>2. ASSUME NEW c \in Conns, Expire(c) PROVE Written'
  <2>1. acl'.ever = acl.ever
    BY <1>2 DEF Expire, Types
  <2>. QED BY <1>2, <2>1, WrittenKept DEF Expire
<1>3. ASSUME NEW c \in Conns, Upgrade(c) PROVE Written'
  <2>1. \A q \in Conns : room'[q].body = room[q].body
    BY <1>3, UpgradeEffect
  <2>. QED BY <1>3, <2>1, WrittenKept DEF Upgrade
<1>4. ASSUME NEW r \in Conns, BuildDone(r) PROVE Written'
  <2>. DEFINE cs == Waiting(r)
  <2>1. Join(conn, r, cs) /\ cs \in SUBSET Conns /\ \A c \in cs : conn[c].mode # "none"
    BY <1>4 DEF BuildDone, Waiting, ModesGranted
  <2>2. conn \in [Conns -> ConnRec]
    BY DEF Types
  <2>. HIDE DEF cs
  <2>3. \A q \in Conns :
           /\ room'[q].members = IF q = r THEN room[q].members \cup cs ELSE room[q].members
           /\ room'[q].body = room[q].body
    BY <2>1, <2>2, JoinEffect
  <2>. QED BY <1>4, <2>3, WrittenKept DEF BuildDone
<1>5. ASSUME NEW c \in Conns, Close(c) PROVE Written'
  <2>1. \A q \in Conns : /\ room'[q].body = room[q].body
                         /\ room'[q].members = IF conn[c].pc = "live" /\ q = registry.room
                                                 THEN room[q].members \ {c} ELSE room[q].members
    BY <1>5, CloseEffect
  <2>. QED BY <1>5, <2>1, WrittenKept DEF Close
<1>6. ASSUME NEW c \in Conns, OnFrame(c) PROVE Written'
  <2>1. UNCHANGED <<acl, author, store>> /\ uplink[c] # <<>> /\ conn[c].pc = "live"
    BY <1>6 DEF OnFrame
  <2>2. CASE \A q \in Conns : room'[q].body = room[q].body
    BY <2>1, <2>2, WrittenKept
  <2>3. ASSUME conn[c].mode = "writer", NEW us \in SUBSET {Head(uplink[c]).edit},
               \A q \in Conns : room'[q].body = IF q = registry.room
                                                 THEN room[q].body \cup us ELSE room[q].body
        PROVE  Written'
    <3>1. 1 \in DOMAIN uplink[c] /\ Head(uplink[c]) = uplink[c][1] /\ uplink[c][1] \in Frame
      BY <2>1 DEF Types
    <3>2. \A u \in us : u \in Edits /\ author[u] = c
      BY <2>3, <3>1 DEF Backlog, Frame
    <3>3. "writer" \in acl.ever[c] /\ c # "nobody"
      BY <2>3, ConstantsOK DEF ModesGranted
    <3>4. \A u \in us : u \in Edits /\ Welcome(u)
      BY <3>2, <3>3 DEF Welcome
    <3>5. \A r \in Conns : \A u \in room'[r].body : u \in room[r].body \/ u \in us
      BY <2>3
    <3>. QED BY <2>1, <3>4, <3>5, WrittenKept
  <2>. QED BY <1>6, <2>2, <2>3, FrameEffect
<1>7. ASSUME NEW r \in Conns, SyncOut(r) PROVE Written'
  <2>1. room' = room /\ store' = store \cup room[r].body /\ UNCHANGED <<acl, author>>
    BY <1>7 DEF SyncOut, Body
  <2>2. \A u \in room[r].body : u \in Edits /\ Welcome(u)
    BY RoomFields DEF Written, Welcome, Body
  <2>. QED BY <2>1, <2>2, WrittenKept
<1>8. ASSUME NEW r \in Conns, NEW u \in Edits, SyncIn(r, u) PROVE Written'
  <2>1. \A q \in Conns : /\ room'[q].members = room[q].members
                         /\ room'[q].body = IF q = r THEN room[q].body \cup {u} ELSE room[q].body
    BY <1>8, SyncInEffect
  <2>2. u \in store /\ UNCHANGED <<acl, author, store>>
    BY <1>8 DEF SyncIn
  <2>. QED BY <2>1, <2>2, WrittenKept
<1>9. ASSUME NEW c \in Conns, NEW u \in Edits, Edit(c, u) PROVE Written'
  <2>1. author[u] = "nobody" /\ author' = [author EXCEPT ![u] = c] /\ UNCHANGED <<acl, room, store>>
    BY <1>9 DEF Edit
  <2>2. \A e \in Edits : author[e] # "nobody" => author'[e] = author[e]
    BY <2>1 DEF Types
  <2>. QED BY <2>1, <2>2, WrittenKept
<1>10. ASSUME NEW c \in Conns, NEW v \in Acl, ChangeAcl(c, v) PROVE Written'
  <2>1. acl'.ever = [acl.ever EXCEPT ![c] = @ \cup ({v} \cap Modes)]
    BY <1>10 DEF ChangeAcl
  <2>2. \A d \in Conns : acl.ever[d] \subseteq acl'.ever[d]
    BY <2>1 DEF Types
  <2>. QED BY <1>10, <2>2, WrittenKept DEF ChangeAcl
<1>11. ASSUME NEW u \in Edits, EditElsewhere(u) PROVE Written'
  <2>1. /\ author[u] = "nobody" /\ author' = [author EXCEPT ![u] = "external"] /\ author'[u] = "external"
        /\ UNCHANGED <<acl, room>> /\ store' = store \cup {u}
    BY <1>11 DEF EditElsewhere, Types
  <2>2. \A e \in Edits : author[e] # "nobody" => author'[e] = author[e]
    BY <2>1 DEF Types
  <2>3. Welcome(u)'
    BY <2>1, ConstantsOK DEF Welcome
  <2>. QED BY <2>1, <2>2, <2>3, WrittenKept
<1>12. CASE Crash
  BY <1>12, WrittenKept DEF Crash, NewRoom
<1>13. CASE UNCHANGED vars
  BY <1>13, WrittenKept DEF vars
<1>. QED BY <1>1, <1>2, <1>3, <1>4, <1>5, <1>6, <1>7, <1>8, <1>9, <1>10, <1>11, <1>12, <1>13, Steps

-----------------------------------------------------------------------------
\* The invariant, of every behaviour.
LEMMA Invariance == Spec => []IInv
<1>1. IInv /\ [Next]_vars => IInv'
  BY TypeStep, MembershipStep, LagStep, BacklogStep, ModesStep, WrittenStep DEF IInv
<1>. QED BY <1>1, InitIInv, PTL DEF Spec

\* Types are kept, for any clients, edits and bounds.
THEOREM TypeCorrect == Spec => []TypeOK
<1>1. IInv => TypeOK
  BY DEF IInv, Types, TypeOK, ConnRec, RoomRec
<1>. QED BY <1>1, Invariance, PTL

\* All members of all rooms are in the one room the registry has, and live:
\* `pendingRooms` lets no two builds of a document's room run side by side.
THEOREM RoomIsOne == Spec => []OneRoom
<1>1. IInv => OneRoom
  BY DEF IInv, Membership, OneRoom
<1>. QED BY <1>1, Invariance, PTL

\* A member whose socket is open has what the body of its room has: the backlog
\* of onConnection, the relay of frames and the updates of the provider leave
\* no gap between them.
THEOREM NoLag == Spec => []NobodyLags
<1>1. IInv => NobodyLags
  BY DEF IInv
<1>. QED BY <1>1, Invariance, PTL

\* No body or server holds an edit of a client the access list at no time had
\* as a writer: the gate of onFrame asks the mode and not the frame.
THEOREM BodiesAreWritersWork == Spec => []OnlyWritersChangeTheBody
<1>1. IInv => OnlyWritersChangeTheBody
  BY DEF IInv, Written, OnlyWritersChangeTheBody
<1>. QED BY <1>1, Invariance, PTL

-----------------------------------------------------------------------------
(***************************************************************************)
(* The other end of the socket: EditorSession, alone and with the snapshot *)
(* worker beside it, for any number of tabs, browsers, edits and breaks.   *)
(* The invariant adds to the types who is given the template (Claims),     *)
(* what updates build on (History), who holds them (Holdings), and that an *)
(* update the body lacks, though it has all the update builds on, has not  *)
(* left its browser (UnsentAtHome).                                        *)
(***************************************************************************)

\* The updates there are.
Made    == {m.update : m \in made}
\* An update and what it builds on.
With(u) == need[u] \cup {u}

\* One tab at most has, or is being given, the template.
Holds(t) == tab[t].answer \in {"content", "parsed"} \/ tab[t].seed = "template"

Claims ==
    /\ \A t \in Tabs : tab[t].answer = "claiming" => template
    /\ \A t, x \in Tabs : tab[t].answer = "claiming" /\ tab[x].answer = "claiming" => t = x
    /\ template => \A t \in Tabs : ~Holds(t)
    /\ \A t, x \in Tabs : Holds(t) /\ Holds(x) => t = x

\* What an update builds on was made before it, with all that this builds on.
History ==
    /\ IsFiniteSet(Made)
    /\ \A m \in made : m.update \in Tabs => m.update = m.by
    /\ \A m, n \in made : m.update = n.update => m = n
    /\ \A m \in made : tab[m.by].pc \in {"mounted", "left"}
    /\ \A x \in Updates : x \notin need[x] /\ need[x] \subseteq Made
    /\ \A x \in Updates : x \notin Made => need[x] = {}
    /\ \A x \in Updates : \A y \in need[x] : need[y] \subseteq need[x]

\* Who holds what: only a mounted tab has a Y.Doc, and it has what it made.
Holdings ==
    /\ body \subseteq Made /\ early \subseteq Made
    /\ \A b \in Browsers : idb[b] \subseteq Made
    /\ \A t \in Tabs : /\ doc[t] \subseteq Made
                       /\ tab[t].hydrated => Mounted(t)
                       /\ ~Mounted(t) => doc[t] = {}
                       /\ tab[t].socket \in {"connecting", "open", "joined"} => Mounted(t)
    /\ \A m \in made : Mounted(m.by) => With(m.update) \subseteq doc[m.by]

\* An update the body lacks though it has all it builds on: what its maker could
\* not send and no other has sent since.
Unsent(u) == u \notin body /\ need[u] \subseteq Whole(body)

Home(m) == tab[m.by].browser

\* Such an update has not left its browser, and what builds on it is where it is.
AtHome(m) ==
    /\ m.update \in early
    /\ \A t \in Tabs : m.update \in doc[t] =>
          /\ tab[t].browser = Home(m)
          /\ tab[t].hydrated => m.update \in idb[Home(m)]
          /\ ~tab[t].hydrated => m.by = t
    /\ \A b \in Browsers : m.update \in idb[b] =>
          b = Home(m) /\ (Mounted(m.by) => tab[m.by].hydrated)
    /\ \A x \in Updates : m.update \in need[x] /\ m.update \in idb[Home(m)] =>
          With(x) \subseteq idb[Home(m)]
    /\ \A x \in Updates : m.update \in need[x] =>
          \A t \in Tabs : m.update \in doc[t] /\ m.update \notin idb[tab[t].browser] =>
              With(x) \subseteq doc[t]

UnsentAtHome == \A m \in made : Unsent(m.update) => AtHome(m)

SessionInv == SessionTypeOK /\ Claims /\ History /\ Holdings /\ ShownIsStored /\ UnsentAtHome

-----------------------------------------------------------------------------
\* The invariant holds when no tab has been opened.
LEMMA SessionStart == SessionInit => SessionInv
<1>. SUFFICES ASSUME SessionInit PROVE SessionInv
  OBVIOUS
<1>0. \A b \in Browsers : NewTab(b) \in Tab
  BY DEF NewTab, Tab
<1>1. tab \in [Tabs -> Tab] /\ \A t \in Tabs : \E b \in Browsers : tab[t] = NewTab(b)
  <2>1. tab \in [Tabs -> {NewTab(b) : b \in Browsers}]
    BY DEF SessionInit
  <2>. QED BY <1>0, <2>1
<1>2. \A t \in Tabs : /\ tab[t].pc = "off" /\ tab[t].answer = "none" /\ tab[t].seed = "none"
                      /\ tab[t].socket = "none" /\ tab[t].hydrated = FALSE
  BY <1>1 DEF NewTab
<1>3. SessionTypeOK
  BY <1>1, SessionConstants DEF SessionInit, SessionTypeOK
<1>4. Claims
  BY <1>2 DEF Claims, Holds
<1>5. Made = {} /\ made = {}
  BY DEF Made, SessionInit
<1>6. History
  BY <1>5, FS_EmptySet DEF History, SessionInit
<1>7. Holdings
  BY <1>2, <1>5 DEF Holdings, SessionInit
<1>8. ShownIsStored
  BY <1>2 DEF ShownIsStored
<1>9. UnsentAtHome
  BY <1>5 DEF UnsentAtHome
<1>. QED BY <1>3, <1>4, <1>6, <1>7, <1>8, <1>9 DEF SessionInv

-----------------------------------------------------------------------------
\* A set of updates that were made has one that builds on no other of it.
LEMMA Earliest ==
    ASSUME SessionTypeOK, History, NEW S \in SUBSET Made, S # {}
    PROVE  \E q \in S : need[q] \cap S = {}
<1>. DEFINE T == {need[q] : q \in S}
<1>1. Made \subseteq Updates
  BY DEF SessionTypeOK, Made
<1>2. \A q \in S : need[q] \in SUBSET Made
  BY <1>1 DEF History
<1>3. T \subseteq FiniteSubsetsOf(Made) /\ T # {}
  BY <1>2, FS_FiniteSubsetsOfFinite DEF History
<1>4. PICK N \in T : \A M \in T : <<M, N>> \notin StrictSubsetOrdering(Made)
  <2>1. IsWellFoundedOn(StrictSubsetOrdering(Made), FiniteSubsetsOf(Made))
    BY FS_StrictSubsetOrderingWellFounded
  <2>. HIDE DEF T
  <2>. QED BY <1>3, <2>1, WFMin
<1>5. PICK q \in S : N = need[q]
  BY <1>4
<1>6. ASSUME NEW r \in need[q] \cap S PROVE FALSE
  <2>1. need[r] \subseteq need[q] /\ r \notin need[r]
    BY <1>1, <1>6 DEF History
  <2>2. need[r] \in SUBSET Made /\ need[q] \in SUBSET Made
    BY <1>2
  <2>3. <<need[r], need[q]>> \in StrictSubsetOrdering(Made)
    BY <1>6, <2>1, <2>2 DEF StrictSubsetOrdering
  <2>. QED BY <1>4, <1>5, <1>6, <2>3
<1>. QED BY <1>6

\* Where the body lacks an update or something it builds on, one of these is unsent.
LEMMA SomeUnsent ==
    ASSUME SessionTypeOK, History, NEW u \in Made, ~(With(u) \subseteq body)
    PROVE  \E m \in made : m.update \in With(u) /\ Unsent(m.update)
<1>. DEFINE S == With(u) \ body
<1>1. u \in Updates /\ S \in SUBSET Made /\ S # {}
  BY DEF SessionTypeOK, Made, History, With
<1>2. PICK q \in S : need[q] \cap S = {}
  <2>. HIDE DEF S
  <2>. QED BY <1>1, Earliest
<1>3. q \in Updates /\ need[q] \subseteq need[u]
  BY <1>1, <1>2 DEF History, With, SessionTypeOK, Made
<1>4. need[q] \subseteq body
  BY <1>2, <1>3 DEF With
<1>5. \A r \in need[q] : need[r] \subseteq body
  BY <1>3, <1>4 DEF History
<1>6. Unsent(q)
  BY <1>2, <1>4, <1>5 DEF Unsent, Whole
<1>. QED BY <1>1, <1>2, <1>6 DEF Made

\* A whole that is whole.
LEMMA WholeOfWhole ==
    ASSUME SessionTypeOK, History, NEW us \in SUBSET Updates
    PROVE  \A x \in Updates : need[x] \subseteq us => need[x] \subseteq Whole(us)
BY DEF History, Whole

-----------------------------------------------------------------------------
(* What the steps do to the tabs.                                          *)

\* What a step leaves of a tab whose Y.Doc it does not touch.
Steady(x) ==
    /\ tab'[x].browser = tab[x].browser /\ tab'[x].hydrated = tab[x].hydrated
    /\ tab'[x].pc = "mounted" <=> tab[x].pc = "mounted"
    /\ tab[x].pc = "left" => tab'[x].pc = "left"
    /\ tab'[x].socket \in {"connecting", "open", "joined"}
          => tab[x].socket \in {"connecting", "open", "joined"}

\* No tab gains a claim to the template.
NoClaim(x) ==
    /\ tab'[x].answer = "claiming" => tab[x].answer = "claiming"
    /\ Holds(x)' => Holds(x)

\* A step that sets the record of one tab sets no other.
LEMMA SetTabEffect ==
    ASSUME SessionTypeOK, NEW t \in Tabs, NEW r \in Tab, SetTab(t, r)
    PROVE  /\ tab' \in [Tabs -> Tab] /\ tab'[t] = r
           /\ \A x \in Tabs : x # t => tab'[x] = tab[x]
           /\ UNCHANGED <<doc, idb, body, made, need, early, breaks>>
BY DEF SessionTypeOK, SetTab

\* GET template-content answers one tab, by the row it has locked.
LEMMA ReadTemplateEffect ==
    ASSUME SessionTypeOK, NEW t \in Tabs, ReadTemplate(t)
    PROVE  /\ tab' \in [Tabs -> Tab] /\ UNCHANGED <<doc, idb, body, made, need, early, breaks, template>>
           /\ \A x \in Tabs : Steady(x) /\ (x # t => tab'[x] = tab[x])
           /\ tab'[t].answer = (IF template THEN "claiming" ELSE "nothing")
           /\ tab'[t].seed = tab[t].seed
<1>1. tab[t] \in Tab
  BY DEF SessionTypeOK
<1>. DEFINE r == [tab[t] EXCEPT !.pc = "loading",
                                !.answer = IF template THEN "claiming" ELSE "nothing"]
<1>2. r \in Tab /\ r.pc = "loading" /\ r.answer = (IF template THEN "claiming" ELSE "nothing")
      /\ r.browser = tab[t].browser /\ r.hydrated = tab[t].hydrated /\ r.seed = tab[t].seed
      /\ r.socket = tab[t].socket
  BY <1>1 DEF Tab
<1>3. SetTab(t, r) /\ UNCHANGED template /\ tab[t].pc = "off"
  BY DEF ReadTemplate
<1>. HIDE DEF r
<1>. QED BY <1>2, <1>3, SetTabEffect DEF Steady

\* The tab that cleared the column waits for it no more.
LEMMA ClaimTemplateEffect ==
    ASSUME SessionTypeOK, NEW t \in Tabs, ClaimTemplate(t)
    PROVE  /\ tab' \in [Tabs -> Tab] /\ UNCHANGED <<doc, idb, body, made, need, early, breaks>>
           /\ \A x \in Tabs : Steady(x) /\ (x # t => tab'[x] = tab[x])
           /\ tab'[t].answer # "claiming" /\ tab'[t].seed = tab[t].seed
<1>1. tab[t] \in Tab
  BY DEF SessionTypeOK
<1>2. PICK got \in {"content", "nothing"} : SetTab(t, [tab[t] EXCEPT !.answer = got])
  BY DEF ClaimTemplate
<1>. DEFINE r == [tab[t] EXCEPT !.answer = got]
<1>3. r \in Tab /\ r.pc = tab[t].pc /\ r.answer = got
      /\ r.browser = tab[t].browser /\ r.hydrated = tab[t].hydrated /\ r.seed = tab[t].seed
      /\ r.socket = tab[t].socket
  BY <1>1 DEF Tab
<1>4. SetTab(t, r)
  BY <1>2
<1>. HIDE DEF r
<1>. QED BY <1>3, <1>4, SetTabEffect DEF Steady

\* Between the answer and the editor no claim is gained and no Y.Doc touched.
LEMMA LoadingEffect ==
    ASSUME SessionTypeOK, NEW t \in Tabs,
           Bundle(t) \/ ParseTemplate(t) \/ Connect(t)
    PROVE  /\ tab' \in [Tabs -> Tab] /\ UNCHANGED <<doc, idb, body, made, need, early, breaks, template>>
           /\ \A x \in Tabs : Steady(x) /\ NoClaim(x)
<1>1. tab[t] \in Tab
  BY DEF SessionTypeOK
<1>2. PICK r \in Tab :
        /\ SetTab(t, r) /\ UNCHANGED template
        /\ r.browser = tab[t].browser /\ r.hydrated = tab[t].hydrated /\ r.seed = tab[t].seed
        /\ r.pc = "mounted" <=> tab[t].pc = "mounted"
        /\ tab[t].pc = "left" => r.pc = "left"
        /\ r.socket \in {"connecting", "open", "joined"}
              => tab[t].socket \in {"connecting", "open", "joined"}
        /\ r.answer = "claiming" => tab[t].answer = "claiming"
        /\ r.answer \in {"content", "parsed"} => tab[t].answer \in {"content", "parsed"}
  <2>1. CASE Bundle(t)
    <3>1. PICK pc \in {"bundled", "left"} : SetTab(t, [tab[t] EXCEPT !.pc = pc])
      BY <2>1 DEF Bundle
    <3>2. [tab[t] EXCEPT !.pc = pc] \in Tab
      BY <1>1 DEF Tab
    <3>. QED BY <1>1, <2>1, <3>1, <3>2 DEF Bundle, Tab
  <2>2. CASE ParseTemplate(t)
    <3>1. [tab[t] EXCEPT !.answer = "parsed"] \in Tab
      BY <1>1 DEF Tab
    <3>. QED BY <1>1, <2>2, <3>1 DEF ParseTemplate, Tab
  <2>3. CASE Connect(t)
    <3>1. [tab[t] EXCEPT !.socket = "open"] \in Tab
      BY <1>1 DEF Tab
    <3>. QED BY <1>1, <2>3, <3>1 DEF Connect, Tab
  <2>. QED BY <2>1, <2>2, <2>3
<1>. QED BY <1>2, SetTabEffect DEF Steady, NoClaim, Holds

\* One record of a tab is replaced.
LEMMA TabSet ==
    ASSUME SessionTypeOK, NEW t \in Tabs, NEW r \in Tab, tab' = [tab EXCEPT ![t] = r]
    PROVE  /\ tab' \in [Tabs -> Tab] /\ tab'[t] = r
           /\ \A x \in Tabs : x # t => tab'[x] = tab[x]
BY DEF SessionTypeOK

\* A socket that breaks leaves the Y.Doc to its tab.
LEMMA BreakEffect ==
    ASSUME SessionTypeOK, NEW t \in Tabs, Break(t)
    PROVE  /\ tab' \in [Tabs -> Tab] /\ UNCHANGED <<doc, idb, body, made, need, early, template>>
           /\ \A x \in Tabs : Steady(x) /\ NoClaim(x)
<1>1. tab[t] \in Tab
  BY DEF SessionTypeOK
<1>. DEFINE r == [tab[t] EXCEPT !.socket = "closed"]
<1>2. r \in Tab /\ r.pc = tab[t].pc /\ r.answer = tab[t].answer /\ r.socket = "closed"
      /\ r.browser = tab[t].browser /\ r.hydrated = tab[t].hydrated /\ r.seed = tab[t].seed
  BY <1>1 DEF Tab
<1>3. tab' = [tab EXCEPT ![t] = r]
  BY DEF Break
<1>. HIDE DEF r
<1>. QED BY <1>2, <1>3, TabSet DEF Steady, NoClaim, Holds, Break

\* A gateway that starts again closes sockets and leaves the Y.Docs.
LEMMA RestartEffect ==
    ASSUME SessionTypeOK, Restart
    PROVE  /\ tab' \in [Tabs -> Tab] /\ UNCHANGED <<doc, idb, made, need, early, template>>
           /\ \A x \in Tabs : Steady(x) /\ NoClaim(x)
<1>1. ASSUME NEW x \in Tabs PROVE tab'[x] \in Tab /\ Steady(x) /\ NoClaim(x)
  <2>1. tab[x] \in Tab
    BY DEF SessionTypeOK
  <2>. DEFINE r == [tab[x] EXCEPT !.socket = "closed"]
  <2>2. r \in Tab /\ r.pc = tab[x].pc /\ r.answer = tab[x].answer /\ r.socket = "closed"
        /\ r.browser = tab[x].browser /\ r.hydrated = tab[x].hydrated /\ r.seed = tab[x].seed
    BY <2>1 DEF Tab
  <2>3. tab'[x] = tab[x] \/ tab'[x] = r
    BY DEF Restart
  <2>. HIDE DEF r
  <2>. QED BY <2>1, <2>2, <2>3 DEF Steady, NoClaim, Holds
<1>. QED BY <1>1 DEF Restart

\* An editor that mounts has used the template it was given.
LEMMA MountEffect ==
    ASSUME SessionTypeOK, NEW t \in Tabs, Mount(t)
    PROVE  /\ tab' \in [Tabs -> Tab] /\ \A x \in Tabs : NoClaim(x)
           /\ \A x \in Tabs : x # t => Steady(x) /\ tab'[x] = tab[x]
           /\ tab[t].pc = "bundled" /\ tab'[t].pc = "mounted" /\ tab'[t].browser = tab[t].browser
           /\ tab'[t].hydrated = tab[t].hydrated
<1>1. tab[t] \in Tab
  BY DEF SessionTypeOK
<1>. DEFINE r == [tab[t] EXCEPT !.pc = "mounted", !.socket = "connecting", !.answer = "none",
                    !.seed = IF tab[t].answer = "parsed" THEN "template" ELSE "blank"]
<1>2. r \in Tab /\ r.pc = "mounted" /\ r.answer = "none" /\ r.browser = tab[t].browser
      /\ r.hydrated = tab[t].hydrated /\ r.seed = (IF tab[t].answer = "parsed" THEN "template" ELSE "blank")
  BY <1>1 DEF Tab
<1>3. tab' = [tab EXCEPT ![t] = r]
  BY DEF Mount
<1>. HIDE DEF r
<1>. QED BY <1>2, <1>3, TabSet DEF Steady, NoClaim, Holds, Mount

\* A tab that opens IndexedDB stays mounted.
LEMMA HydrateTab ==
    ASSUME SessionTypeOK, NEW t \in Tabs, Hydrate(t)
    PROVE  /\ tab' \in [Tabs -> Tab] /\ \A x \in Tabs : NoClaim(x)
           /\ \A x \in Tabs : x # t => Steady(x) /\ tab'[x] = tab[x]
           /\ tab[t].pc = "mounted" /\ tab'[t].pc = "mounted" /\ tab'[t].browser = tab[t].browser
           /\ tab[t].hydrated = FALSE /\ tab'[t].hydrated = TRUE /\ tab'[t].socket = tab[t].socket
<1>1. tab[t] \in Tab
  BY DEF SessionTypeOK
<1>. DEFINE r == [tab[t] EXCEPT !.hydrated = TRUE]
<1>2. r \in Tab /\ r.pc = tab[t].pc /\ r.answer = tab[t].answer /\ r.browser = tab[t].browser
      /\ r.hydrated = TRUE /\ r.seed = tab[t].seed /\ r.socket = tab[t].socket
  BY <1>1 DEF Tab
<1>3. tab' = [tab EXCEPT ![t] = r] /\ Mounted(t) /\ ~tab[t].hydrated /\ tab[t].hydrated \in BOOLEAN
  BY <1>1 DEF Hydrate, Tab
<1>. HIDE DEF r
<1>. QED BY <1>2, <1>3, TabSet DEF Steady, NoClaim, Holds, Mounted

\* A tab that enters the room is in all else as it was.
LEMMA EnterTab ==
    ASSUME SessionTypeOK, NEW t \in Tabs, Enter(t)
    PROVE  /\ tab' \in [Tabs -> Tab] /\ \A x \in Tabs : NoClaim(x) /\ Steady(x)
<1>1. tab[t] \in Tab
  BY DEF SessionTypeOK
<1>. DEFINE r == [tab[t] EXCEPT !.socket = "joined"]
<1>2. r \in Tab /\ r.pc = tab[t].pc /\ r.answer = tab[t].answer /\ r.browser = tab[t].browser
      /\ r.hydrated = tab[t].hydrated /\ r.seed = tab[t].seed
  BY <1>1 DEF Tab
<1>3. tab' = [tab EXCEPT ![t] = r] /\ tab[t].socket = "open"
  BY DEF Enter
<1>. HIDE DEF r
<1>. QED BY <1>2, <1>3, TabSet DEF Steady, NoClaim, Holds

\* A tab that leaves does not come back.
LEMMA LeaveTab ==
    ASSUME SessionTypeOK, NEW t \in Tabs, Leave(t)
    PROVE  /\ tab' \in [Tabs -> Tab] /\ \A x \in Tabs : NoClaim(x)
           /\ \A x \in Tabs : x # t => Steady(x) /\ tab'[x] = tab[x]
           /\ tab'[t].pc = "left" /\ tab'[t].browser = tab[t].browser /\ tab'[t].hydrated = FALSE
           /\ tab'[t].socket \in {"none", "closed"}
<1>1. tab[t] \in Tab
  BY DEF SessionTypeOK
<1>. DEFINE r == [NewTab(tab[t].browser) EXCEPT
                    !.pc = "left", !.seed = tab[t].seed,
                    !.socket = IF tab[t].socket \in {"none", "connecting"} THEN "none" ELSE "closed"]
<1>2. r \in Tab /\ r.pc = "left" /\ r.answer = "none" /\ r.browser = tab[t].browser
      /\ r.hydrated = FALSE /\ r.seed = tab[t].seed /\ r.socket \in {"none", "closed"}
  BY <1>1 DEF Tab, NewTab
<1>3. tab' = [tab EXCEPT ![t] = r]
  BY DEF Leave
<1>. HIDE DEF r
<1>. QED BY <1>2, <1>3, TabSet DEF Steady, NoClaim, Holds

-----------------------------------------------------------------------------
(* What the steps do to the updates.                                       *)

\* Opening IndexedDB: the tab has what was kept, the room what that made visible.
LEMMA HydrateEffect ==
    ASSUME SessionTypeOK, NEW t \in Tabs, Hydrate(t)
    PROVE  \E more \in SUBSET (doc[t] \cup idb[tab[t].browser]) :
             /\ more = {} \/ more = Whole(doc[t] \cup idb[tab[t].browser]) \ Whole(doc[t])
             /\ body' = body \cup more
             /\ doc' \in [Tabs -> SUBSET Updates]
             /\ doc'[t] = doc[t] \cup idb[tab[t].browser]
             /\ \A x \in Tabs : x # t => doc[x] \subseteq doc'[x] /\ doc'[x] \subseteq doc[x] \cup more
             /\ \A x \in Tabs : x # t /\ ~InRoom(x) => doc'[x] = doc[x]
             /\ idb' \in [Browsers -> SUBSET Updates]
             /\ \A b \in Browsers : idb[b] \subseteq idb'[b]
             /\ doc[t] \subseteq idb'[tab[t].browser]
             /\ \A x \in Tabs : x # t /\ tab[x].hydrated =>
                    Whole(doc'[x]) \ Whole(doc[x]) \subseteq idb'[tab[x].browser]
             /\ \A b \in Browsers : \A w \in idb'[b] :
                    \/ w \in idb[b] \/ (w \in doc[t] /\ b = tab[t].browser)
                    \/ \E x \in Tabs : tab[x].hydrated /\ tab[x].browser = b /\ w \in doc[x] \cup more
             /\ UNCHANGED <<template, made, need, early, breaks>>
<1>. DEFINE b    == tab[t].browser
            held == doc[t] \cup idb[b]
            news == Whole(held) \ Whole(doc[t])
<1>1. b \in Browsers /\ tab[t] \in Tab /\ ~tab[t].hydrated
  BY DEF SessionTypeOK, Tab, Hydrate
<1>2. PICK sent \in BOOLEAN :
         /\ Take(Given(t, held, news, sent))
         /\ idb' = [Store(Given(t, held, news, sent), need) EXCEPT ![b] = @ \cup doc[t]]
         /\ body' = IF sent THEN body \cup news ELSE body
  BY <1>1 DEF Hydrate, Sends
<1>. DEFINE more == IF sent THEN news ELSE {}
            g    == Given(t, held, news, sent)
<1>3. held \subseteq Updates /\ more \in SUBSET held /\ news \subseteq Updates
  BY <1>1 DEF SessionTypeOK, Whole
<1>4. \A x \in Tabs : g[x] = IF x = t THEN held ELSE IF sent /\ InRoom(x) THEN news ELSE {}
  BY DEF Given
<1>5. doc' = [x \in Tabs |-> doc[x] \cup g[x]]
  BY <1>2 DEF Take
<1>6. \A x \in Tabs : g[x] \subseteq Updates
  BY <1>3, <1>4
<1>7. doc' \in [Tabs -> SUBSET Updates]
  <2>. HIDE DEF g
  <2>. QED BY <1>5, <1>6 DEF SessionTypeOK
<1>8. \A x \in Tabs : doc'[x] = doc[x] \cup g[x]
  <2>. HIDE DEF g
  <2>. QED BY <1>5
<1>9. \A c \in Browsers : idb'[c] = IF c = b THEN Store(g, need)[c] \cup doc[t] ELSE Store(g, need)[c]
  <2>. HIDE DEF g
  <2>1. idb' = [Store(g, need) EXCEPT ![b] = @ \cup doc[t]]
    BY <1>2 DEF g
  <2>2. DOMAIN Store(g, need) = Browsers
    BY DEF Store
  <2>. QED BY <2>1, <2>2, <1>1
<1>20. ASSUME NEW c \in Browsers, NEW w
       PROVE  w \in Store(g, need)[c] <=>
                \/ w \in idb[c]
                \/ \E x \in Tabs : /\ tab[x].hydrated /\ tab[x].browser = c
                                   /\ w \in Whole(doc[x] \cup g[x]) /\ w \notin Whole(doc[x])
  <2>. HIDE DEF g
  <2>. QED BY DEF Store, ShownOf, Whole
<1>10. \A c \in Browsers : Store(g, need)[c] \subseteq Updates
  <2>. SUFFICES ASSUME NEW c \in Browsers, NEW w \in Store(g, need)[c] PROVE w \in Updates
    OBVIOUS
  <2>. HIDE DEF g
  <2>1. w \in idb[c] \/ \E x \in Tabs : w \in Whole(doc[x] \cup g[x])
    BY <1>20
  <2>. QED BY <1>6, <2>1 DEF SessionTypeOK, Whole
<1>11. idb' \in [Browsers -> SUBSET Updates]
  <2>. HIDE DEF g
  <2>1. idb' = [Store(g, need) EXCEPT ![b] = @ \cup doc[t]] /\ DOMAIN Store(g, need) = Browsers
    BY <1>2 DEF g, Store
  <2>2. idb' = [c \in Browsers |-> idb'[c]]
    BY <2>1 DEF Store
  <2>3. \A c \in Browsers : idb'[c] \subseteq Updates
    BY <1>9, <1>10 DEF SessionTypeOK
  <2>. QED BY <2>2, <2>3
<1>12. \A c \in Browsers : idb[c] \subseteq idb'[c]
  <2>. HIDE DEF g
  <2>. SUFFICES ASSUME NEW c \in Browsers, NEW w \in idb[c] PROVE w \in idb'[c]
    OBVIOUS
  <2>1. w \in Store(g, need)[c]
    BY <1>20
  <2>. QED BY <1>9, <2>1
<1>13. \A x \in Tabs : x # t /\ tab[x].hydrated =>
          Whole(doc'[x]) \ Whole(doc[x]) \subseteq idb'[tab[x].browser]
  <2>. SUFFICES ASSUME NEW x \in Tabs, tab[x].hydrated, NEW w \in Whole(doc'[x]) \ Whole(doc[x])
                PROVE  w \in idb'[tab[x].browser]
    OBVIOUS
  <2>. HIDE DEF g
  <2>1. tab[x].browser \in Browsers
    BY DEF SessionTypeOK, Tab
  <2>2. w \in Store(g, need)[tab[x].browser]
    BY <1>8, <1>20, <2>1
  <2>. QED BY <1>9, <2>1, <2>2
<1>14. ASSUME NEW c \in Browsers, NEW w \in idb'[c]
       PROVE  \/ w \in idb[c] \/ (w \in doc[t] /\ c = b)
              \/ \E x \in Tabs : tab[x].hydrated /\ tab[x].browser = c /\ w \in doc[x] \cup more
  <2>1. CASE w \in doc[t] /\ c = b
    BY <2>1
  <2>2. CASE w \in Store(g, need)[c]
    <3>1. w \in idb[c] \/ \E x \in Tabs : tab[x].hydrated /\ tab[x].browser = c /\ w \in doc[x] \cup g[x]
      <4>. HIDE DEF g
      <4>. QED BY <1>20, <2>2 DEF Whole
    <3>2. \A x \in Tabs : tab[x].hydrated => g[x] \subseteq more
      BY <1>1, <1>4
    <3>. HIDE DEF g, more
    <3>. QED BY <3>1, <3>2
  <2>. QED BY <1>9, <1>14, <2>1, <2>2
<1>15. \A x \in Tabs : x # t => doc[x] \subseteq doc'[x] /\ doc'[x] \subseteq doc[x] \cup more
  BY <1>4, <1>8
<1>16. \A x \in Tabs : x # t /\ ~InRoom(x) => doc'[x] = doc[x]
  BY <1>4, <1>8
<1>17. doc'[t] = held
  BY <1>4, <1>8
<1>18. body' = body \cup more /\ (more = {} \/ more = news)
  BY <1>2
<1>19. doc[t] \subseteq idb'[b]
  BY <1>1, <1>9
<1>. HIDE DEF more, g
<1>. QED BY <1>3, <1>7, <1>11, <1>12, <1>13, <1>14, <1>15, <1>16, <1>17, <1>18, <1>19 DEF Hydrate

\* Typing: the edit builds on what its tab made before, and is given and stored.
LEMMA TypeEffect ==
    ASSUME SessionTypeOK, History, Holdings, NEW t \in Tabs, NEW u \in Inputs, NEW at \in Updates, Type(t, u, at)
    PROVE  \E sent \in BOOLEAN :
             /\ u \notin Made /\ Mounted(t)
             /\ made' = made \cup {[update |-> u, by |-> t]}
             /\ need' \in [Updates -> SUBSET Updates]
             /\ \A x \in Updates : x # u => need'[x] = need[x]
             /\ \A m \in made : m.by = t /\ m.update # t => With(m.update) \subseteq need'[u]
             /\ \A y \in need'[u] : With(y) \subseteq need'[u] /\ y \in Whole(doc[t])
             /\ body' = (IF sent THEN body \cup {u} ELSE body)
             /\ ~sent => ~InRoom(t)
             /\ early' = (IF sent \/ InRoom(t) THEN early ELSE early \cup {u})
             /\ doc' \in [Tabs -> SUBSET Updates]
             /\ doc'[t] = doc[t] \cup {u}
             /\ \A x \in Tabs : doc'[x] = doc[x] \/ doc'[x] = doc[x] \cup {u}
             /\ \A x \in Tabs : x # t /\ (~sent \/ ~InRoom(x)) => doc'[x] = doc[x]
             /\ idb' \in [Browsers -> SUBSET Updates]
             /\ \A b \in Browsers : idb[b] \subseteq idb'[b] /\ idb'[b] \subseteq idb[b] \cup {u}
             /\ \A x \in Tabs : tab[x].hydrated /\ u \in doc'[x] /\ need'[u] \subseteq doc[x] => u \in idb'[tab[x].browser]
             /\ \A b \in Browsers : u \in idb'[b] => \E x \in Tabs : tab[x].hydrated /\ tab[x].browser = b /\ u \in doc'[x]
             /\ UNCHANGED <<template, tab, breaks>>
<1>. DEFINE before == {m.update : m \in {m \in made : m.by = t}} \ {t}
            roots  == before \cup {at}
            nd     == [need EXCEPT ![u] = UNION {{x} \cup need[x] : x \in roots}]
<1>1. /\ Mounted(t) /\ u \notin Made /\ at \in Whole(doc[t])
      /\ made' = made \cup {[update |-> u, by |-> t]} /\ need' = nd
      /\ UNCHANGED <<template, tab, breaks>>
  BY DEF Type, Made
<1>2. u \in Updates /\ need \in [Updates -> SUBSET Updates]
  BY DEF Updates, SessionTypeOK
<1>3. need'[u] = UNION {{x} \cup need[x] : x \in roots} /\ \A x \in Updates : x # u => need'[x] = need[x]
  BY <1>1, <1>2
<1>4. \A x \in roots : x \in Whole(doc[t])
  <2>1. \A m \in made : m.by = t => With(m.update) \subseteq doc[t]
    BY <1>1 DEF Holdings
  <2>. QED BY <1>1, <2>1 DEF With, Whole
<1>5. \A x \in Whole(doc[t]) : x \in Updates /\ need[x] \subseteq doc[t] /\ x \in doc[t]
  BY DEF Whole, SessionTypeOK
<1>6. \A y \in need'[u] : \E x \in roots : y \in With(x)
  BY <1>3 DEF With
<1>7. \A x \in roots : With(x) \subseteq need'[u]
  BY <1>3 DEF With
<1>8. u \notin need'[u] /\ u \notin doc[t] /\ \A x \in Tabs : u \notin doc[x]
  <2>1. \A x \in Tabs : u \notin doc[x]
    BY <1>1 DEF Holdings
  <2>2. \A x \in roots : u \notin With(x)
    BY <1>4, <1>5, <2>1 DEF With
  <2>. QED BY <1>6, <2>1, <2>2
<1>9. ASSUME NEW y \in need'[u] PROVE With(y) \subseteq need'[u] /\ y \in Whole(doc[t])
  <2>. HIDE DEF roots
  <2>1. PICK x \in roots : y \in With(x)
    BY <1>6
  <2>2. x \in Updates /\ y \in Updates /\ need[x] \subseteq doc[t] /\ x \in doc[t]
    BY <1>2, <1>4, <1>5, <2>1 DEF With
  <2>3. With(y) \subseteq With(x)
    BY <2>1, <2>2 DEF With, History
  <2>4. With(x) \subseteq need'[u] /\ With(x) \subseteq doc[t]
    BY <1>7, <2>2 DEF With
  <2>. QED BY <2>1, <2>2, <2>3, <2>4 DEF With, Whole
<1>10. need' \in [Updates -> SUBSET Updates]
  <2>. HIDE DEF roots
  <2>1. need'[u] \subseteq Updates
    BY <1>5, <1>9
  <2>. QED BY <1>1, <1>2, <1>3, <2>1
<1>11. \A m \in made : m.by = t /\ m.update # t => With(m.update) \subseteq need'[u]
  <2>1. \A m \in made : m.by = t /\ m.update # t => m.update \in roots
    OBVIOUS
  <2>. QED BY <1>7, <2>1
<1>12. PICK sent \in Sends(t) :
         /\ Take(Given(t, {u}, {u}, sent)) /\ idb' = Store(Given(t, {u}, {u}, sent), need')
         /\ body' = (IF sent THEN body \cup {u} ELSE body)
         /\ early' = (IF sent \/ InRoom(t) THEN early ELSE early \cup {u})
  BY <1>1 DEF Type
<1>13. sent \in BOOLEAN /\ (~sent => ~InRoom(t))
  BY <1>12 DEF Sends
<1>. DEFINE g == Given(t, {u}, {u}, sent)
<1>14. \A x \in Tabs : g[x] = IF x = t THEN {u} ELSE IF sent /\ InRoom(x) THEN {u} ELSE {}
  BY DEF Given
<1>. HIDE DEF g, nd, roots
<1>15. doc' = [x \in Tabs |-> doc[x] \cup g[x]] /\ idb' = Store(g, need')
  BY <1>12 DEF Take, g
<1>16. \A x \in Tabs : doc'[x] = doc[x] \cup g[x] /\ g[x] \subseteq {u}
  BY <1>14, <1>15
<1>17. doc' \in [Tabs -> SUBSET Updates]
  BY <1>2, <1>15, <1>16 DEF SessionTypeOK
<1>18. /\ doc'[t] = doc[t] \cup {u}
       /\ \A x \in Tabs : doc'[x] = doc[x] \/ doc'[x] = doc[x] \cup {u}
       /\ \A x \in Tabs : x # t /\ (~sent \/ ~InRoom(x)) => doc'[x] = doc[x]
  BY <1>14, <1>16
<1>19. ASSUME NEW x \in Tabs
       PROVE  \A w : w \in ShownOf(doc[x] \cup g[x], need') /\ w \notin ShownOf(doc[x], need')
                  <=> w = u /\ u \in doc'[x] /\ need'[u] \subseteq doc[x]
  <2>1. \A y \in doc[x] : y \in Updates /\ y # u /\ need'[y] = need[y] /\ u \notin need[y]
    BY <1>1, <1>3, <1>8 DEF SessionTypeOK, History
  <2>2. need'[u] \subseteq doc[x] \cup g[x] <=> need'[u] \subseteq doc[x]
    BY <1>8, <1>16
  <2>. QED BY <1>8, <1>16, <2>1, <2>2 DEF ShownOf
<1>20. ASSUME NEW b \in Browsers, NEW w
       PROVE  w \in idb'[b] <=> \/ w \in idb[b]
                                \/ /\ w = u
                                   /\ \E x \in Tabs : tab[x].hydrated /\ tab[x].browser = b
                                                      /\ u \in doc'[x] /\ need'[u] \subseteq doc[x]
  <2>1. w \in idb'[b] <=>
          \/ w \in idb[b]
          \/ \E x \in Tabs : /\ tab[x].hydrated /\ tab[x].browser = b
                             /\ w \in ShownOf(doc[x] \cup g[x], need') /\ w \notin ShownOf(doc[x], need')
    BY <1>15 DEF Store, ShownOf
  <2>. QED BY <1>19, <2>1
<1>21. idb' \in [Browsers -> SUBSET Updates]
  <2>1. idb' = [b \in Browsers |-> idb'[b]]
    BY <1>15 DEF Store
  <2>2. \A b \in Browsers : idb'[b] \subseteq Updates
    BY <1>2, <1>20 DEF SessionTypeOK
  <2>. QED BY <2>1, <2>2
<1>22. \A b \in Browsers : idb[b] \subseteq idb'[b] /\ idb'[b] \subseteq idb[b] \cup {u}
  BY <1>20
<1>23. \A x \in Tabs : tab[x].hydrated /\ u \in doc'[x] /\ need'[u] \subseteq doc[x] => u \in idb'[tab[x].browser]
  BY <1>20 DEF SessionTypeOK, Tab
<1>24. \A b \in Browsers : u \in idb'[b] => \E x \in Tabs : tab[x].hydrated /\ tab[x].browser = b /\ u \in doc'[x]
  <2>1. \A b \in Browsers : u \notin idb[b]
    BY <1>1 DEF Holdings
  <2>. QED BY <1>20, <2>1
<1>. QED BY <1>1, <1>3, <1>9, <1>10, <1>11, <1>12, <1>13, <1>17, <1>18, <1>21, <1>22, <1>23, <1>24

\* The body that the gateway replays goes to the tab, and what it shows of it to IndexedDB.
LEMMA EnterEffect ==
    ASSUME SessionTypeOK, NEW t \in Tabs, Enter(t)
    PROVE  /\ doc' \in [Tabs -> SUBSET Updates] /\ doc'[t] = doc[t] \cup body
           /\ \A x \in Tabs : x # t => doc'[x] = doc[x]
           /\ idb' \in [Browsers -> SUBSET Updates] /\ \A b \in Browsers : idb[b] \subseteq idb'[b]
           /\ tab[t].hydrated => Whole(doc'[t]) \ Whole(doc[t]) \subseteq idb'[tab[t].browser]
           /\ \A b \in Browsers : \A w \in idb'[b] :
                 w \in idb[b] \/ (tab[t].hydrated /\ tab[t].browser = b /\ w \in doc[t] \cup body)
           /\ UNCHANGED <<template, body, made, need, early, breaks>>
<1>. DEFINE g == Given(t, body, {}, FALSE)
<1>1. \A x \in Tabs : g[x] = IF x = t THEN body ELSE {}
  BY DEF Given
<1>2. doc' = [x \in Tabs |-> doc[x] \cup g[x]] /\ idb' = Store(g, need)
  BY DEF Enter, Take
<1>. HIDE DEF g
<1>3. body \subseteq Updates /\ tab[t].browser \in Browsers
  BY DEF SessionTypeOK, Tab
<1>4. \A x \in Tabs : g[x] \subseteq Updates /\ doc'[x] = doc[x] \cup g[x]
  BY <1>1, <1>2, <1>3
<1>5. doc' \in [Tabs -> SUBSET Updates]
  BY <1>2, <1>4 DEF SessionTypeOK
<1>6. doc'[t] = doc[t] \cup body /\ \A x \in Tabs : x # t => doc'[x] = doc[x]
  BY <1>1, <1>4
<1>7. ASSUME NEW b \in Browsers, NEW w
      PROVE  w \in idb'[b] <=>
               \/ w \in idb[b]
               \/ /\ tab[t].hydrated /\ tab[t].browser = b
                  /\ w \in Whole(doc'[t]) /\ w \notin Whole(doc[t])
  <2>1. w \in idb'[b] <=>
          \/ w \in idb[b]
          \/ \E x \in Tabs : /\ tab[x].hydrated /\ tab[x].browser = b
                             /\ w \in Whole(doc'[x]) /\ w \notin Whole(doc[x])
    BY <1>2, <1>4 DEF Store, ShownOf, Whole
  <2>. QED BY <1>6, <2>1
<1>8. idb' \in [Browsers -> SUBSET Updates]
  <2>1. idb' = [b \in Browsers |-> idb'[b]]
    BY <1>2 DEF Store
  <2>2. \A b \in Browsers : idb'[b] \subseteq Updates
    BY <1>5, <1>7 DEF SessionTypeOK, Whole
  <2>. QED BY <2>1, <2>2
<1>. QED BY <1>3, <1>5, <1>6, <1>7, <1>8 DEF Enter, Whole

-----------------------------------------------------------------------------
(* The steps keep the parts of the invariant.                              *)

\* The steps, one by one.
LEMMA Cases ==
    ASSUME [SessionNext]_session
    PROVE  \/ \E t \in Tabs : ReadTemplate(t) \/ ClaimTemplate(t)
           \/ \E t \in Tabs : Bundle(t) \/ ParseTemplate(t) \/ Connect(t)
           \/ \E t \in Tabs : Mount(t)
           \/ \E t \in Tabs : Hydrate(t)
           \/ \E t \in Tabs, u \in Inputs, at \in Updates : Type(t, u, at)
           \/ \E t \in Tabs : Enter(t)
           \/ \E t \in Tabs : Break(t)
           \/ \E t \in Tabs : Leave(t)
           \/ Restart
           \/ UNCHANGED session
BY DEF SessionNext, TabStep

\* Types are kept.
LEMMA SessionTypeStep ==
    ASSUME SessionTypeOK, History, Holdings, [SessionNext]_session
    PROVE  SessionTypeOK'
<1>1. ASSUME NEW t \in Tabs, ReadTemplate(t) \/ ClaimTemplate(t) PROVE SessionTypeOK'
  BY <1>1, ReadTemplateEffect, ClaimTemplateEffect DEF SessionTypeOK, ClaimTemplate
<1>2. ASSUME NEW t \in Tabs, Bundle(t) \/ ParseTemplate(t) \/ Connect(t) PROVE SessionTypeOK'
  BY <1>2, LoadingEffect DEF SessionTypeOK
<1>3. ASSUME NEW t \in Tabs, Mount(t) PROVE SessionTypeOK'
  <2>1. tab' \in [Tabs -> Tab] /\ t \in Updates
    BY <1>3, MountEffect DEF Updates
  <2>2. [update |-> t, by |-> t] \in [update : Updates, by : Tabs]
    BY <2>1
  <2>3. made' \in SUBSET [update : Updates, by : Tabs] /\ early' \subseteq Updates
    BY <1>3, <2>1, <2>2 DEF Mount, SessionTypeOK
  <2>4. doc' \in [Tabs -> SUBSET Updates]
    BY <1>3, <2>1 DEF Mount, SessionTypeOK
  <2>. QED BY <1>3, <2>1, <2>3, <2>4 DEF Mount, SessionTypeOK
<1>4. ASSUME NEW t \in Tabs, Hydrate(t) PROVE SessionTypeOK'
  <2>1. tab' \in [Tabs -> Tab]
    BY <1>4, HydrateTab
  <2>2. PICK more \in SUBSET (doc[t] \cup idb[tab[t].browser]) :
          /\ body' = body \cup more
          /\ doc' \in [Tabs -> SUBSET Updates] /\ idb' \in [Browsers -> SUBSET Updates]
          /\ UNCHANGED <<template, made, need, early, breaks>>
    BY <1>4, HydrateEffect
  <2>3. body' \subseteq Updates
    BY <2>2 DEF SessionTypeOK, Tab
  <2>. QED BY <2>1, <2>2, <2>3 DEF SessionTypeOK
<1>5. ASSUME NEW t \in Tabs, NEW u \in Inputs, NEW at \in Updates, Type(t, u, at) PROVE SessionTypeOK'
  <2>1. u \in Updates /\ [update |-> u, by |-> t] \in [update : Updates, by : Tabs]
    BY DEF Updates
  <2>. QED BY <1>5, <2>1, TypeEffect DEF SessionTypeOK
<1>6. ASSUME NEW t \in Tabs, Enter(t) PROVE SessionTypeOK'
  BY <1>6, EnterTab, EnterEffect DEF SessionTypeOK
<1>7. ASSUME NEW t \in Tabs, Break(t) PROVE SessionTypeOK'
  <2>1. tab' \in [Tabs -> Tab] /\ UNCHANGED <<doc, idb, body, made, need, early, template>>
    BY <1>7, BreakEffect
  <2>2. breaks' \in 0 .. MaxBreaks
    BY <1>7, SessionConstants DEF SessionTypeOK, Break
  <2>. QED BY <2>1, <2>2 DEF SessionTypeOK
<1>8. ASSUME NEW t \in Tabs, Leave(t) PROVE SessionTypeOK'
  <2>1. tab' \in [Tabs -> Tab]
    BY <1>8, LeaveTab
  <2>2. doc' \in [Tabs -> SUBSET Updates]
    BY <1>8 DEF Leave, SessionTypeOK
  <2>. QED BY <1>8, <2>1, <2>2 DEF Leave, SessionTypeOK
<1>9. CASE Restart
  <2>1. tab' \in [Tabs -> Tab] /\ UNCHANGED <<doc, idb, made, need, early, template>>
    BY <1>9, RestartEffect
  <2>. QED BY <1>9, <2>1, SessionConstants DEF SessionTypeOK, Restart, Whole
<1>10. CASE UNCHANGED session
  BY <1>10 DEF session, SessionTypeOK
<1>. QED BY <1>1, <1>2, <1>3, <1>4, <1>5, <1>6, <1>7, <1>8, <1>9, <1>10, Cases

\* Where no tab gains a claim there is still one at most.
LEMMA ClaimsKept ==
    ASSUME Claims, template' = template, \A x \in Tabs : NoClaim(x)
    PROVE  Claims'
BY DEF Claims, NoClaim

\* The template stays with one tab.
LEMMA ClaimsStep ==
    ASSUME SessionTypeOK, History, Holdings, Claims, [SessionNext]_session
    PROVE  Claims'
<1>1. ASSUME NEW t \in Tabs, ReadTemplate(t) PROVE Claims'
  <2>1. /\ \A x \in Tabs : x # t => tab'[x] = tab[x]
        /\ tab'[t].answer = (IF template THEN "claiming" ELSE "nothing")
        /\ tab'[t].seed = tab[t].seed /\ template' = template
    BY <1>1, ReadTemplateEffect
  <2>2. \A x \in Tabs : tab[x].answer # "claiming"
    BY <1>1 DEF ReadTemplate
  <2>3. \A x \in Tabs : Holds(x)' => Holds(x)
    BY <2>1 DEF Holds
  <2>4. \A x \in Tabs : tab'[x].answer = "claiming" => x = t /\ template
    BY <2>1, <2>2
  <2>. QED BY <2>1, <2>3, <2>4 DEF Claims
<1>2. ASSUME NEW t \in Tabs, ClaimTemplate(t) PROVE Claims'
  <2>1. /\ \A x \in Tabs : x # t => tab'[x] = tab[x]
        /\ tab'[t].answer # "claiming" /\ tab'[t].seed = tab[t].seed
        /\ template' = FALSE /\ tab[t].answer = "claiming"
    BY <1>2, ClaimTemplateEffect DEF ClaimTemplate
  <2>2. \A x \in Tabs : ~Holds(x) /\ (x # t => tab[x].answer # "claiming")
    BY <2>1 DEF Claims
  <2>3. \A x \in Tabs : (Holds(x)' => x = t) /\ tab'[x].answer # "claiming"
    BY <2>1, <2>2 DEF Holds
  <2>. QED BY <2>1, <2>3 DEF Claims
<1>3. ASSUME NEW t \in Tabs, Bundle(t) \/ ParseTemplate(t) \/ Connect(t) PROVE Claims'
  BY <1>3, LoadingEffect, ClaimsKept
<1>4. ASSUME NEW t \in Tabs, Mount(t) PROVE Claims'
  BY <1>4, MountEffect, ClaimsKept DEF Mount
<1>5. ASSUME NEW t \in Tabs, Hydrate(t) PROVE Claims'
  BY <1>5, HydrateTab, ClaimsKept DEF Hydrate
<1>6. ASSUME NEW t \in Tabs, NEW u \in Inputs, NEW at \in Updates, Type(t, u, at) PROVE Claims'
  BY <1>6, ClaimsKept DEF Type, NoClaim, Holds
<1>7. ASSUME NEW t \in Tabs, Enter(t) PROVE Claims'
  BY <1>7, EnterTab, ClaimsKept DEF Enter
<1>8. ASSUME NEW t \in Tabs, Break(t) PROVE Claims'
  BY <1>8, BreakEffect, ClaimsKept
<1>9. ASSUME NEW t \in Tabs, Leave(t) PROVE Claims'
  BY <1>9, LeaveTab, ClaimsKept DEF Leave
<1>10. CASE Restart
  BY <1>10, RestartEffect, ClaimsKept
<1>11. CASE UNCHANGED session
  BY <1>11, ClaimsKept DEF session, NoClaim, Holds
<1>. QED BY <1>1, <1>2, <1>3, <1>4, <1>5, <1>6, <1>7, <1>8, <1>9, <1>10, <1>11, Cases

\* Where nothing is made, only that makers stay mounted or leave matters.
LEMMA HistoryKept ==
    ASSUME SessionTypeOK, History, UNCHANGED <<made, need>>,
           \A x \in Tabs : tab[x].pc \in {"mounted", "left"} => tab'[x].pc \in {"mounted", "left"}
    PROVE  History'
BY DEF History, Made, SessionTypeOK

\* With one update more, which builds on earlier ones.
LEMMA HistoryGrows ==
    ASSUME SessionTypeOK, History, NEW u \in Updates, NEW t \in Tabs, u \notin Made,
           u \in Tabs => u = t,
           made' = made \cup {[update |-> u, by |-> t]}, tab'[t].pc = "mounted",
           \A x \in Tabs : tab[x].pc \in {"mounted", "left"} => tab'[x].pc \in {"mounted", "left"},
           \A x \in Updates : x # u => need'[x] = need[x],
           need'[u] \subseteq Made, \A y \in need'[u] : need[y] \subseteq need'[u]
    PROVE  History'
<1>1. Made' = Made \cup {u}
  <2>. DEFINE new == [update |-> u, by |-> t]
  <2>1. made' = made \cup {new} /\ new.update = u
    OBVIOUS
  <2>. HIDE DEF new
  <2>. QED BY <2>1 DEF Made
<1>2. Made \subseteq Updates
  BY DEF Made, SessionTypeOK
<1>3. IsFiniteSet(Made)'
  <2>1. IsFiniteSet(Made \cup {u})
    BY FS_AddElement DEF History
  <2>. QED BY <1>1, <2>1
<1>4. ASSUME NEW m \in made'
      PROVE  /\ m.update \in Tabs => m.update = m.by
             /\ tab'[m.by].pc \in {"mounted", "left"}
             /\ m \in made \/ (m = [update |-> u, by |-> t] /\ m.update = u)
  <2>1. CASE m \in made
    BY <2>1 DEF History, SessionTypeOK
  <2>2. CASE m = [update |-> u, by |-> t]
    BY <2>2
  <2>. QED BY <1>4, <2>1, <2>2
<1>5. \A m \in made : m.update # u
  BY DEF Made
<1>6. \A m, n \in made' : m.update = n.update => m = n
  BY <1>4, <1>5 DEF History
<1>7. \A x \in Updates : x \notin need'[x] /\ need'[x] \subseteq Made'
  BY <1>1 DEF History
<1>8. \A x \in Updates : x \notin Made' => need'[x] = {}
  BY <1>1 DEF History
<1>9. \A x \in Updates : \A y \in need'[x] : need'[y] \subseteq need'[x]
  <2>. SUFFICES ASSUME NEW x \in Updates, NEW y \in need'[x] PROVE need'[y] \subseteq need'[x]
    OBVIOUS
  <2>1. y \in Made /\ y # u /\ y \in Updates
    BY <1>2 DEF History
  <2>. QED BY <2>1 DEF History
<1>. QED BY <1>3, <1>4, <1>6, <1>7, <1>8, <1>9 DEF History

\* Updates keep what they build on.
LEMMA HistoryStep ==
    ASSUME SessionTypeOK, History, Holdings, [SessionNext]_session
    PROVE  History'
<1>. DEFINE Stays == \A x \in Tabs : tab[x].pc \in {"mounted", "left"} => tab'[x].pc \in {"mounted", "left"}
<1>1. ASSUME NEW t \in Tabs, ReadTemplate(t) \/ ClaimTemplate(t) PROVE History'
  BY <1>1, ReadTemplateEffect, ClaimTemplateEffect, HistoryKept DEF Steady
<1>2. ASSUME NEW t \in Tabs, Bundle(t) \/ ParseTemplate(t) \/ Connect(t) PROVE History'
  BY <1>2, LoadingEffect, HistoryKept DEF Steady
<1>3. ASSUME NEW t \in Tabs, Mount(t) PROVE History'
  <2>1. Stays /\ tab[t].pc = "bundled" /\ tab'[t].pc = "mounted"
    BY <1>3, MountEffect DEF Steady
  <2>2. t \notin Made
    BY <2>1 DEF History, Made
  <2>3. need[t] = {} /\ t \in Updates
    BY <2>2 DEF History, Updates
  <2>4. made' = made \cup {[update |-> t, by |-> t]} /\ need' = need
    BY <1>3 DEF Mount
  <2>. QED BY <2>1, <2>2, <2>3, <2>4, HistoryGrows
<1>4. ASSUME NEW t \in Tabs, Hydrate(t) PROVE History'
  <2>1. Stays
    BY <1>4, HydrateTab DEF Steady
  <2>. QED BY <1>4, <2>1, HistoryKept DEF Hydrate
<1>5. ASSUME NEW t \in Tabs, NEW u \in Inputs, NEW at \in Updates, Type(t, u, at) PROVE History'
  <2>1. /\ u \notin Made /\ Mounted(t) /\ made' = made \cup {[update |-> u, by |-> t]}
        /\ \A x \in Updates : x # u => need'[x] = need[x]
        /\ \A y \in need'[u] : With(y) \subseteq need'[u] /\ y \in Whole(doc[t])
        /\ UNCHANGED tab
    BY <1>5, TypeEffect
  <2>2. u \in Updates /\ u \notin Tabs
    BY SessionConstants DEF Updates
  <2>3. need'[u] \subseteq Made /\ \A y \in need'[u] : need[y] \subseteq need'[u]
    BY <2>1 DEF Whole, Holdings, With
  <2>. QED BY <2>1, <2>2, <2>3, HistoryGrows DEF Mounted
<1>6. ASSUME NEW t \in Tabs, Enter(t) PROVE History'
  BY <1>6, EnterTab, HistoryKept DEF Enter, Steady
<1>7. ASSUME NEW t \in Tabs, Break(t) PROVE History'
  BY <1>7, BreakEffect, HistoryKept DEF Steady
<1>8. ASSUME NEW t \in Tabs, Leave(t) PROVE History'
  <2>1. Stays
    BY <1>8, LeaveTab DEF Steady
  <2>. QED BY <1>8, <2>1, HistoryKept DEF Leave
<1>9. CASE Restart
  BY <1>9, RestartEffect, HistoryKept DEF Steady
<1>10. CASE UNCHANGED session
  BY <1>10, HistoryKept DEF session
<1>. QED BY <1>1, <1>2, <1>3, <1>4, <1>5, <1>6, <1>7, <1>8, <1>9, <1>10, Cases

\* Nothing is made or typed, and what a Y.Doc holds was made.
LEMMA HoldingsKept ==
    ASSUME Holdings, made' = made, need' = need, early' = early,
           body' \subseteq Made,
           \A b \in Browsers : idb'[b] \subseteq Made,
           \A x \in Tabs : doc[x] \subseteq doc'[x] /\ doc'[x] \subseteq Made /\ (~Mounted(x) => doc'[x] = doc[x]),
           \A x \in Tabs : /\ tab'[x].pc = "mounted" <=> tab[x].pc = "mounted"
                           /\ tab'[x].hydrated => tab[x].hydrated \/ Mounted(x)
                           /\ tab'[x].socket \in {"connecting", "open", "joined"}
                                 => tab[x].socket \in {"connecting", "open", "joined"},
           SessionTypeOK
    PROVE  Holdings'
<1>1. Made' = Made /\ \A m \in made : With(m.update)' = With(m.update)
  BY DEF Made, With
<1>2. \A x \in Tabs : Mounted(x)' <=> Mounted(x)
  BY DEF Mounted
<1>3. \A m \in made : m.by \in Tabs
  BY DEF SessionTypeOK
<1>4. \A m \in made : Mounted(m.by) => With(m.update) \subseteq doc'[m.by]
  BY <1>3 DEF Holdings
<1>5. \A t \in Tabs : /\ doc'[t] \subseteq Made'
                      /\ tab'[t].hydrated => Mounted(t)'
                      /\ ~Mounted(t)' => doc'[t] = {}
                      /\ tab'[t].socket \in {"connecting", "open", "joined"} => Mounted(t)'
  BY <1>1, <1>2 DEF Holdings
<1>. QED BY <1>1, <1>2, <1>3, <1>4, <1>5 DEF Holdings

\* Steps that leave the Y.Docs alone leave alone who holds what.
LEMMA HoldingsSteady ==
    ASSUME SessionTypeOK, Holdings, UNCHANGED <<doc, idb, made, need, early>>, body' \subseteq body,
           \A x \in Tabs : Steady(x)
    PROVE  Holdings'
BY HoldingsKept DEF Holdings, Steady

\* What is held was made, and a mounted tab has what it made.
LEMMA HoldingsStep ==
    ASSUME SessionTypeOK, History, Holdings, [SessionNext]_session
    PROVE  Holdings'
<1>0. \A u \in Updates : need[u] \subseteq Made
  BY DEF History
<1>1. ASSUME NEW t \in Tabs, ReadTemplate(t) \/ ClaimTemplate(t) PROVE Holdings'
  BY <1>1, ReadTemplateEffect, ClaimTemplateEffect, HoldingsSteady
<1>2. ASSUME NEW t \in Tabs, Bundle(t) \/ ParseTemplate(t) \/ Connect(t) PROVE Holdings'
  BY <1>2, LoadingEffect, HoldingsSteady
<1>3. ASSUME NEW t \in Tabs, Mount(t) PROVE Holdings'
  <2>1. /\ \A x \in Tabs : x # t => Steady(x) /\ tab'[x] = tab[x]
        /\ tab[t].pc = "bundled" /\ tab'[t].pc = "mounted" /\ tab'[t].hydrated = tab[t].hydrated
    BY <1>3, MountEffect
  <2>. DEFINE new == [update |-> t, by |-> t]
  <2>2. /\ made' = made \cup {new} /\ new.update = t /\ new.by = t
        /\ early' = early \cup {t} /\ UNCHANGED <<idb, body, need>>
        /\ doc'[t] = {t} /\ \A x \in Tabs : x # t => doc'[x] = doc[x]
    BY <1>3 DEF Mount, SessionTypeOK
  <2>. HIDE DEF new
  <2>3. Made' = Made \cup {t}
    BY <2>2 DEF Made
  <2>4. t \notin Made /\ t \in Updates
    BY <2>1 DEF History, Made, Updates
  <2>5. need[t] = {}
    BY <2>4 DEF History
  <2>6. \A m \in made : m.by # t /\ m.by \in Tabs
    BY <2>1 DEF History, SessionTypeOK
  <2>7. \A m \in made' : Mounted(m.by)' => With(m.update)' \subseteq doc'[m.by]
    <3>1. \A m \in made : Mounted(m.by)' => With(m.update)' \subseteq doc'[m.by]
      BY <2>1, <2>2, <2>6 DEF Holdings, Mounted, With
    <3>2. With(t)' \subseteq doc'[t]
      BY <2>2, <2>5 DEF With
    <3>. QED BY <2>2, <3>1, <3>2
  <2>8. \A x \in Tabs : /\ doc'[x] \subseteq Made'
                        /\ tab'[x].hydrated => Mounted(x)'
                        /\ ~Mounted(x)' => doc'[x] = {}
                        /\ tab'[x].socket \in {"connecting", "open", "joined"} => Mounted(x)'
    BY <2>1, <2>2, <2>3 DEF Holdings, Mounted
  <2>. QED BY <2>2, <2>3, <2>7, <2>8 DEF Holdings
<1>4. ASSUME NEW t \in Tabs, Hydrate(t) PROVE Holdings'
  <2>1. /\ \A x \in Tabs : x # t => Steady(x) /\ tab'[x] = tab[x]
        /\ tab[t].pc = "mounted" /\ tab'[t].pc = "mounted" /\ tab'[t].socket = tab[t].socket
    BY <1>4, HydrateTab
  <2>2. PICK more \in SUBSET (doc[t] \cup idb[tab[t].browser]) :
          /\ body' = body \cup more
          /\ doc'[t] = doc[t] \cup idb[tab[t].browser]
          /\ \A x \in Tabs : x # t => doc[x] \subseteq doc'[x] /\ doc'[x] \subseteq doc[x] \cup more
          /\ \A x \in Tabs : x # t /\ ~InRoom(x) => doc'[x] = doc[x]
          /\ \A b \in Browsers : \A w \in idb'[b] :
                    \/ w \in idb[b] \/ (w \in doc[t] /\ b = tab[t].browser)
                    \/ \E x \in Tabs : tab[x].hydrated /\ tab[x].browser = b /\ w \in doc[x] \cup more
          /\ UNCHANGED <<template, made, need, early, breaks>>
    BY <1>4, HydrateEffect
  <2>3. tab[t].browser \in Browsers
    BY DEF SessionTypeOK, Tab
  <2>4. more \subseteq Made /\ doc'[t] \subseteq Made
    BY <2>2, <2>3 DEF Holdings
  <2>5. body' \subseteq Made /\ \A b \in Browsers : idb'[b] \subseteq Made
    <3>1. \A x \in Tabs : doc[x] \subseteq Made
      BY DEF Holdings
    <3>2. \A b \in Browsers : idb[b] \subseteq Made
      BY DEF Holdings
    <3>. QED BY <2>2, <2>4, <3>1, <3>2 DEF Holdings
  <2>6. \A x \in Tabs : ~Mounted(x) => x # t /\ ~InRoom(x)
    BY <2>1 DEF Holdings, Mounted, InRoom
  <2>7. \A x \in Tabs : doc[x] \subseteq doc'[x] /\ doc'[x] \subseteq Made /\ (~Mounted(x) => doc'[x] = doc[x])
    BY <2>2, <2>4, <2>6 DEF Holdings
  <2>8. \A x \in Tabs : /\ tab'[x].pc = "mounted" <=> tab[x].pc = "mounted"
                        /\ tab'[x].hydrated => tab[x].hydrated \/ Mounted(x)
                        /\ tab'[x].socket \in {"connecting", "open", "joined"}
                              => tab[x].socket \in {"connecting", "open", "joined"}
    BY <2>1 DEF Steady, Mounted
  <2>. QED BY <2>2, <2>5, <2>7, <2>8, HoldingsKept
<1>5. ASSUME NEW t \in Tabs, NEW u \in Inputs, NEW at \in Updates, Type(t, u, at) PROVE Holdings'
  <2>1. PICK sent \in BOOLEAN :
             /\ u \notin Made /\ Mounted(t)
             /\ made' = made \cup {[update |-> u, by |-> t]}
             /\ \A x \in Updates : x # u => need'[x] = need[x]
             /\ \A y \in need'[u] : With(y) \subseteq need'[u] /\ y \in Whole(doc[t])
             /\ body' = (IF sent THEN body \cup {u} ELSE body)
             /\ early' = (IF sent \/ InRoom(t) THEN early ELSE early \cup {u})
             /\ doc'[t] = doc[t] \cup {u}
             /\ \A x \in Tabs : doc'[x] = doc[x] \/ doc'[x] = doc[x] \cup {u}
             /\ \A x \in Tabs : x # t /\ (~sent \/ ~InRoom(x)) => doc'[x] = doc[x]
             /\ \A b \in Browsers : idb[b] \subseteq idb'[b] /\ idb'[b] \subseteq idb[b] \cup {u}
             /\ UNCHANGED <<template, tab, breaks>>
    BY <1>5, TypeEffect
  <2>. DEFINE new == [update |-> u, by |-> t]
  <2>2. made' = made \cup {new} /\ new.update = u /\ new.by = t
    BY <2>1
  <2>. HIDE DEF new
  <2>3. Made' = Made \cup {u}
    BY <2>2 DEF Made
  <2>4. \A x \in Tabs : Mounted(x)' <=> Mounted(x)
    BY <2>1 DEF Mounted
  <2>5. \A m \in made' : Mounted(m.by)' => With(m.update)' \subseteq doc'[m.by]
    <3>1. \A m \in made : m.by \in Tabs /\ m.update \in Updates /\ m.update # u
      BY <2>1 DEF SessionTypeOK, Made
    <3>2. \A m \in made : Mounted(m.by)' => With(m.update)' \subseteq doc'[m.by]
      BY <2>1, <2>4, <3>1 DEF Holdings, With
    <3>3. With(u)' \subseteq doc'[t]
      BY <2>1 DEF With, Whole
    <3>. QED BY <2>2, <3>2, <3>3
  <2>6. \A x \in Tabs : /\ doc'[x] \subseteq Made'
                        /\ tab'[x].hydrated => Mounted(x)'
                        /\ ~Mounted(x)' => doc'[x] = {}
                        /\ tab'[x].socket \in {"connecting", "open", "joined"} => Mounted(x)'
    <3>. SUFFICES ASSUME NEW x \in Tabs
                  PROVE  /\ doc'[x] \subseteq Made'
                         /\ tab'[x].hydrated => Mounted(x)'
                         /\ ~Mounted(x)' => doc'[x] = {}
                         /\ tab'[x].socket \in {"connecting", "open", "joined"} => Mounted(x)'
      OBVIOUS
    <3>1. doc'[x] \subseteq Made'
      BY <2>1, <2>3 DEF Holdings
    <3>2. ~Mounted(x) => x # t /\ ~InRoom(x)
      BY <2>1 DEF Holdings, InRoom
    <3>. QED BY <2>1, <2>4, <3>1, <3>2 DEF Holdings
  <2>7. body' \subseteq Made' /\ early' \subseteq Made' /\ \A b \in Browsers : idb'[b] \subseteq Made'
    BY <2>1, <2>3 DEF Holdings
  <2>. QED BY <2>5, <2>6, <2>7 DEF Holdings
<1>6. ASSUME NEW t \in Tabs, Enter(t) PROVE Holdings'
  <2>1. /\ doc'[t] = doc[t] \cup body
        /\ \A x \in Tabs : x # t => doc'[x] = doc[x]
        /\ \A b \in Browsers : \A w \in idb'[b] :
                 w \in idb[b] \/ (tab[t].hydrated /\ tab[t].browser = b /\ w \in doc[t] \cup body)
        /\ UNCHANGED <<template, body, made, need, early, breaks>>
    BY <1>6, EnterEffect
  <2>2. \A x \in Tabs : Steady(x)
    BY <1>6, EnterTab
  <2>3. Mounted(t) /\ tab[t].socket = "open"
    BY <1>6 DEF Enter, Holdings
  <2>4. tab'[t].socket = "joined" /\ \A x \in Tabs : x # t => tab'[x] = tab[x]
    BY <1>6 DEF Enter, SessionTypeOK, Tab
  <2>5. body \subseteq Made /\ doc[t] \subseteq Made /\ \A b \in Browsers : idb[b] \subseteq Made
    BY DEF Holdings
  <2>6. \A b \in Browsers : idb'[b] \subseteq Made
    BY <2>1, <2>5
  <2>7. \A x \in Tabs : doc[x] \subseteq doc'[x] /\ doc'[x] \subseteq Made /\ (~Mounted(x) => doc'[x] = doc[x])
    BY <2>1, <2>3, <2>5 DEF Holdings
  <2>. QED BY <2>1, <2>2, <2>5, <2>6, <2>7, HoldingsKept DEF Steady
<1>7. ASSUME NEW t \in Tabs, Break(t) PROVE Holdings'
  BY <1>7, BreakEffect, HoldingsSteady
<1>8. ASSUME NEW t \in Tabs, Leave(t) PROVE Holdings'
  <2>1. /\ \A x \in Tabs : x # t => Steady(x) /\ tab'[x] = tab[x]
        /\ tab'[t].pc = "left" /\ tab'[t].hydrated = FALSE /\ tab'[t].socket \in {"none", "closed"}
    BY <1>8, LeaveTab
  <2>2. /\ UNCHANGED <<idb, body, made, need, early>> /\ doc'[t] = {}
        /\ \A x \in Tabs : x # t => doc'[x] = doc[x]
    BY <1>8 DEF Leave, SessionTypeOK
  <2>3. \A x \in Tabs : /\ doc'[x] \subseteq Made'
                        /\ tab'[x].hydrated => Mounted(x)'
                        /\ ~Mounted(x)' => doc'[x] = {}
                        /\ tab'[x].socket \in {"connecting", "open", "joined"} => Mounted(x)'
    BY <2>1, <2>2 DEF Holdings, Mounted, Made
  <2>4. \A m \in made : m.by \in Tabs /\ (Mounted(m.by)' => With(m.update)' \subseteq doc'[m.by])
    <3>. SUFFICES ASSUME NEW m \in made, Mounted(m.by)' PROVE m.by \in Tabs /\ With(m.update)' \subseteq doc'[m.by]
      BY DEF SessionTypeOK
    <3>1. m.by \in Tabs
      BY DEF SessionTypeOK
    <3>2. m.by # t /\ Mounted(m.by)
      BY <2>1, <3>1 DEF Mounted
    <3>. QED BY <2>2, <3>1, <3>2 DEF Holdings, With
  <2>. QED BY <2>2, <2>3, <2>4 DEF Holdings, Made
<1>9. CASE Restart
  BY <1>9, RestartEffect, HoldingsSteady DEF Restart, Whole
<1>10. CASE UNCHANGED session
  BY <1>10, HoldingsSteady DEF session, Steady
<1>. QED BY <1>1, <1>2, <1>3, <1>4, <1>5, <1>6, <1>7, <1>8, <1>9, <1>10, Cases

\* IndexedDB keeps up with what is shown.
LEMMA StoredStep ==
    ASSUME SessionTypeOK, History, Holdings, ShownIsStored, [SessionNext]_session
    PROVE  ShownIsStored'
<1>. DEFINE Fits(x) == tab'[x].hydrated => \A w \in Whole(doc[x])' : w \in idb'[tab'[x].browser]
<1>0. SUFFICES \A x \in Tabs : Fits(x)
  BY DEF ShownIsStored
<1>a. (\A x \in Tabs : Steady(x)) /\ UNCHANGED <<doc, idb, need>> => \A x \in Tabs : Fits(x)
  BY DEF ShownIsStored, Whole, Steady
<1>1. ASSUME NEW t \in Tabs, ReadTemplate(t) \/ ClaimTemplate(t) PROVE \A x \in Tabs : Fits(x)
  BY <1>1, <1>a, ReadTemplateEffect, ClaimTemplateEffect
<1>2. ASSUME NEW t \in Tabs, Bundle(t) \/ ParseTemplate(t) \/ Connect(t) PROVE \A x \in Tabs : Fits(x)
  BY <1>2, <1>a, LoadingEffect
<1>3. ASSUME NEW t \in Tabs, Mount(t) PROVE \A x \in Tabs : Fits(x)
  <2>1. /\ \A x \in Tabs : x # t => tab'[x] = tab[x]
        /\ tab[t].pc = "bundled" /\ tab'[t].hydrated = tab[t].hydrated
    BY <1>3, MountEffect
  <2>2. ~tab[t].hydrated
    BY <2>1 DEF Holdings, Mounted
  <2>3. UNCHANGED <<idb, need>> /\ \A x \in Tabs : x # t => doc'[x] = doc[x]
    BY <1>3 DEF Mount, SessionTypeOK
  <2>. QED BY <2>1, <2>2, <2>3 DEF ShownIsStored, Whole
<1>4. ASSUME NEW t \in Tabs, Hydrate(t) PROVE \A x \in Tabs : Fits(x)
  <2>1. /\ \A x \in Tabs : x # t => tab'[x] = tab[x]
        /\ tab'[t].browser = tab[t].browser
    BY <1>4, HydrateTab
  <2>2. /\ doc'[t] = doc[t] \cup idb[tab[t].browser]
        /\ \A b \in Browsers : idb[b] \subseteq idb'[b]
        /\ doc[t] \subseteq idb'[tab[t].browser]
        /\ \A x \in Tabs : x # t /\ tab[x].hydrated =>
               Whole(doc'[x]) \ Whole(doc[x]) \subseteq idb'[tab[x].browser]
        /\ UNCHANGED need
    BY <1>4, HydrateEffect
  <2>3. \A x \in Tabs : tab[x].browser \in Browsers
    BY DEF SessionTypeOK, Tab
  <2>4. \A x \in Tabs : Whole(doc[x])' = Whole(doc'[x])
    BY <2>2 DEF Whole
  <2>5. Fits(t)
    BY <2>1, <2>2, <2>3 DEF Whole
  <2>6. ASSUME NEW x \in Tabs, x # t PROVE Fits(x)
    BY <2>1, <2>2, <2>3, <2>4, <2>6 DEF ShownIsStored
  <2>. QED BY <2>5, <2>6
<1>5. ASSUME NEW t \in Tabs, NEW u \in Inputs, NEW at \in Updates, Type(t, u, at) PROVE \A x \in Tabs : Fits(x)
  <2>1. PICK sent \in BOOLEAN :
             /\ u \notin Made
             /\ \A x \in Updates : x # u => need'[x] = need[x]
             /\ \A y \in need'[u] : With(y) \subseteq need'[u] /\ y \in Whole(doc[t])
             /\ \A x \in Tabs : doc'[x] = doc[x] \/ doc'[x] = doc[x] \cup {u}
             /\ \A b \in Browsers : idb[b] \subseteq idb'[b] /\ idb'[b] \subseteq idb[b] \cup {u}
             /\ \A x \in Tabs : tab[x].hydrated /\ u \in doc'[x] /\ need'[u] \subseteq doc[x] => u \in idb'[tab[x].browser]
             /\ UNCHANGED <<template, tab, breaks>>
    BY <1>5, TypeEffect
  <2>2. u \notin need'[u]
    BY <2>1 DEF Whole, Holdings
  <2>3. ASSUME NEW x \in Tabs, tab[x].hydrated, NEW w \in Whole(doc[x])' PROVE w \in idb'[tab[x].browser]
    <3>0. tab[x].browser \in Browsers /\ doc[x] \subseteq Made /\ Made \subseteq Updates
      BY DEF SessionTypeOK, Tab, Holdings, Made
    <3>1. CASE w = u
      BY <2>1, <2>2, <2>3, <3>0, <3>1 DEF Whole
    <3>2. CASE w # u
      <4>1. w \in doc[x] /\ w \in Updates /\ need'[w] = need[w] /\ u \notin need[w]
        BY <2>1, <2>3, <3>0, <3>2 DEF Whole, History
      <4>2. w \in Whole(doc[x])
        BY <2>1, <2>3, <4>1 DEF Whole
      <4>. QED BY <2>1, <2>3, <3>0, <4>2 DEF ShownIsStored
    <3>. QED BY <3>1, <3>2
  <2>. QED BY <2>1, <2>3
<1>6. ASSUME NEW t \in Tabs, Enter(t) PROVE \A x \in Tabs : Fits(x)
  <2>1. \A x \in Tabs : Steady(x)
    BY <1>6, EnterTab
  <2>2. /\ \A x \in Tabs : x # t => doc'[x] = doc[x]
        /\ \A b \in Browsers : idb[b] \subseteq idb'[b]
        /\ tab[t].hydrated => Whole(doc'[t]) \ Whole(doc[t]) \subseteq idb'[tab[t].browser]
        /\ UNCHANGED need
    BY <1>6, EnterEffect
  <2>3. \A x \in Tabs : tab[x].browser \in Browsers /\ Whole(doc[x])' = Whole(doc'[x])
    BY <2>2 DEF SessionTypeOK, Tab, Whole
  <2>4. \A x \in Tabs : tab[x].hydrated => Whole(doc'[x]) \ Whole(doc[x]) \subseteq idb'[tab[x].browser]
    BY <2>2
  <2>. QED BY <2>1, <2>2, <2>3, <2>4 DEF ShownIsStored, Steady
<1>7. ASSUME NEW t \in Tabs, Break(t) PROVE \A x \in Tabs : Fits(x)
  BY <1>7, <1>a, BreakEffect
<1>8. ASSUME NEW t \in Tabs, Leave(t) PROVE \A x \in Tabs : Fits(x)
  <2>1. /\ \A x \in Tabs : x # t => tab'[x] = tab[x]
        /\ tab'[t].hydrated = FALSE
    BY <1>8, LeaveTab
  <2>2. UNCHANGED <<idb, need>> /\ \A x \in Tabs : x # t => doc'[x] = doc[x]
    BY <1>8 DEF Leave, SessionTypeOK
  <2>. QED BY <2>1, <2>2 DEF ShownIsStored, Whole
<1>9. CASE Restart
  BY <1>9, <1>a, RestartEffect
<1>10. CASE UNCHANGED session
  BY <1>10, <1>a DEF session, Steady
<1>. QED BY <1>1, <1>2, <1>3, <1>4, <1>5, <1>6, <1>7, <1>8, <1>9, <1>10, Cases

-----------------------------------------------------------------------------
(* What is unsent stays at home.                                           *)

\* Y.Docs and bodies are the same, or the body is what it shows of itself.
LEMMA HomeSteady ==
    ASSUME SessionTypeOK, History, UnsentAtHome,
           UNCHANGED <<doc, idb, made, need, early>>, body' = body \/ body' = Whole(body),
           \A x \in Tabs : Steady(x)
    PROVE  UnsentAtHome'
<1>. SUFFICES ASSUME NEW m \in made, Unsent(m.update)' PROVE AtHome(m)'
  BY DEF UnsentAtHome
<1>1. m.update \in Updates /\ m.by \in Tabs /\ body \subseteq Updates
  BY DEF SessionTypeOK
<1>2. Unsent(m.update)
  <2>1. CASE body' = body
    BY <2>1 DEF Unsent, Whole
  <2>2. CASE body' = Whole(body)
    <3>1. Whole(body)' \subseteq Whole(body)
      BY <2>2 DEF Whole
    <3>2. need[m.update] \subseteq Whole(body)
      BY <3>1 DEF Unsent
    <3>3. m.update \notin body
      BY <2>2, <3>2 DEF Unsent, Whole
    <3>. QED BY <3>2, <3>3 DEF Unsent
  <2>. QED BY <2>1, <2>2
<1>3. AtHome(m)
  BY <1>2 DEF UnsentAtHome
<1>4. Home(m)' = Home(m) /\ (Mounted(m.by)' <=> Mounted(m.by)) /\ tab'[m.by].hydrated = tab[m.by].hydrated
  BY <1>1 DEF Home, Mounted, Steady
<1>5. \A x \in Updates : With(x)' = With(x)
  BY DEF With
<1>6. \A x \in Tabs : tab'[x].browser = tab[x].browser /\ tab'[x].hydrated = tab[x].hydrated
  BY DEF Steady
<1>. QED BY <1>3, <1>4, <1>5, <1>6 DEF AtHome

\* The seed of a tab that mounts is with it alone.
LEMMA HomeMount ==
    ASSUME SessionTypeOK, History, Holdings, UnsentAtHome, NEW t \in Tabs, Mount(t)
    PROVE  UnsentAtHome'
<1>1. /\ \A x \in Tabs : x # t => Steady(x) /\ tab'[x] = tab[x]
      /\ tab[t].pc = "bundled" /\ tab'[t].pc = "mounted" /\ tab'[t].browser = tab[t].browser
      /\ tab'[t].hydrated = tab[t].hydrated
  BY MountEffect
<1>. DEFINE new == [update |-> t, by |-> t]
<1>2. /\ made' = made \cup {new} /\ new.update = t /\ new.by = t
      /\ early' = early \cup {t} /\ UNCHANGED <<idb, body, need>>
      /\ doc'[t] = {t} /\ \A x \in Tabs : x # t => doc'[x] = doc[x]
  BY DEF Mount, SessionTypeOK
<1>. HIDE DEF new
<1>3. t \notin Made /\ t \in Updates /\ ~tab[t].hydrated
  BY <1>1 DEF History, Made, Updates, Holdings, Mounted
<1>4. /\ \A x \in Updates : t \notin need[x]
      /\ \A x \in Tabs : t \notin doc[x]
      /\ \A b \in Browsers : t \notin idb[b]
  BY <1>3 DEF History, Holdings
<1>5. ASSUME NEW m \in made, Unsent(m.update) PROVE AtHome(m)'
  <2>1. AtHome(m)
    BY <1>5 DEF UnsentAtHome
  <2>2. m.by \in Tabs /\ m.by # t /\ m.update # t
    BY <1>1, <1>3 DEF History, SessionTypeOK, Made
  <2>3. Home(m)' = Home(m) /\ (Mounted(m.by)' <=> Mounted(m.by)) /\ tab'[m.by].hydrated = tab[m.by].hydrated
    BY <1>1, <2>2 DEF Home, Mounted
  <2>4. \A x \in Updates : With(x)' = With(x)
    BY <1>2 DEF With
  <2>5. \A x \in Tabs : m.update \in doc'[x] => x # t /\ doc'[x] = doc[x] /\ tab'[x] = tab[x]
    BY <1>1, <1>2, <2>2
  <2>. QED BY <1>2, <2>1, <2>3, <2>4, <2>5 DEF AtHome
<1>6. AtHome(new)'
  <2>1. Home(new)' = tab'[t].browser
    BY <1>2 DEF Home
  <2>2. \A x \in Tabs : t \in doc'[x] => x = t
    BY <1>2, <1>4
  <2>. QED BY <1>1, <1>2, <1>3, <1>4, <2>1, <2>2 DEF AtHome
<1>7. \A m \in made : Unsent(m.update)' => Unsent(m.update)
  BY <1>2 DEF Unsent, Whole
<1>. QED BY <1>2, <1>5, <1>6, <1>7 DEF UnsentAtHome

\* A tab that leaves takes its Y.Doc with it, and what IndexedDB has stays.
LEMMA HomeLeave ==
    ASSUME SessionTypeOK, History, Holdings, UnsentAtHome, NEW t \in Tabs, Leave(t)
    PROVE  UnsentAtHome'
<1>1. /\ \A x \in Tabs : x # t => Steady(x) /\ tab'[x] = tab[x]
      /\ tab'[t].pc = "left" /\ tab'[t].browser = tab[t].browser
  BY LeaveTab
<1>2. /\ UNCHANGED <<idb, body, made, need, early>> /\ doc'[t] = {}
      /\ \A x \in Tabs : x # t => doc'[x] = doc[x]
  BY DEF Leave, SessionTypeOK
<1>. SUFFICES ASSUME NEW m \in made, Unsent(m.update)' PROVE AtHome(m)'
  BY <1>2 DEF UnsentAtHome
<1>3. Unsent(m.update) /\ m.by \in Tabs
  BY <1>2 DEF Unsent, Whole, SessionTypeOK
<1>4. AtHome(m)
  BY <1>3 DEF UnsentAtHome
<1>5. Home(m)' = Home(m) /\ (Mounted(m.by)' => m.by # t /\ Mounted(m.by) /\ tab'[m.by] = tab[m.by])
  BY <1>1, <1>3 DEF Home, Mounted
<1>6. \A x \in Updates : With(x)' = With(x)
  BY <1>2 DEF With
<1>7. \A x \in Tabs : m.update \in doc'[x] => x # t /\ doc'[x] = doc[x] /\ tab'[x] = tab[x]
  BY <1>1, <1>2
<1>. QED BY <1>2, <1>4, <1>5, <1>6, <1>7 DEF AtHome

\* The body the gateway replays has nothing that is unsent.
LEMMA HomeEnter ==
    ASSUME SessionTypeOK, History, Holdings, UnsentAtHome, NEW t \in Tabs, Enter(t)
    PROVE  UnsentAtHome'
<1>1. \A x \in Tabs : Steady(x)
  BY EnterTab
<1>2. /\ doc'[t] = doc[t] \cup body
      /\ \A x \in Tabs : x # t => doc'[x] = doc[x]
      /\ \A b \in Browsers : idb[b] \subseteq idb'[b]
      /\ \A b \in Browsers : \A w \in idb'[b] :
               w \in idb[b] \/ (tab[t].hydrated /\ tab[t].browser = b /\ w \in doc[t] \cup body)
      /\ UNCHANGED <<template, body, made, need, early, breaks>>
  BY EnterEffect
<1>. SUFFICES ASSUME NEW m \in made, Unsent(m.update)' PROVE AtHome(m)'
  BY <1>2 DEF UnsentAtHome
<1>3. Unsent(m.update) /\ m.by \in Tabs /\ m.update \notin body
  BY <1>2 DEF Unsent, Whole, SessionTypeOK
<1>4. AtHome(m)
  BY <1>3 DEF UnsentAtHome
<1>5. Home(m)' = Home(m) /\ (Mounted(m.by)' <=> Mounted(m.by)) /\ tab'[m.by].hydrated = tab[m.by].hydrated
      /\ Home(m) \in Browsers
  BY <1>1, <1>3 DEF Home, Mounted, Steady, SessionTypeOK, Tab
<1>6. \A x \in Updates : With(x)' = With(x)
  BY <1>2 DEF With
<1>7. \A x \in Tabs : /\ m.update \in doc'[x] => m.update \in doc[x]
                      /\ doc[x] \subseteq doc'[x] /\ tab[x].browser \in Browsers
                      /\ tab'[x].browser = tab[x].browser /\ tab'[x].hydrated = tab[x].hydrated
  BY <1>1, <1>2, <1>3 DEF Steady, SessionTypeOK, Tab
<1>8. \A b \in Browsers : m.update \in idb'[b] => m.update \in idb[b]
  BY <1>2, <1>3, <1>4 DEF AtHome
<1>9. m.update \in early' /\ \A x \in Tabs : m.update \in doc'[x] =>
          /\ tab'[x].browser = Home(m)'
          /\ tab'[x].hydrated => m.update \in idb'[Home(m)']
          /\ ~tab'[x].hydrated => m.by = x
  BY <1>2, <1>4, <1>5, <1>7 DEF AtHome
<1>10. \A b \in Browsers : m.update \in idb'[b] =>
          b = Home(m)' /\ (Mounted(m.by)' => tab'[m.by].hydrated)
  BY <1>4, <1>5, <1>8 DEF AtHome
<1>11. \A x \in Updates : m.update \in need'[x] /\ m.update \in idb'[Home(m)'] =>
          With(x)' \subseteq idb'[Home(m)']
  BY <1>2, <1>4, <1>5, <1>6, <1>8 DEF AtHome
<1>12. \A x \in Updates : m.update \in need'[x] =>
          \A y \in Tabs : m.update \in doc'[y] /\ m.update \notin idb'[tab'[y].browser] =>
              With(x)' \subseteq doc'[y]
  <2>. SUFFICES ASSUME NEW x \in Updates, m.update \in need'[x], NEW y \in Tabs,
                       m.update \in doc'[y], m.update \notin idb'[tab'[y].browser]
                PROVE  With(x) \subseteq doc'[y]
    BY <1>6
  <2>1. m.update \in need[x] /\ m.update \in doc[y] /\ m.update \notin idb[tab[y].browser]
    BY <1>2, <1>7
  <2>2. With(x) \subseteq doc[y]
    BY <1>4, <2>1 DEF AtHome
  <2>. QED BY <1>7, <2>2
<1>. QED BY <1>9, <1>10, <1>11, <1>12 DEF AtHome

\* What IndexedDB gives a tab, and what the tab hands on of it, takes with it all
\* that builds on it.
LEMMA HomeHydrate ==
    ASSUME SessionTypeOK, History, Holdings, UnsentAtHome, NEW t \in Tabs, Hydrate(t)
    PROVE  UnsentAtHome'
<1>. DEFINE b    == tab[t].browser
            held == doc[t] \cup idb[b]
<1>1. /\ \A x \in Tabs : x # t => Steady(x) /\ tab'[x] = tab[x]
      /\ tab[t].pc = "mounted" /\ tab'[t].pc = "mounted" /\ tab'[t].browser = b
      /\ tab[t].hydrated = FALSE /\ tab'[t].hydrated = TRUE
  BY HydrateTab
<1>2. PICK more \in SUBSET held :
        /\ more = {} \/ more = Whole(held) \ Whole(doc[t])
        /\ body' = body \cup more
        /\ doc'[t] = held
        /\ \A x \in Tabs : x # t => doc[x] \subseteq doc'[x] /\ doc'[x] \subseteq doc[x] \cup more
        /\ \A c \in Browsers : idb[c] \subseteq idb'[c]
        /\ doc[t] \subseteq idb'[b]
        /\ \A c \in Browsers : \A w \in idb'[c] :
              \/ w \in idb[c] \/ (w \in doc[t] /\ c = b)
              \/ \E x \in Tabs : tab[x].hydrated /\ tab[x].browser = c /\ w \in doc[x] \cup more
        /\ UNCHANGED <<template, made, need, early, breaks>>
  BY HydrateEffect
<1>3. b \in Browsers /\ Mounted(t) /\ \A x \in Tabs : tab[x].browser \in Browsers
  BY <1>1 DEF SessionTypeOK, Tab, Mounted
<1>4. idb[b] \subseteq idb'[b] /\ held \subseteq idb'[b]
  BY <1>2, <1>3
<1>. HIDE DEF held
<1>5. ASSUME NEW q \in made, Unsent(q.update), q.update \in doc[t]
      PROVE  With(q.update) \subseteq doc[t]
  BY <1>1, <1>3, <1>5 DEF UnsentAtHome, AtHome, Holdings
<1>6. ASSUME NEW m \in made, Unsent(m.update)' PROVE Unsent(m.update)
  <2>1. m.update \in Made /\ m.update \in Updates /\ m.update \notin body /\ m.update \notin more
        /\ need[m.update] \subseteq body \cup more
    BY <1>2, <1>6 DEF Unsent, Made, SessionTypeOK, Whole
  <2>2. CASE need[m.update] \subseteq body
    BY <2>1, <2>2, WholeOfWhole DEF Unsent, SessionTypeOK
  <2>3. CASE ~(need[m.update] \subseteq body)
    <3>1. PICK q \in made : q.update \in need[m.update] /\ Unsent(q.update)
      <4>1. PICK p \in need[m.update] : p \notin body
        BY <2>3
      <4>2. p \in Made /\ ~(With(p) \subseteq body) /\ With(p) \subseteq need[m.update]
        BY <2>1, <4>1 DEF With, History
      <4>. QED BY <4>2, SomeUnsent
    <3>2. q.update \in more /\ q.update \notin body /\ more = Whole(held) \ Whole(doc[t])
      BY <1>2, <2>1, <3>1 DEF Unsent
    <3>3. q.update \notin doc[t]
      BY <1>5, <3>1, <3>2 DEF Whole, With
    <3>4. q.update \in idb[b]
      BY <1>2, <3>2, <3>3 DEF held
    <3>5. With(m.update) \subseteq idb[b]
      BY <1>3, <2>1, <3>1, <3>4 DEF UnsentAtHome, AtHome
    <3>6. m.update \in Whole(held)
      BY <3>5 DEF Whole, With, held
    <3>7. m.update \in Whole(doc[t])
      BY <2>1, <3>2, <3>6
    <3>. QED BY <3>1, <3>3, <3>7 DEF Whole
  <2>. QED BY <2>2, <2>3
<1>. SUFFICES ASSUME NEW m \in made, Unsent(m.update)' PROVE AtHome(m)'
  BY <1>2 DEF UnsentAtHome
<1>7. Unsent(m.update) /\ m.by \in Tabs /\ m.update \notin body /\ m.update \notin more
  BY <1>2, <1>6 DEF Unsent, SessionTypeOK
<1>8. AtHome(m)
  BY <1>7 DEF UnsentAtHome
<1>9. Home(m)' = Home(m) /\ (Mounted(m.by)' <=> Mounted(m.by)) /\ Home(m) \in Browsers
      /\ (tab[m.by].hydrated => tab'[m.by].hydrated) /\ tab'[t].hydrated
  BY <1>1, <1>7 DEF Home, Mounted, SessionTypeOK, Tab
<1>10. \A x \in Updates : With(x)' = With(x)
  BY <1>2 DEF With
<1>11. m.update \in doc[t] => Home(m) = b /\ m.by = t
  BY <1>1, <1>8 DEF AtHome
<1>12. m.update \in held => Home(m) = b
  BY <1>3, <1>8, <1>11 DEF AtHome, held
<1>13. \A x \in Tabs : x # t /\ m.update \in doc'[x] => m.update \in doc[x]
  BY <1>2, <1>7
<1>14. ASSUME NEW c \in Browsers, m.update \in idb'[c]
       PROVE  m.update \in idb[c] \/ (m.update \in doc[t] /\ c = b)
  <2>1. ASSUME NEW x \in Tabs, tab[x].hydrated, tab[x].browser = c, m.update \in doc[x]
        PROVE  m.update \in idb[c]
    BY <1>8, <2>1 DEF AtHome
  <2>. QED BY <1>2, <1>7, <1>14, <2>1
<1>15. \A x \in Tabs : m.update \in doc'[x] =>
          /\ tab'[x].browser = Home(m)'
          /\ tab'[x].hydrated => m.update \in idb'[Home(m)']
          /\ ~tab'[x].hydrated => m.by = x
  <2>1. m.update \in doc'[t] => tab'[t].browser = Home(m)' /\ m.update \in idb'[Home(m)']
    BY <1>1, <1>2, <1>4, <1>9, <1>12
  <2>2. ASSUME NEW x \in Tabs, x # t, m.update \in doc'[x]
        PROVE  /\ tab'[x].browser = Home(m)'
               /\ tab'[x].hydrated => m.update \in idb'[Home(m)']
               /\ ~tab'[x].hydrated => m.by = x
    BY <1>1, <1>2, <1>8, <1>9, <1>13, <2>2 DEF AtHome
  <2>. QED BY <1>9, <2>1, <2>2
<1>16. \A c \in Browsers : m.update \in idb'[c] =>
          c = Home(m)' /\ (Mounted(m.by)' => tab'[m.by].hydrated)
  BY <1>8, <1>9, <1>11, <1>14 DEF AtHome
<1>17. \A x \in Updates : m.update \in need'[x] /\ m.update \in idb'[Home(m)'] =>
          With(x)' \subseteq idb'[Home(m)']
  <2>. SUFFICES ASSUME NEW x \in Updates, m.update \in need[x], m.update \in idb'[Home(m)]
                PROVE  With(x) \subseteq idb'[Home(m)]
    BY <1>2, <1>9, <1>10
  <2>1. CASE m.update \in idb[Home(m)]
    BY <1>2, <1>8, <1>9, <2>1 DEF AtHome
  <2>2. CASE m.update \notin idb[Home(m)]
    <3>1. m.update \in doc[t] /\ Home(m) = b
      BY <1>9, <1>14, <2>2
    <3>2. With(x) \subseteq doc[t]
      BY <1>8, <2>2, <3>1 DEF AtHome
    <3>. QED BY <1>2, <3>1, <3>2
  <2>. QED BY <2>1, <2>2
<1>18. \A x \in Updates : m.update \in need'[x] =>
          \A y \in Tabs : m.update \in doc'[y] /\ m.update \notin idb'[tab'[y].browser] =>
              With(x)' \subseteq doc'[y]
  <2>. SUFFICES ASSUME NEW x \in Updates, m.update \in need[x], NEW y \in Tabs,
                       m.update \in doc'[y], m.update \notin idb'[tab'[y].browser]
                PROVE  With(x) \subseteq doc'[y]
    BY <1>2, <1>10
  <2>1. y # t
    BY <1>1, <1>2, <1>4
  <2>2. m.update \in doc[y] /\ m.update \notin idb[tab[y].browser] /\ doc[y] \subseteq doc'[y]
    BY <1>1, <1>2, <1>3, <1>13, <2>1
  <2>3. With(x) \subseteq doc[y]
    BY <1>8, <2>2 DEF AtHome
  <2>. QED BY <2>2, <2>3
<1>19. m.update \in early'
  BY <1>2, <1>8 DEF AtHome
<1>. QED BY <1>15, <1>16, <1>17, <1>18, <1>19 DEF AtHome

\* An edit that builds on what is unsent is made where that is, and stays with it;
\* one that is not sent itself is made out of the room.
LEMMA HomeType ==
    ASSUME SessionTypeOK, History, Holdings, ShownIsStored, UnsentAtHome,
           NEW t \in Tabs, NEW u \in Inputs, NEW at \in Updates, Type(t, u, at)
    PROVE  UnsentAtHome'
<1>1. PICK sent \in BOOLEAN :
        /\ u \notin Made /\ Mounted(t)
        /\ made' = made \cup {[update |-> u, by |-> t]}
        /\ \A x \in Updates : x # u => need'[x] = need[x]
        /\ \A y \in need'[u] : With(y) \subseteq need'[u] /\ y \in Whole(doc[t])
        /\ body' = (IF sent THEN body \cup {u} ELSE body)
        /\ ~sent => ~InRoom(t)
        /\ early' = (IF sent \/ InRoom(t) THEN early ELSE early \cup {u})
        /\ doc'[t] = doc[t] \cup {u}
        /\ \A x \in Tabs : doc'[x] = doc[x] \/ doc'[x] = doc[x] \cup {u}
        /\ \A x \in Tabs : x # t /\ (~sent \/ ~InRoom(x)) => doc'[x] = doc[x]
        /\ \A b \in Browsers : idb[b] \subseteq idb'[b] /\ idb'[b] \subseteq idb[b] \cup {u}
        /\ \A x \in Tabs : tab[x].hydrated /\ u \in doc'[x] /\ need'[u] \subseteq doc[x] => u \in idb'[tab[x].browser]
        /\ \A b \in Browsers : u \in idb'[b] => \E x \in Tabs : tab[x].hydrated /\ tab[x].browser = b /\ u \in doc'[x]
        /\ UNCHANGED <<template, tab, breaks>>
  BY TypeEffect
<1>. DEFINE new == [update |-> u, by |-> t]
<1>2. made' = made \cup {new} /\ new.update = u /\ new.by = t
  BY <1>1
<1>. HIDE DEF new
<1>3. /\ \A x \in Updates : u \notin need[x]
      /\ \A x \in Tabs : u \notin doc[x]
      /\ \A b \in Browsers : u \notin idb[b]
      /\ u \notin body /\ u \in Updates
  BY <1>1 DEF History, Holdings, Updates
<1>4. u \notin need'[u] /\ need'[u] \subseteq doc[t] /\ need'[u] \subseteq Whole(doc[t])
  BY <1>1, <1>3 DEF Whole
<1>5. tab' = tab /\ \A x \in Tabs : tab[x].browser \in Browsers
  BY <1>1 DEF SessionTypeOK, Tab
<1>6. ASSUME NEW x \in Updates, x # u PROVE With(x)' = With(x)
  BY <1>1, <1>6 DEF With
<1>7. ASSUME NEW x \in Updates, x # u, x \in Whole(body)' PROVE x \in Whole(body)
  BY <1>1, <1>3, <1>7 DEF Whole
<1>8. ASSUME NEW m \in made, Unsent(m.update)' PROVE Unsent(m.update)
  <2>1. m.update \in Updates /\ m.update # u
    BY <1>1 DEF SessionTypeOK, Made
  <2>2. need[m.update] \subseteq Whole(body)' /\ need[m.update] \subseteq Updates /\ u \notin need[m.update]
    BY <1>1, <1>3, <1>8, <2>1 DEF Unsent, SessionTypeOK
  <2>3. need[m.update] \subseteq Whole(body)
    BY <1>7, <2>2
  <2>4. m.update \notin body
    BY <1>1, <1>8 DEF Unsent
  <2>. QED BY <2>3, <2>4 DEF Unsent
<1>9. ASSUME NEW m \in made, Unsent(m.update)' PROVE AtHome(m)'
  <2>1. Unsent(m.update) /\ AtHome(m)
    BY <1>8, <1>9 DEF UnsentAtHome
  <2>2. m.update \in Updates /\ m.update # u /\ m.by \in Tabs
    BY <1>1 DEF SessionTypeOK, Made
  <2>3. Home(m)' = Home(m) /\ (Mounted(m.by)' <=> Mounted(m.by)) /\ Home(m) \in Browsers
    BY <1>5, <2>2 DEF Home, Mounted
  <2>4. (\A x \in Tabs : m.update \in doc'[x] <=> m.update \in doc[x])
        /\ \A b \in Browsers : m.update \in idb'[b] <=> m.update \in idb[b]
    BY <1>1, <2>2
  <2>5. \A x \in Tabs : doc[x] \subseteq doc'[x]
    BY <1>1
  <2>6. m.update \in early'
    BY <1>1, <2>1 DEF AtHome
  <2>7. \A x \in Tabs : m.update \in doc'[x] =>
          /\ tab'[x].browser = Home(m)'
          /\ tab'[x].hydrated => m.update \in idb'[Home(m)']
          /\ ~tab'[x].hydrated => m.by = x
    BY <1>5, <2>1, <2>3, <2>4 DEF AtHome
  <2>8. \A b \in Browsers : m.update \in idb'[b] =>
          b = Home(m)' /\ (Mounted(m.by)' => tab'[m.by].hydrated)
    BY <1>5, <2>1, <2>3, <2>4 DEF AtHome
  <2>9. \A x \in Updates : m.update \in need'[x] /\ m.update \in idb'[Home(m)'] =>
          With(x)' \subseteq idb'[Home(m)']
    <3>. SUFFICES ASSUME NEW x \in Updates, m.update \in need'[x], m.update \in idb[Home(m)]
                  PROVE  With(x)' \subseteq idb'[Home(m)]
      BY <2>3, <2>4
    <3>1. CASE x # u
      BY <1>1, <1>6, <2>1, <2>3, <3>1 DEF AtHome
    <3>2. CASE x = u
      <4>1. m.update \in doc[t] /\ tab[t].browser = Home(m)
        BY <1>4, <2>1, <3>2 DEF AtHome
      <4>2. tab[t].hydrated
        BY <1>1, <2>1, <2>3, <4>1 DEF AtHome
      <4>3. need'[u] \subseteq idb[Home(m)]
        BY <1>4, <4>1, <4>2 DEF ShownIsStored
      <4>4. u \in idb'[Home(m)]
        BY <1>1, <1>4, <4>1, <4>2
      <4>. QED BY <1>1, <2>3, <3>2, <4>3, <4>4 DEF With
    <3>. QED BY <3>1, <3>2
  <2>10. \A x \in Updates : m.update \in need'[x] =>
          \A y \in Tabs : m.update \in doc'[y] /\ m.update \notin idb'[tab'[y].browser] =>
              With(x)' \subseteq doc'[y]
    <3>. SUFFICES ASSUME NEW x \in Updates, m.update \in need'[x], NEW y \in Tabs,
                         m.update \in doc[y], m.update \notin idb[tab[y].browser]
                  PROVE  With(x)' \subseteq doc'[y]
      BY <1>5, <2>4
    <3>1. CASE x # u
      BY <1>1, <1>6, <2>1, <2>5, <3>1 DEF AtHome
    <3>2. CASE x = u
      <4>1. m.update \in doc[t] /\ tab[t].browser = Home(m) /\ tab[y].browser = Home(m)
        BY <1>4, <2>1, <3>2 DEF AtHome
      <4>2. y = m.by /\ t = m.by
        BY <2>1, <4>1 DEF AtHome
      <4>. QED BY <1>1, <1>4, <3>2, <4>2 DEF With
    <3>. QED BY <3>1, <3>2
  <2>. QED BY <2>6, <2>7, <2>8, <2>9, <2>10 DEF AtHome
<1>10. ASSUME Unsent(u)' PROVE AtHome(new)'
  <2>1. ~sent /\ u \in early'
    BY <1>1, <1>10 DEF Unsent
  <2>2. \A x \in Tabs : u \in doc'[x] => x = t
    BY <1>1, <1>3, <2>1
  <2>3. Home(new)' = tab[t].browser /\ tab[t].browser \in Browsers
    BY <1>2, <1>5 DEF Home
  <2>4. tab[t].hydrated => u \in idb'[tab[t].browser]
    BY <1>1, <1>4
  <2>5. \A b \in Browsers : u \in idb'[b] => b = tab[t].browser /\ tab[t].hydrated
    BY <1>1, <2>2
  <2>6. \A x \in Updates : u \notin need'[x]
    BY <1>1, <1>3, <1>4
  <2>. QED BY <1>2, <1>5, <2>1, <2>2, <2>3, <2>4, <2>5, <2>6 DEF AtHome
<1>. QED BY <1>2, <1>9, <1>10 DEF UnsentAtHome

-----------------------------------------------------------------------------
(* The theorems.                                                           *)

\* Every step keeps the invariant.
LEMMA SessionStep == SessionInv /\ [SessionNext]_session => SessionInv'
<1>. SUFFICES ASSUME SessionInv, [SessionNext]_session PROVE UnsentAtHome'
  BY SessionTypeStep, ClaimsStep, HistoryStep, HoldingsStep, StoredStep DEF SessionInv
<1>1. SessionTypeOK /\ History /\ Holdings /\ ShownIsStored /\ UnsentAtHome
  BY DEF SessionInv
<1>2. CASE \E t \in Tabs : ReadTemplate(t) \/ ClaimTemplate(t)
  BY <1>1, <1>2, ReadTemplateEffect, ClaimTemplateEffect, HomeSteady
<1>3. CASE \E t \in Tabs : Bundle(t) \/ ParseTemplate(t) \/ Connect(t)
  BY <1>1, <1>3, LoadingEffect, HomeSteady
<1>4. CASE \E t \in Tabs : Break(t)
  BY <1>1, <1>4, BreakEffect, HomeSteady
<1>5. CASE Restart
  BY <1>1, <1>5, RestartEffect, HomeSteady DEF Restart
<1>6. CASE UNCHANGED session
  BY <1>1, <1>6, HomeSteady DEF session, Steady
<1>7. CASE \E t \in Tabs : Mount(t) \/ Hydrate(t) \/ Enter(t) \/ Leave(t)
  BY <1>1, <1>7, HomeMount, HomeHydrate, HomeEnter, HomeLeave
<1>8. CASE \E t \in Tabs, u \in Inputs, at \in Updates : Type(t, u, at)
  BY <1>1, <1>8, HomeType
<1>. QED BY <1>2, <1>3, <1>4, <1>5, <1>6, <1>7, <1>8, Cases

\* The invariant, of every behaviour of a session.
LEMMA SessionInvariance == SessionSpec => []SessionInv
BY SessionStart, SessionStep, PTL DEF SessionSpec

\* What the body lacks of what a tab shows has a first update that is unsent, and
\* with that the tab's browser made it and could not send it.
LEMMA MissingIsUnsent == SessionInv => OnlyTheUnsentIsMissing
<1>. SUFFICES ASSUME SessionInv, NEW t \in Tabs, NEW u \in Whole(doc[t]) \ Whole(body)
              PROVE  \E m \in made : /\ m.update \in (need[u] \cup {u}) \cap early
                                     /\ tab[m.by].browser = tab[t].browser
  BY DEF OnlyTheUnsentIsMissing
<1>1. u \in Made /\ u \in doc[t] /\ need[u] \subseteq doc[t]
  BY DEF Whole, SessionInv, Holdings
<1>2. ~(With(u) \subseteq body)
  BY DEF Whole, With
<1>3. PICK m \in made : m.update \in With(u) /\ Unsent(m.update)
  BY <1>1, <1>2, SomeUnsent DEF SessionInv
<1>4. m.update \in doc[t] /\ AtHome(m)
  BY <1>1, <1>3 DEF With, SessionInv, UnsentAtHome
<1>. QED BY <1>3, <1>4 DEF AtHome, Home, With

\* The worker's ticks change nothing of a session: they read the body and write
\* the row.
THEOREM WorkerOnlyReads == LifeSpec => SessionSpec
<1>1. LifeInit => SessionInit
  BY DEF LifeInit
<1>2. ASSUME [LifeNext]_life PROVE [SessionNext]_session
  <2>1. CASE LifeNext
    <3>1. ASSUME NEW k \in Ticks, TickStep(k) PROVE UNCHANGED session
      BY <3>1 DEF TickStep, Select, Fetch, Fetched, Copy, Abort, SetTick
    <3>. QED BY <2>1, <3>1 DEF LifeNext, Age
  <2>2. CASE UNCHANGED life
    BY <2>2 DEF life
  <2>. QED BY <1>2, <2>1, <2>2
<1>. QED BY <1>1, <1>2, PTL DEF LifeSpec, SessionSpec

\* One tab at most ever gets the template, however many load the document at once:
\* the row is locked while it is read, cleared, and never set again.
THEOREM TemplateClaimedOnce == LifeSpec => []TemplateStartsOneTab
<1>1. SessionInv => TemplateStartsOneTab
  BY DEF SessionInv, Claims, Holds, TemplateStartsOneTab
<1>. QED BY <1>1, WorkerOnlyReads, SessionInvariance, PTL

\* From the time IndexedDB is open it has all that its tab shows, whoever made it
\* and in whatever order it became visible.
THEOREM NothingShownIsLost == LifeSpec => []ShownIsStored
<1>1. SessionInv => ShownIsStored
  BY DEF SessionInv
<1>. QED BY <1>1, WorkerOnlyReads, SessionInvariance, PTL

\* Nothing but what a tab made outside the room and did not send, and what rests on
\* that, keeps an edit a tab in the room shows from the body.
THEOREM MissingForAReason == LifeSpec => []OnlyTheUnsentIsMissing
BY MissingIsUnsent, WorkerOnlyReads, SessionInvariance, PTL

==============================================================================
