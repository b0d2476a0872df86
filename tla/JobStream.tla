------------------------------- MODULE JobStream -------------------------------
(***************************************************************************)
(* The event stream of one agent job: GET /api/agent/job/<id>/stream.  The *)
(* deliveries of the job append rows to agent_job_event; a loop on the     *)
(* server polls the rows past its cursor and writes them to its response;  *)
(* the client reads the response, may lose it, and comes back with the     *)
(* last id it saw.  A row gets its id (bigserial) when the insert starts   *)
(* and is seen when it commits.                                            *)
(***************************************************************************)
EXTENDS Integers, Sequences, FiniteSets, SequencesExt

CONSTANTS
    MaxDeliveries, \* deliveries pg-boss makes of the job
    MaxEvents,     \* bound: the rows one delivery appends
    MaxConns,      \* bound: the connections the client makes
    Overlap        \* whether a delivery that pg-boss gave up may run on

ASSUME StreamConstants ==
    /\ MaxDeliveries \in Nat \ {0} /\ MaxEvents \in Nat \ {0} /\ MaxConns \in Nat \ {0}
    /\ Overlap \in BOOLEAN

VARIABLES
    nextId,       \* the sequence behind agent_job_event.id
    rows,         \* the committed rows
    delivery,     \* what each delivery is doing
    loop,         \* the server's side of each connection
    wire,         \* what each response carries and the client has not read
    client        \* the client: its connection, its cursor, what it was told

stream == <<nextId, rows, delivery, loop, wire, client>>

Deliveries == 1 .. MaxDeliveries
Conns      == 1 .. MaxConns
MaxId      == MaxDeliveries * MaxEvents
Ids        == 1 .. MaxId

Verdicts == {"done", "error", "cancelled"}
Closing  == {"done", "error"}
Row      == [id : Ids, kind : Verdicts \cup {"progress"}]
Timeout  == [id |-> 0, kind |-> "StreamTimeout"]

Delivery == [pc : {"off", "running", "inserting", "ended", "dead"}, id : 0 .. MaxId,
             told : 0 .. MaxEvents]
Loop     == [pc : {"off", "poll", "send", "sleep", "closed"}, cursor : 0 .. MaxId,
             attached : BOOLEAN]
Client   == [conn : 0 .. MaxConns, reading : BOOLEAN, cursor : 0 .. MaxId]

StreamTypeOK ==
    /\ nextId \in 1 .. MaxId + 1
    /\ rows \subseteq Row
    /\ delivery \in [Deliveries -> Delivery]
    /\ \A c \in Conns :
          /\ loop[c].batch \in Seq(Row) /\ wire[c] \in Seq(Row \cup {Timeout})
          /\ [pc |-> loop[c].pc, cursor |-> loop[c].cursor, attached |-> loop[c].attached] \in Loop
    /\ client.told \in Seq(Row)
    /\ [conn |-> client.conn, reading |-> client.reading, cursor |-> client.cursor] \in Client

StreamInit ==
    /\ nextId = 1
    /\ rows = {}
    /\ delivery = [a \in Deliveries |-> [pc |-> "off", id |-> 0, told |-> 0]]
    /\ loop = [c \in Conns |-> [pc |-> "off", cursor |-> 0, attached |-> FALSE, batch |-> <<>>]]
    /\ wire = [c \in Conns |-> <<>>]
    /\ client = [conn |-> 0, reading |-> FALSE, cursor |-> 0, told |-> <<>>]

\* ORDER BY id: each row comes after as many as have lower ids.
InOrder(S) ==
    [i \in 1 .. Cardinality(S) |-> CHOOSE r \in S : Cardinality({s \in S : s.id < r.id}) = i - 1]

RowsPast(cursor) == InOrder({r \in rows : r.id > cursor})

-----------------------------------------------------------------------------
(* The deliveries: appendEvent, one INSERT at a time.                      *)

\* A redelivery follows a delivery that died, or one that is only slow.
Redeliver(a) ==
    /\ delivery[a].pc = "off"
    /\ a > 1 => \/ delivery[a - 1].pc = "dead"
                \/ Overlap /\ delivery[a - 1].pc \in {"running", "inserting"}
    /\ delivery' = [delivery EXCEPT ![a].pc = "running"]
    /\ UNCHANGED <<nextId, rows, loop, wire, client>>

StartInsert(a) ==
    /\ delivery[a].pc = "running" /\ delivery[a].told < MaxEvents
    /\ delivery' = [delivery EXCEPT ![a].pc = "inserting", ![a].id = nextId,
                                    ![a].told = @ + 1]
    /\ nextId' = nextId + 1
    /\ UNCHANGED <<rows, loop, wire, client>>

\* A delivery has its last word when it tells a verdict.
Commit(a, kind) ==
    /\ delivery[a].pc = "inserting"
    /\ delivery[a].told = MaxEvents => kind # "progress"
    /\ rows' = rows \cup {[id |-> delivery[a].id, kind |-> kind]}
    /\ delivery' = [delivery EXCEPT ![a].pc = IF kind \in Verdicts THEN "ended" ELSE "running"]
    /\ UNCHANGED <<nextId, loop, wire, client>>

\* The worker dies, between two rows or with an insert that never commits.
Die(a) ==
    /\ delivery[a].pc \in {"running", "inserting", "ended"}
    /\ a < MaxDeliveries /\ delivery[a + 1].pc = "off"
    /\ delivery' = [delivery EXCEPT ![a].pc = "dead"]
    /\ UNCHANGED <<nextId, rows, loop, wire, client>>

-----------------------------------------------------------------------------
(* The route's loop.                                                       *)

Select_Gte(c) ==             \* mutant: gte for gt
    /\ loop[c].pc = "poll"
    /\ loop' = [loop EXCEPT ![c].pc = "send",
                            ![c].batch = RowsPast(loop[c].cursor - 1)]
    /\ UNCHANGED <<nextId, rows, delivery, wire, client>>

Select(c) ==
    /\ loop[c].pc = "poll"
    /\ loop' = [loop EXCEPT ![c].pc = "send", ![c].batch = RowsPast(loop[c].cursor)]
    /\ UNCHANGED <<nextId, rows, delivery, wire, client>>

\* The rows of a batch up to the first that closes the stream.
UpToClosing(batch) ==
    LET ends == {i \in DOMAIN batch : batch[i].kind \in Closing} IN
    IF ends = {} THEN batch ELSE SubSeq(batch, 1, Min(ends))

Send_SequenceCursor(c) ==      \* mutant: the cursor from the sequence, not the row
    /\ loop[c].pc = "send"
    /\ LET out  == UpToClosing(loop[c].batch)
           ends == \E i \in DOMAIN out : out[i].kind \in Closing
       IN /\ loop' = [loop EXCEPT ![c].pc = IF ends THEN "closed" ELSE "sleep",
                                  ![c].cursor = nextId - 1, ![c].batch = <<>>]
          /\ wire' = [wire EXCEPT ![c] = @ \o out]
    /\ UNCHANGED <<nextId, rows, delivery, client>>

\* The for loop has no await: a batch goes out in one step.  enqueue throws on a
\* stream the client cancelled, and the loop dies of it.
Send(c) ==
    /\ loop[c].pc = "send"
    /\ LET out  == UpToClosing(loop[c].batch)
           gone == ~loop[c].attached /\ out # <<>>
           ends == \E i \in DOMAIN out : out[i].kind \in Closing
       IN /\ loop' = [loop EXCEPT ![c].pc = IF gone \/ ends THEN "closed" ELSE "sleep",
                                  ![c].cursor = IF out = <<>> \/ gone THEN @ ELSE Last(out).id,
                                  ![c].batch = <<>>]
          /\ wire' = [wire EXCEPT ![c] = IF gone THEN @ ELSE @ \o out]
    /\ UNCHANGED <<nextId, rows, delivery, client>>

Wake(c) ==
    /\ loop[c].pc = "sleep"
    /\ loop' = [loop EXCEPT ![c].pc = "poll"]
    /\ UNCHANGED <<nextId, rows, delivery, wire, client>>

TimeOut_WhileRead(c) ==        \* mutant: leaves a lost client to cancel()
    /\ loop[c].pc = "sleep" /\ loop[c].attached /\ c < MaxConns
    /\ loop' = [loop EXCEPT ![c].pc = "closed"]
    /\ wire' = [wire EXCEPT ![c] = IF loop[c].attached THEN Append(@, Timeout) ELSE @]
    /\ UNCHANGED <<nextId, rows, delivery, client>>

\* Fifteen minutes have passed since the loop started.  Bound: the last of the
\* client's connections lasts.
TimeOut(c) ==
    /\ loop[c].pc = "sleep" /\ c < MaxConns
    /\ loop' = [loop EXCEPT ![c].pc = "closed"]
    /\ wire' = [wire EXCEPT ![c] = IF loop[c].attached THEN Append(@, Timeout) ELSE @]
    /\ UNCHANGED <<nextId, rows, delivery, client>>

Serve(c) == Select(c) \/ Send(c) \/ Wake(c)

-----------------------------------------------------------------------------
(* The client: no module of the repository reads the stream; it does what  *)
(* the route's header asks of it.                                          *)

ToldClosing == \E i \in DOMAIN client.told : client.told[i].kind \in Closing

\* GET ...?cursor=<lastEventId>, by a client that has not seen the end.
Connect ==
    /\ ~client.reading /\ client.conn < MaxConns /\ ~ToldClosing
    /\ client' = [client EXCEPT !.conn = @ + 1, !.reading = TRUE]
    /\ loop' = [loop EXCEPT ![client.conn + 1] =
                   [pc |-> "poll", cursor |-> client.cursor, attached |-> TRUE, batch |-> <<>>]]
    /\ UNCHANGED <<nextId, rows, delivery, wire>>

Read ==
    /\ client.reading /\ wire[client.conn] # <<>>
    /\ LET e == Head(wire[client.conn]) IN
       client' = IF e = Timeout THEN client
                 ELSE [client EXCEPT !.cursor = e.id, !.told = Append(@, e)]
    /\ wire' = [wire EXCEPT ![client.conn] = Tail(@)]
    /\ UNCHANGED <<nextId, rows, delivery, loop>>

\* The end of the response, once all of it is read.
ReadEnd ==
    /\ client.reading /\ wire[client.conn] = <<>> /\ loop[client.conn].pc = "closed"
    /\ client' = [client EXCEPT !.reading = FALSE]
    /\ UNCHANGED <<nextId, rows, delivery, loop, wire>>

\* The connection breaks; what was under way is lost.  cancel() does nothing.
Disconnect ==
    /\ client.reading /\ client.conn < MaxConns
    /\ client' = [client EXCEPT !.reading = FALSE]
    /\ loop' = [loop EXCEPT ![client.conn].attached = FALSE]
    /\ wire' = [wire EXCEPT ![client.conn] = <<>>]
    /\ UNCHANGED <<nextId, rows, delivery>>

-----------------------------------------------------------------------------
StreamNext ==
    \/ \E a \in Deliveries : \/ Redeliver(a) \/ StartInsert(a) \/ Die(a)
                             \/ \E kind \in Verdicts \cup {"progress"} : Commit(a, kind)
    \/ \E c \in Conns : Serve(c) \/ TimeOut(c)
    \/ Connect \/ Read \/ ReadEnd \/ Disconnect

StreamSpec == StreamInit /\ [][StreamNext]_stream

\* The server's loops turn, time passes, and the client reads and comes back.
StreamFairness ==
    /\ \A c \in Conns : WF_stream(Serve(c)) /\ SF_stream(TimeOut(c))
    /\ WF_stream(Connect) /\ WF_stream(Read) /\ WF_stream(ReadEnd)

FairStreamSpec == StreamSpec /\ StreamFairness
-----------------------------------------------------------------------------
(* Properties.                                                             *)

\* Whatever connections break and however the client comes back: it was told
\* exactly the rows up to its cursor, each once, in the order of the ids, and none
\* after the first 'done' or 'error', of this delivery or of a redelivery.
ReplayIsExact ==
    /\ client.told = InOrder({r \in rows : r.id <= client.cursor})
    /\ \A i \in DOMAIN client.told :
          client.told[i].kind \in Closing => i = Len(client.told)

\* Whichever connections break or run out of time, a verdict in the log reaches
\* a client that comes back until it stays connected.
VerdictIsSeen ==
    (\E r \in rows : r.kind \in Verdicts)
        ~> \E i \in DOMAIN client.told : client.told[i].kind \in Verdicts

\* No loop polls for ever: not one whose client left, not one of a job that was
\* cancelled, whose last event closes nothing.
EveryLoopCloses ==
    \A c \in 1 .. MaxConns - 1 : loop[c].pc = "poll" ~> loop[c].pc = "closed"
=============================================================================
