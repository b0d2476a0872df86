---------------------------- MODULE SnapshotWorker ----------------------------
(***************************************************************************)
(* The snapshot worker, which copies what y-sweet has of a document into   *)
(* its row, for forks, exports and disasters.  A tick selects, fetches and *)
(* updates; the daemon's ticks follow one another, and the one-shot        *)
(* command runs one at any time.                                           *)
(***************************************************************************)
EXTENDS EditorSession

CONSTANTS
    Ticks,
    Unopened,     \* how many documents y-sweet knows nothing of
    MaxPerTick

ASSUME WorkerConstants == Unopened \in Nat /\ MaxPerTick \in Nat \ {0}

VARIABLES
    row,          \* the document's row
    tick

worker == <<row, tick>>
life   == <<session, worker>>

\* `copied`: last_snapshot_at, as null, recent or longer ago than staleAfterMs.
\* `touched`: updated_at is later than it.
Row  == [binary : SUBSET Updates, copied : {"never", "lately", "long ago"},
         touched : BOOLEAN]
TickState == [pc : {"idle", "fetch", "update", "done"}, read : SUBSET Updates]

LifeTypeOK ==
    /\ SessionTypeOK
    /\ row \in Row /\ tick \in [Ticks -> TickState]

LifeInit ==
    /\ SessionInit
    /\ row = [binary |-> {}, copied |-> "never", touched |-> TRUE]
    /\ tick = [k \in Ticks |-> [pc |-> "idle", read |-> {}]]

SetTick(k, r) == tick' = [tick EXCEPT ![k] = r] /\ UNCHANGED session

\* findCandidates.
Candidate == row.copied = "never" \/ (row.copied = "long ago" /\ row.touched)

\* The candidates come in no order, and all documents y-sweet has nothing of are
\* always among them; maxPerTick of them are taken.
Select(k) ==
    /\ tick[k].pc = "idle"
    /\ \E taken \in IF ~Candidate THEN {FALSE}
                    ELSE IF Unopened < MaxPerTick THEN {TRUE} ELSE BOOLEAN :
          SetTick(k, [tick[k] EXCEPT !.pc = IF taken THEN "fetch" ELSE "done"])
    /\ UNCHANGED row

\* The first room that a gateway builds creates the document at y-sweet.
KnownToYSweet == \E t \in Tabs : tab[t].socket \in {"open", "joined", "closed"}

Fetched(k, us) == SetTick(k, [pc |-> IF us = {} THEN "done" ELSE "update",
                              read |-> UNION us])

\* 404, and 'no-source', for a document y-sweet does not know.  A document without
\* content is two zero bytes, which is not the empty answer the fetcher looks for.
Fetch(k) ==
    /\ tick[k].pc = "fetch"
    /\ \/ Whole(body) = {} /\ Fetched(k, {})
       \/ KnownToYSweet /\ Fetched(k, {Whole(body)})
    /\ UNCHANGED row

\* updated_at is set when the row is made and by nothing afterwards.
Copy(k) ==
    /\ tick[k].pc = "update"
    /\ row' = [binary |-> tick[k].read, copied |-> "lately", touched |-> FALSE]
    /\ SetTick(k, [tick[k] EXCEPT !.pc = "done"])

\* A fetch or a statement fails, of this document or of one before it, and with it
\* the tick.
Abort(k) ==
    /\ tick[k].pc \in {"fetch", "update"}
    /\ SetTick(k, [tick[k] EXCEPT !.pc = "done"])
    /\ UNCHANGED row

Age ==
    /\ row.copied = "lately"
    /\ row' = [row EXCEPT !.copied = "long ago"]
    /\ UNCHANGED <<session, tick>>

TickStep(k) == Select(k) \/ Fetch(k) \/ Copy(k) \/ Abort(k)

LifeNext ==
    \/ SessionNext /\ UNCHANGED worker
    \/ \E k \in Ticks : TickStep(k)
    \/ Age

LifeSpec == LifeInit /\ [][LifeNext]_life

-----------------------------------------------------------------------------
(* Properties.                                                             *)

(* What the comments of the code say and the code does not do.             *)

\* index.ts: the worker "snapshots docs that have been written since their last
\* snapshot": a tick leaves out no document, copied long ago, whose body has since
\* changed, when the slice has room for it.
WrittenIsSelected ==
    [][\A k \in Ticks :
          (/\ tick[k].pc = "idle" /\ tick'[k].pc = "done"
           /\ row.copied = "long ago" /\ Unopened < MaxPerTick)
             => Whole(body) = row.binary]_tick
=============================================================================
