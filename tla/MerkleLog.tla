------------------------------- MODULE MerkleLog -------------------------------
(***************************************************************************)
(* Publishing open content.  Each publish request appends one row to       *)
(* provenance_merkle_log, which points at a row before it.  The document   *)
(* routes read the latest row outside the transaction that inserts; POST   *)
(* /api/publish takes the pointer from its caller.  A principal's first    *)
(* publish stores the key that later ones are verified with.               *)
(*                                                                         *)
(* A request stands for the row it inserts.  PostgreSQL runs READ          *)
(* COMMITTED: a row has its entry_seq when its INSERT starts, and is seen  *)
(* by others when its transaction commits.                                 *)
(***************************************************************************)
EXTENDS Integers, FiniteSets

CONSTANTS
    Publishers,   \* publish requests
    Signers, Keys,
    Request       \* of each request: its route, signer, key, whether it sends it

NoKey == "no key"
NoRow == "no row"

ASSUME ConstantsOK ==
    /\ Request \in [Publishers -> [route : {"latest", "caller"}, signer : Signers,
                                   signs : Keys, submits : BOOLEAN]]
    /\ NoKey \notin Keys /\ NoRow \notin Publishers

VARIABLES
    pub,          \* each request
    nextSeq,      \* the sequence behind entry_seq
    stored,       \* principal.ed25519_public_key
    lock          \* who holds a principal's row

vars == <<pub, nextSeq, stored, lock>>

Publisher ==
    [pc : {"start", "prev", "valid", "tx", "inserted", "checked", "committed", "rejected", "failed"},
     prev : Publishers \cup {NoRow},       \* prev_entry_id
     seq : Nat,                            \* entry_seq
     persist : Keys \cup {NoKey},          \* publicKeyToPersist
     seen : SUBSET Publishers]             \* history: the rows there were when it read

TypeOK ==
    /\ pub \in [Publishers -> Publisher]
    /\ nextSeq \in Nat
    /\ stored \in [Signers -> Keys \cup {NoKey}]
    /\ lock \in [Signers -> Publishers \cup {NoRow}]

Init ==
    /\ pub = [p \in Publishers |->
                [pc |-> "start", prev |-> NoRow, seq |-> 0, persist |-> NoKey, seen |-> {}]]
    /\ nextSeq = 1
    /\ stored = [s \in Signers |-> NoKey]
    /\ lock = [s \in Signers |-> NoRow]

Rows == {p \in Publishers : pub[p].pc = "committed"}

\* ORDER BY entry_seq DESC LIMIT 1
IsLatest(r) ==
    \/ r = NoRow /\ Rows = {}
    \/ r \in Rows /\ \A q \in Rows : pub[q].seq <= pub[r].seq

Signer(p)    == Request[p].signer
Submitted(p) == IF Request[p].submits THEN Request[p].signs ELSE NoKey

-----------------------------------------------------------------------------
(* A publish request.                                                      *)

ReadPrev(p) ==
    /\ pub[p].pc = "start"
    /\ \E r \in Publishers \cup {NoRow} :
          /\ Request[p].route = "latest" => IsLatest(r)
          /\ pub' = [pub EXCEPT ![p] = [pc |-> "prev", prev |-> r, seq |-> 0,
                                          persist |-> NoKey, seen |-> Rows]]
    /\ UNCHANGED <<nextSeq, stored, lock>>

VerifyKey(p) == IF stored[Signer(p)] # NoKey THEN stored[Signer(p)] ELSE Submitted(p)

Accepts_Submitted(p) ==      \* mutant: the submitted key comes first
    (IF Submitted(p) # NoKey THEN Submitted(p) ELSE stored[Signer(p)]) = Request[p].signs

\* The verifier: a key that is not the stored one is refused, and a signature
\* must be the stored key's, or the submitted one's if none is stored.
Accepts(p) ==
    /\ Submitted(p) # NoKey => VerifyKey(p) = Submitted(p)
    /\ VerifyKey(p) = Request[p].signs

ReadKey(p) ==
    /\ pub[p].pc = "prev"
    /\ pub' = [pub EXCEPT ![p] =
          [pc |-> IF Accepts(p) THEN "valid" ELSE "rejected",
           prev |-> pub[p].prev, seq |-> pub[p].seq, seen |-> pub[p].seen,
           persist |-> IF stored[Signer(p)] = NoKey THEN Submitted(p) ELSE NoKey]]
    /\ UNCHANGED <<nextSeq, stored, lock>>

\* The unique index on ed25519_public_key: no other principal has the key, nor is
\* about to.
Unclaimed(p) ==
    \A s \in Signers \ {Signer(p)} :
        /\ stored[s] # pub[p].persist
        /\ lock[s] # NoRow => pub[lock[s]].persist # pub[p].persist

Begin_Overwrites(p) ==       \* mutant: without isNull(ed25519PublicKey)
    /\ pub[p].pc = "valid"
    /\ \/ /\ pub[p].persist # NoKey /\ lock[Signer(p)] = NoRow /\ Unclaimed(p)
          /\ lock' = [lock EXCEPT ![Signer(p)] = p]
       \/ pub[p].persist = NoKey /\ UNCHANGED lock
    /\ pub' = [pub EXCEPT ![p].pc = "tx"]
    /\ UNCHANGED <<nextSeq, stored>>

\* The transaction begins with UPDATE principal ... WHERE key IS NULL.  It waits
\* for whoever holds the row, and then finds it null or not.
Begin(p) ==
    /\ pub[p].pc = "valid"
    /\ \/ /\ pub[p].persist # NoKey /\ stored[Signer(p)] = NoKey
          /\ lock[Signer(p)] = NoRow /\ Unclaimed(p)
          /\ lock' = [lock EXCEPT ![Signer(p)] = p]
       \/ /\ pub[p].persist = NoKey \/ stored[Signer(p)] # NoKey
          /\ UNCHANGED lock
    /\ pub' = [pub EXCEPT ![p].pc = "tx"]
    /\ UNCHANGED <<nextSeq, stored>>

Insert_MaxPlusOne(p) ==      \* mutant: MAX(entry_seq) + 1 for the sequence
    /\ pub[p].pc = "tx"
    /\ \E r \in Publishers \cup {NoRow} :
          /\ IsLatest(r)
          /\ pub' = [pub EXCEPT ![p].pc = "inserted",
                                ![p].seq = IF r = NoRow THEN 1 ELSE pub[r].seq + 1]
    /\ nextSeq' = nextSeq + 1
    /\ UNCHANGED <<stored, lock>>

Insert(p) ==
    /\ pub[p].pc = "tx"
    /\ pub' = [pub EXCEPT ![p] =
          [pc |-> "inserted", prev |-> pub[p].prev, seq |-> nextSeq,
           persist |-> pub[p].persist, seen |-> pub[p].seen]]
    /\ nextSeq' = nextSeq + 1
    /\ UNCHANGED <<stored, lock>>

\* The foreign key on prev_entry_id, at the end of the INSERT: a row committed
\* by now, or the row itself.
CheckPrev(p) ==
    /\ pub[p].pc = "inserted"
    /\ pub[p].prev \in Rows \cup {NoRow, p}
    /\ pub' = [pub EXCEPT ![p].pc = "checked"]
    /\ UNCHANGED <<nextSeq, stored, lock>>

Unlocked(p) == [s \in Signers |-> IF lock[s] = p THEN NoRow ELSE lock[s]]

\* The entity is inserted too, and the transaction commits.
Commit(p) ==
    /\ pub[p].pc = "checked"
    /\ pub' = [pub EXCEPT ![p].pc = "committed"]
    /\ stored' = [s \in Signers |-> IF lock[s] = p THEN pub[p].persist ELSE stored[s]]
    /\ lock' = Unlocked(p)
    /\ UNCHANGED nextSeq

\* A constraint, the key's, the entity's or the predecessor's, or the connection: 409,
\* and the sequence may have a gap.
Fail(p) ==
    /\ pub[p].pc \in {"valid", "tx", "inserted", "checked"}
    /\ pub' = [pub EXCEPT ![p].pc = "failed"]
    /\ lock' = Unlocked(p)
    /\ UNCHANGED <<nextSeq, stored>>

Publish(p) ==
    ReadPrev(p) \/ ReadKey(p) \/ Begin(p) \/ Insert(p) \/ CheckPrev(p) \/ Commit(p) \/ Fail(p)

Next == \E p \in Publishers : Publish(p)

Spec == Init /\ [][Next]_vars
-----------------------------------------------------------------------------
(* The nightly verification: verifyMerkleChain on the rows it reads.       *)

Genesis(rows) == {r \in rows : pub[r].prev = NoRow}

\* Of each kind of anomaly, the rows it is reported of.
Anomalies(rows) ==
    LET Before(q, r) == pub[q].seq < pub[r].seq IN
    [noGenesis       |-> {r \in rows : Genesis(rows) = {} /\ \A q \in rows : ~Before(q, r)},
     multipleGenesis |-> {r \in Genesis(rows) : \E q \in Genesis(rows) : Before(q, r)},
     notMonotonic    |-> {r \in rows : \E q \in rows \ {r} : pub[q].seq = pub[r].seq},
     forkedChain     |-> {r \in rows \ Genesis(rows) :
                             \E q \in rows : Before(q, r) /\ pub[q].prev = pub[r].prev},
     nonExistent     |-> {r \in rows \ Genesis(rows) : pub[r].prev \notin rows},
     laterOrEqual    |-> {r \in rows \ Genesis(rows) :
                             pub[r].prev \in rows /\ ~Before(pub[r].prev, r)}]

-----------------------------------------------------------------------------
(* Properties.                                                             *)

FromDocument == {p \in Rows : Request[p].route = "latest"}

\* What the verifier says of rows that documents published is at most that the
\* chain forked: each points to a row that is there and has a smaller entry_seq,
\* though sequence numbers are handed out in one order and committed in another.
AtWorstForks ==
    LET found == Anomalies(Rows) IN
    FromDocument \cap (found.noGenesis \cup found.notMonotonic
                          \cup found.nonExistent \cup found.laterOrEqual) = {}

\* Only publishes that overlap fork the chain: of two document publishes one of
\* which began after the other was committed, the rows point to different rows.
SequentialPublishesDoNotFork ==
    \A p, q \in FromDocument : p \in pub[q].seen => pub[p].prev # pub[q].prev

\* A row that its signer's stored key does not verify comes of two first
\* publishes at once: the key is that of a row committed after this one began.
UnverifiableOnlyByRace ==
    \A p \in Rows : stored[Signer(p)] # Request[p].signs =>
        \E q \in Rows \ pub[p].seen : Signer(q) = Signer(p) /\ Request[q].signs = stored[Signer(p)]

=============================================================================
