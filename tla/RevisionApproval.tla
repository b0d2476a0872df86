---------------------------- MODULE RevisionApproval ----------------------------
(***************************************************************************)
(* What reviewers do with an agent's proposals: accept a revision as a     *)
(* contribution, reject it, or supersede it with a counter-proposal.  Each *)
(* is one READ COMMITTED transaction which reads the revision, updates its *)
(* row (and holds it from then on), reads and rewrites the approval chain  *)
(* of its provenance, and commits.                                         *)
(*                                                                         *)
(* A request stands for the contribution or the counter-proposal it makes. *)
(* What a transaction writes is seen by others when it commits, so its     *)
(* INSERTs and its last UPDATE are part of Commit.  Nothing in the code    *)
(* makes a 'draft'.                                                        *)
(***************************************************************************)
EXTENDS Integers, Sequences, FiniteSets

CONSTANTS
    Proposals,    \* the revisions agents propose
    Requests,     \* POST /api/revision/<id>/{accept,reject,modify}
    MaxFaults     \* bound: transactions that fail

NoRequest  == "no request"
NoRevision == "no revision"

ASSUME ConstantsOK ==
    /\ Proposals \cap Requests = {}
    /\ NoRequest \notin Requests /\ NoRevision \notin Proposals \cup Requests
    /\ MaxFaults \in Nat

Revisions == Proposals \cup Requests

VARIABLES
    revision,       \* the rows of revision
    chain,          \* provenance.approval_chain of each revision
    contributions,  \* the rows of contribution
    tx,             \* each request and its transaction
    lock,           \* who holds a revision's row
    now,            \* the database's clock: transactions begun
    faults

vars == <<revision, chain, contributions, tx, lock, now, faults>>

Decision == {"accept", "reject", "modify"}
Status   == {"absent", "proposed", "accepted", "rejected", "superseded"}
Entry    == [by : Requests, decision : Decision]

Revision == [status : Status,
             contribution : Requests \cup {NoRequest},     \* contributionId
             created : Nat]

Transaction == [pc : {"idle", "read", "update", "chain", "commit", "200", "409"},
                kind : Decision,
                rev : Revisions \cup {NoRevision},
                began : Nat,              \* now() in it
                mine : Seq(Entry),        \* the chain it read
                saw : Nat]                \* history: entries committed when it read

TypeOK ==
    /\ revision \in [Revisions -> Revision]
    /\ chain \in [Revisions -> Seq(Entry)]
    /\ contributions \in SUBSET Requests
    /\ tx \in [Requests -> Transaction]
    /\ lock \in [Revisions -> Requests \cup {NoRequest}]
    /\ now \in Nat
    /\ faults \in 0 .. MaxFaults

Init ==
    /\ revision = [r \in Revisions |->
                     [status |-> "absent", contribution |-> NoRequest, created |-> 0]]
    /\ chain = [r \in Revisions |-> << >>]
    /\ contributions = {}
    /\ tx = [q \in Requests |-> [pc |-> "idle", kind |-> "accept", rev |-> NoRevision,
                                 began |-> 0, mine |-> << >>, saw |-> 0]]
    /\ lock = [r \in Revisions |-> NoRequest]
    /\ now = 0
    /\ faults = 0

Existing == {r \in Revisions : revision[r].status # "absent"}

-----------------------------------------------------------------------------
(* Proposals.                                                              *)

\* persistProposalBatch: one transaction for a batch.
Propose(B) ==
    /\ B \cap Existing = {}
    /\ revision' = [r \in Revisions |->
          IF r \in B THEN [status |-> "proposed", contribution |-> NoRequest, created |-> now]
                     ELSE revision[r]]
    /\ now' = now + 1
    /\ UNCHANGED <<chain, contributions, tx, lock, faults>>

-----------------------------------------------------------------------------
(* A decision.                                                             *)

Tx(pc, q, began, mine, saw) ==
    [pc |-> pc, kind |-> tx[q].kind, rev |-> tx[q].rev, began |-> began, mine |-> mine, saw |-> saw]

\* The route finds the revision, and its caller may review (or commit).
Arrive(q, d, r) ==
    /\ tx[q].pc = "idle"
    /\ r \in Existing
    /\ tx' = [tx EXCEPT ![q] = [pc |-> "read", kind |-> d, rev |-> r,
                                began |-> 0, mine |-> << >>, saw |-> 0]]
    /\ UNCHANGED <<revision, chain, contributions, lock, now, faults>>

Refuses_Never(d, s) ==       \* mutant: the other two do as accept does
    FALSE

\* accept takes a revision of any status.
Refuses(d, s) ==
    \/ d = "reject" /\ s \in {"accepted", "rejected"}
    \/ d = "modify" /\ s # "proposed"

\* BEGIN, and SELECT of the revision without FOR UPDATE.
Read(q) ==
    /\ tx[q].pc = "read"
    /\ tx' = [tx EXCEPT ![q] =
          Tx(IF Refuses(tx[q].kind, revision[tx[q].rev].status) THEN "409" ELSE "update",
             q, now, << >>, Len(chain[tx[q].rev]))]
    /\ now' = now + 1
    /\ UNCHANGED <<revision, chain, contributions, lock, faults>>

Update_NoLock(q) ==          \* mutant: the revision's row is updated last
    /\ tx[q].pc = "update"
    /\ tx' = [tx EXCEPT ![q] = Tx("chain", q, tx[q].began, << >>, tx[q].saw)]
    /\ UNCHANGED <<revision, chain, contributions, lock, now, faults>>

\* UPDATE revision ... WHERE id: waits for the row, whatever its status by then.
Update(q) ==
    /\ tx[q].pc = "update"
    /\ lock[tx[q].rev] = NoRequest
    /\ lock' = [lock EXCEPT ![tx[q].rev] = q]
    /\ tx' = [tx EXCEPT ![q] = Tx("chain", q, tx[q].began, << >>, tx[q].saw)]
    /\ UNCHANGED <<revision, chain, contributions, now, faults>>

ReadChain(q) ==
    /\ tx[q].pc = "chain"
    /\ tx' = [tx EXCEPT ![q] = Tx("commit", q, tx[q].began, chain[tx[q].rev], tx[q].saw)]
    /\ UNCHANGED <<revision, chain, contributions, lock, now, faults>>

EntryOf(q) == [by |-> q, decision |-> tx[q].kind]

Outcome(d) == CASE d = "accept" -> "accepted"
                [] d = "reject" -> "rejected"
                [] d = "modify" -> "superseded"

\* decidedBy is the chain's last entry.
Decided(q) ==
    [status       |-> Outcome(tx[q].kind),
     contribution |-> IF tx[q].kind = "accept" THEN q ELSE revision[tx[q].rev].contribution,
     created      |-> revision[tx[q].rev].created]

\* The counter-proposal, whose own chain begins with the modification.
Counter(q) == [status |-> "proposed", contribution |-> NoRequest, created |-> tx[q].began]

Free(q) == [r \in Revisions |-> IF lock[r] = q THEN NoRequest ELSE lock[r]]

Commit(q) ==
    LET r == tx[q].rev  new == tx[q].kind = "modify" IN
    /\ tx[q].pc = "commit"
    /\ revision' = [s \in Revisions |-> IF s = r THEN Decided(q)
                                        ELSE IF new /\ s = q THEN Counter(q) ELSE revision[s]]
    /\ chain' = [s \in Revisions |-> IF s = r THEN Append(tx[q].mine, EntryOf(q))
                                     ELSE IF new /\ s = q THEN <<EntryOf(q)>> ELSE chain[s]]
    /\ contributions' = contributions \cup {p \in {q} : tx[p].kind = "accept"}
    /\ tx' = [tx EXCEPT ![q] = Tx("200", q, tx[q].began, tx[q].mine, tx[q].saw)]
    /\ lock' = Free(q)
    /\ UNCHANGED <<now, faults>>

Fail_KeepsLock(q) ==         \* mutant: nothing rolls back
    /\ tx[q].pc \in {"read", "update", "chain", "commit"} /\ faults < MaxFaults
    /\ tx' = [tx EXCEPT ![q] = Tx("409", q, tx[q].began, << >>, tx[q].saw)]
    /\ faults' = faults + 1
    /\ UNCHANGED <<revision, chain, contributions, lock, now>>

\* A statement fails or the server dies: the transaction is rolled back.
Fail(q) ==
    /\ tx[q].pc \in {"read", "update", "chain", "commit"} /\ faults < MaxFaults
    /\ tx' = [tx EXCEPT ![q] = Tx("409", q, tx[q].began, << >>, tx[q].saw)]
    /\ lock' = Free(q)
    /\ faults' = faults + 1
    /\ UNCHANGED <<revision, chain, contributions, now>>

Step(q) == Read(q) \/ Update(q) \/ ReadChain(q) \/ Commit(q)

Next ==
    \/ \E B \in (SUBSET Proposals) \ {{}} : Propose(B)
    \/ \E q \in Requests, d \in Decision, r \in Revisions : Arrive(q, d, r)
    \/ \E q \in Requests : Step(q) \/ Fail(q)

Spec == Init /\ [][Next]_vars

-----------------------------------------------------------------------------
(* Properties.                                                             *)

\* The entry a counter-proposal's chain begins with is not a decision on it.
Birth(r) == IF r \in Requests THEN 1 ELSE 0

Entries(r)   == {chain[r][i] : i \in DOMAIN chain[r]}
Decisions(r) == {i \in DOMAIN chain[r] : i > Birth(r)}

Answered(q, r) == tx[q].pc = "200" /\ tx[q].rev = r

\* The audit trail loses nothing: concurrent decisions read, extend and rewrite
\* one jsonb array, and still every decision that was answered 200 has its entry
\* in the revision's chain, once, and there are no others.
ChainIsWhole ==
    \A r \in Existing :
        /\ \A i, j \in Decisions(r) : chain[r][i].by = chain[r][j].by => i = j
        /\ \A q \in Requests : Answered(q, r) => \E i \in Decisions(r) : chain[r][i] = EntryOf(q)
        /\ \A i \in Decisions(r) : \E q \in Requests : Answered(q, r) /\ chain[r][i] = EntryOf(q)

\* The revision says what the last entry of its chain says, and its contribution
\* is the one of the last acceptance.
StatusFollowsChain ==
    \A r \in Existing :
        /\ revision[r].status = IF Decisions(r) = {} THEN "proposed"
                                ELSE Outcome(chain[r][Len(chain[r])].decision)
        /\ LET accepts == {i \in Decisions(r) : chain[r][i].decision = "accept"} IN
           IF accepts = {} THEN revision[r].contribution = NoRequest
           ELSE \E i \in accepts : /\ \A j \in accepts : j <= i
                                   /\ revision[r].contribution = chain[r][i].by

\* A contribution is there exactly if the provenance of the revision it comes from
\* names who accepted it.
NothingEntersUnapproved ==
    \A q \in Requests : q \in contributions <=>
        \E r \in Existing : [by |-> q, decision |-> "accept"] \in Entries(r)

\* Counter-proposals and what they supersede point to each other, and no revision
\* is an ancestor of itself: created_at goes up along supersedesRevisionId.
CounterProposalsAreLinked ==
    \A q \in Requests, r \in Revisions :
        LET modified == [by |-> q, decision |-> "modify"]
            superseded == q # r /\ modified \in Entries(r) IN
        /\ superseded => /\ q \in Existing /\ r \in Existing
                         /\ chain[q][1] = modified
                         /\ revision[r].created < revision[q].created
        /\ q \in Existing /\ tx[q].rev = r => superseded

\* A revision that was decided is rejected or modified only by a transaction that
\* overlapped the decision.  The chain as the transaction found it ends undecided,
\* or for a rejection in a modification.
OverturnedOnlyByRace ==
    \A r \in Existing : \A i \in Decisions(r) :
        LET e == chain[r][i]  saw == tx[e.by].saw IN
        /\ saw < i
        /\ e.decision = "modify" => saw = Birth(r)
        /\ e.decision = "reject" => saw = Birth(r) \/ chain[r][saw].decision = "modify"
=============================================================================
