----------------------------- MODULE ClaimLedger -----------------------------
(***************************************************************************)
(* What people add to claims: evidence, with the citation it rests on, and *)
(* reviews, which their author may sign with an ORCID iD and withdraw.     *)
(* Claims themselves come with the documents and are not changed by the    *)
(* application.                                                            *)
(*                                                                         *)
(* A request stands for the row it makes.  Binding evidence is one         *)
(* transaction; submitting a review is two statements; signing and         *)
(* withdrawing read the row, judge it, and update it by its id alone.      *)
(* Callers are taken to have the capability their route asks for.          *)
(***************************************************************************)
EXTENDS Integers, FiniteSets

CONSTANTS
    Claims,
    People,       \* principals who bind evidence and review
    Dois,         \* what a citation is known by
    Requests,
    Earlier,      \* the requests that are done with when the model begins
    Drafts,       \* what people bind: claim, relation, source
    Submissions   \* what they submit: claim, verdict, an agent's or not, evidence or not

NoOne     == "no one"
NoDoi     == "no source"
NoRequest == "no request"
NoClaim   == "no claim"

ASSUME LedgerConstants ==
    NoOne \notin People /\ NoDoi \notin Dois /\ NoRequest \notin Requests

VARIABLES
    evidence,     \* the rows of evidence
    citation,     \* the rows of citation, each with the request that made it
    review,       \* the rows of claim_review
    provenance,   \* the rows of provenance: the submissions they trace
    request       \* what each request is doing

ledger == <<evidence, citation, review, provenance>>

Relation == {"supports", "challenges", "qualifies"}
Verdicts == {"endorses", "challenges", "refines"}
Actor    == {"user", "agent"}

ASSUME InputConstants ==
    /\ Earlier \subseteq Requests
    /\ Drafts \subseteq [claim : Claims, relation : Relation, doi : Dois \cup {NoDoi}]
    /\ Submissions \subseteq
         [claim : Claims, verdict : Verdicts, ai : BOOLEAN, refs : BOOLEAN]

Evidence == [by : Requests, claim : Claims, relation : Relation,
             citation : Requests \cup {NoRequest}]

Review == [claim : Claims, reviewer : People, ai : BOOLEAN, verdict : Verdicts,
           jws : Requests \cup {NoRequest},        \* the signature, by who gave it
           orcid : Requests \cup {NoRequest},      \* reviewer_orcid_id, likewise
           withdrawn : BOOLEAN]

\* A request: where it is, whose row and which fields it works on, what it read.
Call == [pc : {"idle", "bind", "review", "sign", "withdraw", "201", "200", "4xx", "500"},
         by : People \cup {NoOne},
         row : Requests \cup {NoRequest},
         claim : Claims \cup {NoClaim}, relation : Relation, doi : Dois \cup {NoDoi},
         reuse : Requests \cup {NoRequest},        \* the citation it found
         ai : BOOLEAN, verdict : Verdicts]

LedgerTypeOK ==
    /\ evidence \in SUBSET Evidence
    /\ citation \in SUBSET [by : Requests, doi : Dois, creator : People]
    /\ DOMAIN review \in SUBSET Requests
    /\ \A q \in DOMAIN review : review[q] \in Review
    /\ provenance \in SUBSET [by : Requests, actor : Actor]
    /\ request \in [Requests -> Call]

Idle == [pc |-> "idle", by |-> NoOne, row |-> NoRequest,
         claim |-> NoClaim, relation |-> "supports", doi |-> NoDoi,
         reuse |-> NoRequest, ai |-> FALSE, verdict |-> "endorses"]

Judged(b) == b.verdict = "challenges" => b.refs

NewReview(p, b) ==
    [claim |-> b.claim, reviewer |-> p, ai |-> b.ai, verdict |-> b.verdict,
     jws |-> NoRequest, orcid |-> NoRequest, withdrawn |-> FALSE]

Tracing(q, ai) == [by |-> q, actor |-> IF ai THEN "agent" ELSE "user"]

Reviewed == {NewReview(p, b) : p \in People, b \in {b \in Submissions : Judged(b)}}

\* Before the model begins, the earlier requests have submitted a review each.
LedgerInit ==
    /\ evidence = {} /\ citation = {}
    /\ review \in [Earlier -> Reviewed]
    /\ provenance = {Tracing(q, review[q].ai) : q \in Earlier}
    /\ request = [q \in Requests |->
         IF q \in Earlier
         THEN [Idle EXCEPT !.pc = "201", !.by = review[q].reviewer, !.claim = review[q].claim,
                 !.verdict = review[q].verdict, !.ai = review[q].ai]
         ELSE Idle]

At(q, pc) == request[q].pc = pc

Goto(q, pc) == request' = [request EXCEPT ![q].pc = pc]

-----------------------------------------------------------------------------
(* createEvidenceAction.                                                   *)

\* selectReusableCitationId: a citation of the same DOI that is committed.
Reusable(doi) == {c.by : c \in {c \in citation : c.doi = doi}}

\* The transaction looks for a citation to reuse, when the draft has a source.
BeginBind(q, p, d) ==
    /\ At(q, "idle")
    /\ \E found \in IF Reusable(d.doi) = {} THEN {NoRequest} ELSE Reusable(d.doi) :
          request' = [request EXCEPT ![q] = [Idle EXCEPT !.pc = "bind", !.by = p,
            !.claim = d.claim, !.relation = d.relation, !.doi = d.doi, !.reuse = found]]
    /\ UNCHANGED ledger

\* It inserts a citation if it found none, and the evidence, and commits.
CommitBind(q) ==
    LET r   == request[q]
        new == r.doi # NoDoi /\ r.reuse = NoRequest
    IN  /\ At(q, "bind")
        /\ citation' = citation \cup IF new THEN {[by |-> q, doi |-> r.doi, creator |-> r.by]} ELSE {}
        /\ evidence' = evidence \cup
             {[by |-> q, claim |-> r.claim, relation |-> r.relation,
               citation |-> IF new THEN q ELSE r.reuse]}
        /\ Goto(q, "201")
        /\ UNCHANGED <<review, provenance>>

-----------------------------------------------------------------------------
(* POST /api/claim/<id>/review, and its sign and withdraw.                 *)

\* The submission is judged (a challenge names its evidence) and its provenance
\* row inserted.
Submit(q, p, b) ==
    /\ At(q, "idle")
    /\ IF Judged(b)
       THEN /\ request' = [request EXCEPT ![q] = [Idle EXCEPT !.pc = "review", !.by = p,
                              !.claim = b.claim, !.verdict = b.verdict, !.ai = b.ai]]
            /\ provenance' = provenance \cup {Tracing(q, b.ai)}
            /\ UNCHANGED <<evidence, citation, review>>
       ELSE /\ Goto(q, "4xx")
            /\ UNCHANGED ledger

WithRow(f, q, r) == [x \in DOMAIN f \cup {q} |-> IF x = q THEN r ELSE f[x]]

InsertReview(q) ==
    /\ At(q, "review")
    /\ review' = WithRow(review, q, NewReview(request[q].by, request[q]))
    /\ Goto(q, "201")
    /\ UNCHANGED <<evidence, citation, provenance>>

Signable_Ai(i, p) ==
    /\ review[i].reviewer = p /\ ~review[i].withdrawn
    /\ review[i].jws = NoRequest

\* validateApplySignature, on the row as it was read.
Signable(i, p) ==
    /\ review[i].reviewer = p /\ ~review[i].withdrawn
    /\ ~review[i].ai /\ review[i].jws = NoRequest

\* The caller has an ORCID iD and a token, or is refused.
Sign(q, p, i) ==
    /\ At(q, "idle") /\ i \in DOMAIN review
    /\ request' = [request EXCEPT ![q] = [Idle EXCEPT !.by = p, !.row = i,
                     !.pc = IF Signable(i, p) THEN "sign" ELSE "4xx"]]
    /\ UNCHANGED ledger

Signed(row, q) == [row EXCEPT !.jws = q, !.orcid = q]

\* Signature, iD and time are set in one UPDATE ... WHERE id = <review>.
SignRow(q) ==
    /\ At(q, "sign")
    /\ review' = [review EXCEPT ![request[q].row] = Signed(@, q)]
    /\ Goto(q, "200")
    /\ UNCHANGED <<evidence, citation, provenance>>

\* validateWithdraw, on the row as it was read; the reason is given.
Withdraw(q, p, i) ==
    /\ At(q, "idle") /\ i \in DOMAIN review
    /\ request' = [request EXCEPT ![q] = [Idle EXCEPT !.by = p, !.row = i,
                     !.pc = IF review[i].reviewer = p /\ ~review[i].withdrawn
                            THEN "withdraw" ELSE "4xx"]]
    /\ UNCHANGED ledger

WithdrawRow(q) ==
    /\ At(q, "withdraw")
    /\ review' = [review EXCEPT ![request[q].row].withdrawn = TRUE]
    /\ Goto(q, "200")
    /\ UNCHANGED <<evidence, citation, provenance>>

\* A statement fails: a submission that has its provenance row keeps it.
FailRequest(q) ==
    /\ request[q].pc \in {"bind", "review", "sign", "withdraw"}
    /\ Goto(q, "500")
    /\ UNCHANGED ledger

LedgerStep(q) ==
    \/ \E p \in People, d \in Drafts : BeginBind(q, p, d)
    \/ \E p \in People, b \in Submissions : Submit(q, p, b)
    \/ \E p \in People, i \in Requests : Sign(q, p, i) \/ Withdraw(q, p, i)
    \/ CommitBind(q) \/ InsertReview(q) \/ SignRow(q) \/ WithdrawRow(q)
    \/ FailRequest(q)

-----------------------------------------------------------------------------

EvidenceOf(c) == {e \in evidence : e.claim = c}
ReviewsOf(c)  == {q \in DOMAIN review : review[q].claim = c}

-----------------------------------------------------------------------------
(* Properties.                                                             *)

\* The signature, the iD and the one who gave both belong together, to the author
\* of a human verdict: what the CHECK constraints of migration 0014 ask of one
\* row, however signatures and withdrawals overlap.
SignaturesAreTheAuthors ==
    \A q \in DOMAIN review :
        /\ review[q].jws = review[q].orcid
        /\ review[q].jws # NoRequest =>
             /\ ~review[q].ai
             /\ request[review[q].jws].row = q /\ At(review[q].jws, "200")
             /\ request[review[q].jws].by = review[q].reviewer

=============================================================================
