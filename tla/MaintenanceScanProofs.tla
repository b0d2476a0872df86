------------------------- MODULE MaintenanceScanProofs -------------------------
(***************************************************************************)
(* What holds of the claim ledger, of the scans that read it and of their  *)
(* findings, for any people, claims, requests, scans and clicks.           *)
(*                                                                         *)
(* The ledger's invariant is its own (LedgerInv); what scans need of it is *)
(* that it only grows (Grows).  A scan's part (ScanInv) says what each     *)
(* kind of finding owed to the ledger when its generator read it.          *)
(***************************************************************************)
EXTENDS MaintenanceScan, TLAPS

\* What a request under way works on: its own row is not there yet, and the row
\* of somebody's review stays what validateApplySignature found of it.
Underway ==
    \A q \in Requests :
        /\ request[q].pc \in {"bind", "review"} =>
              request[q].by \in People /\ request[q].claim \in Claims
        /\ request[q].pc \in {"idle", "bind", "review"} => q \notin DOMAIN review
        /\ request[q].pc \in {"sign", "withdraw"} => request[q].row \in DOMAIN review
        /\ request[q].pc = "sign" => /\ review[request[q].row].reviewer = request[q].by
                                     /\ ~review[request[q].row].ai

LedgerInv == LedgerTypeOK /\ Underway /\ SignaturesAreTheAuthors

\* Rows stay, and of a review only signature and withdrawal change.
Grows ==
    /\ evidence \subseteq evidence' /\ DOMAIN review \subseteq DOMAIN review'
    /\ \A q \in DOMAIN review :
          /\ review'[q].claim = review[q].claim /\ review'[q].verdict = review[q].verdict
          /\ review'[q].ai = review[q].ai /\ review'[q].reviewer = review[q].reviewer
          /\ review[q].withdrawn => review'[q].withdrawn

\* What a step does about the signature of row x.
Keeps(x) == /\ x \in DOMAIN review
            /\ review'[x].jws = review[x].jws /\ review'[x].orcid = review[x].orcid
            /\ review'[x].ai = review[x].ai /\ review'[x].reviewer = review[x].reviewer

Unsigned(x) == review'[x].jws = NoRequest /\ review'[x].orcid = NoRequest

Signs(x, q, new) ==
    /\ review'[x].jws = q /\ review'[x].orcid = q /\ ~review'[x].ai
    /\ new.row = x /\ new.pc = "200" /\ new.by = review'[x].reviewer

-----------------------------------------------------------------------------
(* The requests' records.                                                  *)

Binding(p, d, found) ==
    [Idle EXCEPT !.pc = "bind", !.by = p, !.claim = d.claim, !.relation = d.relation,
                 !.doi = d.doi, !.reuse = found]

Submitting(p, b) ==
    [Idle EXCEPT !.pc = "review", !.by = p, !.claim = b.claim, !.verdict = b.verdict, !.ai = b.ai]

On(p, i, pc) == [Idle EXCEPT !.by = p, !.row = i, !.pc = pc]

Draft      == [claim : Claims, relation : Relation, doi : Dois \cup {NoDoi}]
Submission == [claim : Claims, verdict : Verdicts, ai : BOOLEAN, refs : BOOLEAN]

\* An idle request is one.
LEMMA IdleCall == Idle \in Call /\ Idle.pc = "idle"
BY Zenon DEF Idle, Call, Relation, Verdicts

\* What a request takes over from a draft.
LEMMA BindingCall ==
    ASSUME NEW p \in People, NEW d \in Draft, NEW found \in Requests \cup {NoRequest}
    PROVE  /\ Binding(p, d, found) \in Call /\ Binding(p, d, found).pc = "bind"
           /\ Binding(p, d, found).by = p /\ Binding(p, d, found).claim = d.claim
<1>1. d.claim \in Claims /\ d.relation \in Relation /\ d.doi \in Dois \cup {NoDoi}
  BY DEF Draft
<1>2. Idle = [pc |-> "idle", by |-> NoOne, row |-> NoRequest, claim |-> NoClaim,
              relation |-> "supports", doi |-> NoDoi, reuse |-> NoRequest, ai |-> FALSE,
              verdict |-> "endorses"]
  BY DEF Idle
<1>3. "endorses" \in Verdicts
  BY DEF Verdicts
<1>. QED BY <1>1, <1>2, <1>3, Zenon DEF Binding, Call

\* What it takes over from a submission.
LEMMA SubmittingCall ==
    ASSUME NEW p \in People, NEW b \in Submission
    PROVE  /\ Submitting(p, b) \in Call /\ Submitting(p, b).pc = "review"
           /\ Submitting(p, b).by = p /\ Submitting(p, b).claim = b.claim
<1>1. b.claim \in Claims /\ b.verdict \in Verdicts /\ b.ai \in BOOLEAN
  BY DEF Submission
<1>2. Idle = [pc |-> "idle", by |-> NoOne, row |-> NoRequest, claim |-> NoClaim,
              relation |-> "supports", doi |-> NoDoi, reuse |-> NoRequest, ai |-> FALSE,
              verdict |-> "endorses"]
  BY DEF Idle
<1>3. "supports" \in Relation
  BY DEF Relation
<1>. QED BY <1>1, <1>2, <1>3, Zenon DEF Submitting, Call

\* And a request about a review.
LEMMA OnCall ==
    ASSUME NEW p \in People, NEW i \in Requests, NEW pc \in {"sign", "withdraw", "4xx"}
    PROVE  /\ On(p, i, pc) \in Call /\ On(p, i, pc).pc = pc
           /\ On(p, i, pc).by = p /\ On(p, i, pc).row = i
<1>1. pc \in {"idle", "bind", "review", "sign", "withdraw", "201", "200", "4xx", "500"}
  OBVIOUS
<1>2. Idle = [pc |-> "idle", by |-> NoOne, row |-> NoRequest, claim |-> NoClaim,
              relation |-> "supports", doi |-> NoDoi, reuse |-> NoRequest, ai |-> FALSE,
              verdict |-> "endorses"]
  BY DEF Idle
<1>3. "supports" \in Relation /\ "endorses" \in Verdicts
  BY DEF Relation, Verdicts
<1>. QED BY <1>1, <1>2, <1>3, Zenon DEF On, Call

\* A request goes on.
LEMMA Onward ==
    ASSUME NEW k \in Call, NEW pc \in {"201", "200", "4xx", "500"}
    PROVE  /\ [k EXCEPT !.pc = pc] \in Call /\ [k EXCEPT !.pc = pc].pc = pc
           /\ [k EXCEPT !.pc = pc].row = k.row /\ [k EXCEPT !.pc = pc].by = k.by
BY Zenon DEF Call

\* A review that is made, signed or withdrawn.
LEMMA ReviewRows ==
    /\ \A p \in People, k \in Call : k.claim \in Claims =>
          /\ NewReview(p, k) \in Review /\ NewReview(p, k).jws = NoRequest
          /\ NewReview(p, k).orcid = NoRequest
    /\ \A row \in Review, q \in Requests :
          /\ Signed(row, q) \in Review /\ Signed(row, q).jws = q /\ Signed(row, q).orcid = q
          /\ Signed(row, q).claim = row.claim /\ Signed(row, q).reviewer = row.reviewer
          /\ Signed(row, q).ai = row.ai /\ Signed(row, q).verdict = row.verdict
          /\ Signed(row, q).withdrawn = row.withdrawn
    /\ \A row \in Review : LET new == [row EXCEPT !.withdrawn = TRUE] IN
          /\ new \in Review /\ new.jws = row.jws /\ new.orcid = row.orcid
          /\ new.claim = row.claim /\ new.reviewer = row.reviewer
          /\ new.ai = row.ai /\ new.verdict = row.verdict /\ new.withdrawn
<1>1. ASSUME NEW p \in People, NEW k \in Call, k.claim \in Claims
      PROVE  /\ NewReview(p, k) \in Review /\ NewReview(p, k).jws = NoRequest
             /\ NewReview(p, k).orcid = NoRequest
  BY <1>1 DEF NewReview, Review, Call
<1>2. ASSUME NEW row \in Review, NEW q \in Requests
      PROVE  /\ Signed(row, q) \in Review /\ Signed(row, q).jws = q /\ Signed(row, q).orcid = q
             /\ Signed(row, q).claim = row.claim /\ Signed(row, q).reviewer = row.reviewer
             /\ Signed(row, q).ai = row.ai /\ Signed(row, q).verdict = row.verdict
             /\ Signed(row, q).withdrawn = row.withdrawn
  BY Zenon DEF Signed, Review
<1>3. ASSUME NEW row \in Review
      PROVE  LET new == [row EXCEPT !.withdrawn = TRUE] IN
             /\ new \in Review /\ new.jws = row.jws /\ new.orcid = row.orcid
             /\ new.claim = row.claim /\ new.reviewer = row.reviewer
             /\ new.ai = row.ai /\ new.verdict = row.verdict /\ new.withdrawn
  BY Zenon DEF Review
<1>. QED BY <1>1, <1>2, <1>3

-----------------------------------------------------------------------------
(* The ledger.                                                             *)

\* The earlier requests' reviews are there, and nothing is signed.
LEMMA LedgerBegins == LedgerInit => LedgerInv
<1> SUFFICES ASSUME LedgerInit PROVE LedgerInv
    OBVIOUS
<1>. DEFINE Done(q) == [Idle EXCEPT !.pc = "201", !.by = review[q].reviewer,
                          !.claim = review[q].claim, !.verdict = review[q].verdict,
                          !.ai = review[q].ai]
<1>1. Earlier \subseteq Requests /\ Submissions \subseteq Submission
  BY InputConstants DEF Submission
<1>2. /\ DOMAIN review = Earlier
      /\ \A q \in Earlier : \E p \in People, b \in Submissions : review[q] = NewReview(p, b)
  <2>1. review \in [Earlier -> Reviewed]
    BY DEF LedgerInit
  <2>2. \A row \in Reviewed : \E p \in People, b \in Submissions : row = NewReview(p, b)
    BY DEF Reviewed
  <2>. QED BY <2>1, <2>2
<1>3. ASSUME NEW q \in Earlier
      PROVE  review[q] \in Review /\ review[q].jws = NoRequest /\ review[q].orcid = NoRequest
  <2>1. PICK p \in People, b \in Submissions : review[q] = NewReview(p, b)
    BY <1>2
  <2>2. b.claim \in Claims /\ b.verdict \in Verdicts /\ b.ai \in BOOLEAN
    BY <1>1 DEF Submission
  <2>3. review[q] = [claim |-> b.claim, reviewer |-> p, ai |-> b.ai, verdict |-> b.verdict,
                     jws |-> NoRequest, orcid |-> NoRequest, withdrawn |-> FALSE]
    BY <2>1 DEF NewReview
  <2>4. NoRequest \in Requests \cup {NoRequest}
    OBVIOUS
  <2>. QED BY <2>2, <2>3, <2>4 DEF Review
<1>4. ASSUME NEW q \in Earlier PROVE Done(q) \in Call /\ Done(q).pc = "201"
  <2>1. /\ review[q].reviewer \in People /\ review[q].claim \in Claims
        /\ review[q].verdict \in Verdicts /\ review[q].ai \in BOOLEAN
    BY <1>3 DEF Review
  <2>2. Idle = [pc |-> "idle", by |-> NoOne, row |-> NoRequest, claim |-> NoClaim,
                relation |-> "supports", doi |-> NoDoi, reuse |-> NoRequest, ai |-> FALSE,
                verdict |-> "endorses"]
    BY DEF Idle
  <2>3. "supports" \in Relation
    BY DEF Relation
  <2>. QED BY <2>1, <2>2, <2>3, Zenon DEF Call
<1>5. /\ request \in [Requests -> Call]
      /\ \A q \in Requests : request[q].pc = IF q \in Earlier THEN "201" ELSE "idle"
  <2>1. request = [q \in Requests |-> IF q \in Earlier THEN Done(q) ELSE Idle]
    BY Zenon DEF LedgerInit
  <2>. HIDE DEF Done
  <2>. QED BY <1>4, <2>1, IdleCall
<1>6. provenance \in SUBSET [by : Requests, actor : Actor]
  <2>1. \A q \in Requests : \A ai : Tracing(q, ai) \in [by : Requests, actor : Actor]
    BY DEF Tracing, Actor
  <2>2. provenance = {Tracing(q, review[q].ai) : q \in Earlier}
    BY DEF LedgerInit
  <2>. QED BY <1>1, <2>1, <2>2
<1>7. LedgerTypeOK
  <2>1. evidence = {} /\ citation = {}
    BY DEF LedgerInit
  <2>. QED BY <1>1, <1>2, <1>3, <1>5, <1>6, <2>1 DEF LedgerTypeOK
<1>8. Underway
  BY <1>2, <1>5 DEF Underway
<1>9. SignaturesAreTheAuthors
  BY <1>2, <1>3 DEF SignaturesAreTheAuthors
<1>. QED BY <1>7, <1>8, <1>9 DEF LedgerInv

\* What the others work on is as it was when q moves.
LEMMA OthersGoOn ==
    ASSUME LedgerInv, Grows, NEW q \in Requests, NEW new \in Call,
           request' = [request EXCEPT ![q] = new], DOMAIN review' \subseteq DOMAIN review \cup {q},
           new.pc \in {"bind", "review"} => new.by \in People /\ new.claim \in Claims,
           new.pc \in {"idle", "bind", "review"} => q \notin DOMAIN review',
           new.pc \in {"sign", "withdraw"} => new.row \in DOMAIN review,
           new.pc = "sign" => review[new.row].reviewer = new.by /\ ~review[new.row].ai
    PROVE  Underway'
<1>1. request'[q] = new /\ \A r \in Requests : r # q => request'[r] = request[r]
  BY DEF LedgerInv, LedgerTypeOK
<1>2. ASSUME NEW r \in Requests
      PROVE  /\ request'[r].pc \in {"bind", "review"} =>
                   request'[r].by \in People /\ request'[r].claim \in Claims
             /\ request'[r].pc \in {"idle", "bind", "review"} => r \notin DOMAIN review'
             /\ request'[r].pc \in {"sign", "withdraw"} => request'[r].row \in DOMAIN review'
             /\ request'[r].pc = "sign" => /\ review'[request'[r].row].reviewer = request'[r].by
                                           /\ ~review'[request'[r].row].ai
  <2>1. CASE r = q
    BY <1>1, <2>1 DEF Grows
  <2>2. CASE r # q
    <3>1. request'[r] = request[r]
      BY <1>1, <2>2
    <3>. QED BY <2>2, <3>1 DEF Grows, LedgerInv, Underway
  <2>. QED BY <2>1, <2>2
<1>. QED BY <1>2 DEF Underway

\* A signature stays its author's as long as rows keep it, or q gives one of its own.
LEMMA SignaturesStay ==
    ASSUME LedgerInv, NEW q \in Requests, NEW new \in Call, request[q].pc # "200",
           request' = [request EXCEPT ![q] = new],
           \A x \in DOMAIN review' : Keeps(x) \/ Unsigned(x) \/ Signs(x, q, new)
    PROVE  SignaturesAreTheAuthors'
<1>1. request'[q] = new /\ \A r \in Requests : r # q => request'[r] = request[r]
  BY DEF LedgerInv, LedgerTypeOK
<1>2. ASSUME NEW x \in DOMAIN review'
      PROVE  /\ review'[x].jws = review'[x].orcid
             /\ review'[x].jws # NoRequest =>
                  /\ ~review'[x].ai
                  /\ request'[review'[x].jws].row = x /\ request'[review'[x].jws].pc = "200"
                  /\ request'[review'[x].jws].by = review'[x].reviewer
  <2>1. CASE Keeps(x)
    <3>1. review[x].jws \in Requests \cup {NoRequest}
      BY <2>1 DEF Keeps, LedgerInv, LedgerTypeOK, Review
    <3>2. /\ review[x].jws = review[x].orcid
          /\ review[x].jws # NoRequest =>
               /\ ~review[x].ai
               /\ request[review[x].jws].row = x /\ request[review[x].jws].pc = "200"
               /\ request[review[x].jws].by = review[x].reviewer
      BY <2>1 DEF Keeps, LedgerInv, SignaturesAreTheAuthors, At
    <3>3. review[x].jws # NoRequest => request'[review[x].jws] = request[review[x].jws]
      BY <1>1, <3>1, <3>2
    <3>. QED BY <2>1, <3>2, <3>3 DEF Keeps
  <2>2. CASE Unsigned(x)
    BY <2>2 DEF Unsigned
  <2>3. CASE Signs(x, q, new)
    BY <1>1, <2>3 DEF Signs
  <2>. QED BY <2>1, <2>2, <2>3
<1>. QED BY <1>2 DEF SignaturesAreTheAuthors, At

\* Where a step leaves the reviews alone, what it does to its own request decides.
LEMMA ReviewsAlone ==
    ASSUME LedgerInv, review' = review, NEW q \in Requests, NEW new \in Call,
           request[q].pc # "200", request' = [request EXCEPT ![q] = new],
           evidence' \in SUBSET Evidence, evidence \subseteq evidence',
           citation' \in SUBSET [by : Requests, doi : Dois, creator : People],
           provenance' \in SUBSET [by : Requests, actor : Actor],
           new.pc \in {"bind", "review"} => new.by \in People /\ new.claim \in Claims,
           new.pc \in {"idle", "bind", "review"} => q \notin DOMAIN review,
           new.pc \in {"sign", "withdraw"} => new.row \in DOMAIN review,
           new.pc = "sign" => review[new.row].reviewer = new.by /\ ~review[new.row].ai
    PROVE  LedgerInv' /\ Grows
<1>1. Grows
  BY DEF Grows
<1>2. LedgerTypeOK'
  BY DEF LedgerInv, LedgerTypeOK
<1>3. Underway'
  BY <1>1, OthersGoOn
<1>4. SignaturesAreTheAuthors'
  <2>1. \A x \in DOMAIN review' : Keeps(x)
    BY DEF Keeps
  <2>. QED BY <2>1, SignaturesStay
<1>. QED BY <1>1, <1>2, <1>3, <1>4 DEF LedgerInv

\* q's request is one that goes on, and goes to pc.
LEMMA GoesTo ==
    ASSUME LedgerInv, NEW q \in Requests, NEW pc \in {"201", "200", "4xx", "500"}, Goto(q, pc)
    PROVE  \E new \in Call : /\ request' = [request EXCEPT ![q] = new] /\ new.pc = pc
                             /\ new.row = request[q].row /\ new.by = request[q].by
<1>. DEFINE new == [request[q] EXCEPT !.pc = pc]
<1>1. request[q] \in Call
  BY DEF LedgerInv, LedgerTypeOK
<1>2. request' = [request EXCEPT ![q] = new]
  BY Zenon DEF Goto
<1>3. new \in Call /\ new.pc = pc /\ new.row = request[q].row /\ new.by = request[q].by
  BY <1>1, Onward
<1>. QED BY <1>2, <1>3

\* Every step of the ledger keeps its invariant, and the ledger's rows.
LEMMA LedgerGoesOn ==
    ASSUME LedgerInv, NEW q \in Requests, LedgerStep(q)
    PROVE  LedgerInv' /\ Grows
<1>0. /\ Drafts \subseteq Draft /\ Submissions \subseteq Submission
      /\ NoDoi \notin Dois /\ NoOne \notin People /\ NoRequest \notin Requests
  BY InputConstants, LedgerConstants DEF Draft, Submission
<1>1. /\ evidence \in SUBSET Evidence /\ provenance \in SUBSET [by : Requests, actor : Actor]
      /\ citation \in SUBSET [by : Requests, doi : Dois, creator : People]
      /\ request[q] \in Call
  BY DEF LedgerInv, LedgerTypeOK
<1>2. request[q].pc = "idle" => q \notin DOMAIN review
  BY DEF LedgerInv, Underway
<1>3. ASSUME NEW p \in People, NEW d \in Drafts, BeginBind(q, p, d) PROVE LedgerInv' /\ Grows
  <2>1. Reusable(d.doi) \subseteq Requests
    BY <1>1 DEF Reusable
  <2>2. PICK found \in IF Reusable(d.doi) = {} THEN {NoRequest} ELSE Reusable(d.doi) :
           request' = [request EXCEPT ![q] = Binding(p, d, found)]
    BY <1>3, Zenon DEF BeginBind, Binding
  <2>3. found \in Requests \cup {NoRequest}
    BY <2>1, <2>2
  <2>. DEFINE new == Binding(p, d, found)
  <2>4. new \in Call /\ new.pc = "bind" /\ new.by \in People /\ new.claim \in Claims
    <3>1. d \in Draft /\ d.claim \in Claims
      BY <1>0 DEF Draft
    <3>. QED BY <2>3, <3>1, BindingCall
  <2>5. /\ request[q].pc = "idle" /\ review' = review /\ evidence' = evidence
        /\ citation' = citation /\ provenance' = provenance
    BY <1>3 DEF BeginBind, At, ledger
  <2>6. request' = [request EXCEPT ![q] = new]
    BY <2>2
  <2>. HIDE DEF new
  <2>. QED BY <1>1, <1>2, <2>4, <2>5, <2>6, ReviewsAlone
<1>4. ASSUME CommitBind(q) PROVE LedgerInv' /\ Grows
  <2>. DEFINE r    == request[q]
              anew == r.doi # NoDoi /\ r.reuse = NoRequest
              row  == [by |-> q, claim |-> r.claim, relation |-> r.relation,
                       citation |-> IF anew THEN q ELSE r.reuse]
  <2>1. /\ r.pc = "bind" /\ review' = review /\ provenance' = provenance /\ Goto(q, "201")
        /\ citation' = citation \cup
             IF anew THEN {[by |-> q, doi |-> r.doi, creator |-> r.by]} ELSE {}
        /\ evidence' = evidence \cup {row}
    BY <1>4 DEF CommitBind, At
  <2>2. /\ r.by \in People /\ r.claim \in Claims /\ r.relation \in Relation
        /\ r.doi \in Dois \cup {NoDoi} /\ r.reuse \in Requests \cup {NoRequest}
    BY <1>1, <2>1 DEF Call, LedgerInv, Underway
  <2>3. citation' \in SUBSET [by : Requests, doi : Dois, creator : People]
    BY <1>1, <2>1, <2>2
  <2>4. evidence' \in SUBSET Evidence
    BY <1>1, <2>1, <2>2 DEF Evidence
  <2>5. PICK new \in Call : request' = [request EXCEPT ![q] = new] /\ new.pc = "201"
    BY <2>1, GoesTo
  <2>6. evidence \subseteq evidence' /\ r.pc # "200"
    BY <2>1
  <2>. HIDE DEF row
  <2>. QED BY <1>1, <2>1, <2>3, <2>4, <2>5, <2>6, ReviewsAlone
<1>5. ASSUME NEW p \in People, NEW b \in Submissions, Submit(q, p, b) PROVE LedgerInv' /\ Grows
  <2>0. request[q].pc = "idle"
    BY <1>5 DEF Submit, At
  <2>1. CASE Judged(b)
    <3>. DEFINE new == Submitting(p, b)
    <3>1. /\ request' = [request EXCEPT ![q] = new] /\ review' = review
          /\ provenance' = provenance \cup {Tracing(q, b.ai)}
          /\ evidence' = evidence /\ citation' = citation
      BY <1>5, <2>1, Zenon DEF Submit, Submitting
    <3>2. Tracing(q, b.ai) \in [by : Requests, actor : Actor]
      BY DEF Tracing, Actor
    <3>3. new \in Call /\ new.pc = "review" /\ new.by \in People /\ new.claim \in Claims
      <4>1. b \in Submission /\ b.claim \in Claims
        BY <1>0 DEF Submission
      <4>. QED BY <4>1, SubmittingCall
    <3>. HIDE DEF new
    <3>4. provenance' \in SUBSET [by : Requests, actor : Actor]
      BY <1>1, <3>1, <3>2
    <3>. QED BY <1>1, <1>2, <2>0, <3>1, <3>3, <3>4, ReviewsAlone
  <2>2. CASE ~Judged(b)
    <3>1. /\ Goto(q, "4xx") /\ review' = review /\ evidence' = evidence
          /\ citation' = citation /\ provenance' = provenance
      BY <1>5, <2>2 DEF Submit, ledger
    <3>2. PICK new \in Call : request' = [request EXCEPT ![q] = new] /\ new.pc = "4xx"
      BY <3>1, GoesTo
    <3>. QED BY <1>1, <2>0, <3>1, <3>2, ReviewsAlone
  <2>. QED BY <2>1, <2>2
<1>6. ASSUME NEW p \in People, NEW i \in Requests, Sign(q, p, i) \/ Withdraw(q, p, i)
      PROVE  LedgerInv' /\ Grows
  <2>1. /\ request[q].pc = "idle" /\ i \in DOMAIN review /\ review' = review
        /\ evidence' = evidence /\ citation' = citation /\ provenance' = provenance
    BY <1>6 DEF Sign, Withdraw, At, ledger
  <2>2. PICK pc \in {"sign", "withdraw", "4xx"} :
           /\ request' = [request EXCEPT ![q] = On(p, i, pc)]
           /\ pc = "sign" => Signable(i, p)
    <3>1. CASE Sign(q, p, i)
      <4>1. request' = [request EXCEPT ![q] = On(p, i, IF Signable(i, p) THEN "sign" ELSE "4xx")]
        BY <3>1, Zenon DEF Sign, On
      <4>. QED BY <4>1
    <3>2. CASE Withdraw(q, p, i)
      <4>1. request' = [request EXCEPT ![q] =
              On(p, i, IF review[i].reviewer = p /\ ~review[i].withdrawn
                       THEN "withdraw" ELSE "4xx")]
        BY <3>2, Zenon DEF Withdraw, On
      <4>. QED BY <4>1
    <3>. QED BY <1>6, <3>1, <3>2
  <2>. DEFINE new == On(p, i, pc)
  <2>3. new \in Call /\ new.pc = pc /\ new.by = p /\ new.row = i
    BY OnCall
  <2>4. request' = [request EXCEPT ![q] = new]
    BY <2>2
  <2>5. new.pc = "sign" => review[new.row].reviewer = new.by /\ ~review[new.row].ai
    BY <2>2, <2>3 DEF Signable
  <2>. HIDE DEF new
  <2>. QED BY <1>1, <2>1, <2>3, <2>4, <2>5, ReviewsAlone
<1>7. ASSUME InsertReview(q) PROVE LedgerInv' /\ Grows
  <2>. DEFINE row == NewReview(request[q].by, request[q])
  <2>1. /\ request[q].pc = "review" /\ review' = WithRow(review, q, row) /\ Goto(q, "201")
        /\ evidence' = evidence /\ citation' = citation /\ provenance' = provenance
    BY <1>7 DEF InsertReview, At
  <2>2. request[q].by \in People /\ request[q].claim \in Claims /\ q \notin DOMAIN review
    BY <2>1 DEF LedgerInv, Underway
  <2>3. row \in Review /\ row.jws = NoRequest /\ row.orcid = NoRequest
    BY <1>1, <2>2, ReviewRows
  <2>. HIDE DEF row
  <2>4. /\ DOMAIN review' = DOMAIN review \cup {q} /\ review'[q] = row
        /\ \A x \in DOMAIN review : review'[x] = review[x]
    BY <2>1, <2>2 DEF WithRow
  <2>5. PICK new \in Call : request' = [request EXCEPT ![q] = new] /\ new.pc = "201"
    BY <2>1, GoesTo
  <2>6. Grows
    BY <2>1, <2>4 DEF Grows
  <2>7. LedgerTypeOK'
    <3>1. DOMAIN review \in SUBSET Requests /\ \A x \in DOMAIN review : review[x] \in Review
      BY DEF LedgerInv, LedgerTypeOK
    <3>2. request' \in [Requests -> Call]
      BY <2>5 DEF LedgerInv, LedgerTypeOK
    <3>. QED BY <1>1, <2>1, <2>3, <2>4, <3>1, <3>2 DEF LedgerTypeOK
  <2>8. Underway'
    BY <2>4, <2>5, <2>6, OthersGoOn
  <2>9. SignaturesAreTheAuthors'
    <3>1. \A x \in DOMAIN review' : Keeps(x) \/ Unsigned(x)
      BY <2>3, <2>4 DEF Keeps, Unsigned
    <3>. QED BY <2>1, <2>5, <3>1, SignaturesStay
  <2>. QED BY <2>6, <2>7, <2>8, <2>9 DEF LedgerInv
<1>8. ASSUME SignRow(q) PROVE LedgerInv' /\ Grows
  <2>. DEFINE i == request[q].row
  <2>1. /\ request[q].pc = "sign" /\ Goto(q, "200")
        /\ review' = [review EXCEPT ![i] = Signed(review[i], q)]
        /\ evidence' = evidence /\ citation' = citation /\ provenance' = provenance
    BY <1>8 DEF SignRow, At
  <2>2. /\ i \in DOMAIN review /\ review[i] \in Review
        /\ review[i].reviewer = request[q].by /\ ~review[i].ai
    BY <2>1 DEF LedgerInv, Underway, LedgerTypeOK
  <2>3. /\ DOMAIN review' = DOMAIN review /\ review'[i] = Signed(review[i], q)
        /\ \A x \in DOMAIN review : x # i => review'[x] = review[x]
    BY <2>1, <2>2
  <2>4. PICK new \in Call : /\ request' = [request EXCEPT ![q] = new] /\ new.pc = "200"
                            /\ new.row = i /\ new.by = request[q].by
    BY <2>1, GoesTo
  <2>. HIDE DEF i
  <2>5. /\ review'[i] \in Review /\ review'[i].jws = q /\ review'[i].orcid = q
        /\ review'[i].claim = review[i].claim /\ review'[i].reviewer = review[i].reviewer
        /\ review'[i].ai = review[i].ai /\ review'[i].verdict = review[i].verdict
        /\ review'[i].withdrawn = review[i].withdrawn
    BY <2>2, <2>3, ReviewRows
  <2>6. Grows
    BY <2>1, <2>3, <2>5 DEF Grows
  <2>7. LedgerTypeOK'
    <3>1. DOMAIN review \in SUBSET Requests /\ \A x \in DOMAIN review : review[x] \in Review
      BY DEF LedgerInv, LedgerTypeOK
    <3>2. request' \in [Requests -> Call]
      BY <2>4 DEF LedgerInv, LedgerTypeOK
    <3>3. \A x \in DOMAIN review' : review'[x] \in Review
      BY <2>3, <2>5, <3>1
    <3>. QED BY <1>1, <2>1, <2>3, <3>1, <3>2, <3>3 DEF LedgerTypeOK
  <2>8. Underway'
    <3>1. DOMAIN review' \subseteq DOMAIN review \cup {q}
      BY <2>3
    <3>. QED BY <2>4, <2>6, <3>1, OthersGoOn
  <2>9. SignaturesAreTheAuthors'
    <3>1. \A x \in DOMAIN review' : Keeps(x) \/ Signs(x, q, new)
      BY <2>2, <2>3, <2>4, <2>5 DEF Keeps, Signs
    <3>2. /\ request[q].pc # "200" /\ new \in Call
          /\ request' = [request EXCEPT ![q] = new]
      BY <2>1, <2>4
    <3>. QED BY <3>1, <3>2, SignaturesStay
  <2>. QED BY <2>6, <2>7, <2>8, <2>9 DEF LedgerInv
<1>9. ASSUME WithdrawRow(q) PROVE LedgerInv' /\ Grows
  <2>. DEFINE i   == request[q].row
              row == [review[i] EXCEPT !.withdrawn = TRUE]
  <2>1. /\ request[q].pc = "withdraw" /\ Goto(q, "200")
        /\ review' = [review EXCEPT ![i] = row]
        /\ evidence' = evidence /\ citation' = citation /\ provenance' = provenance
    BY <1>9, Zenon DEF WithdrawRow, At
  <2>2. i \in DOMAIN review /\ review[i] \in Review
    BY <2>1 DEF LedgerInv, Underway, LedgerTypeOK
  <2>3. /\ row \in Review /\ row.jws = review[i].jws /\ row.orcid = review[i].orcid
        /\ row.claim = review[i].claim /\ row.reviewer = review[i].reviewer
        /\ row.ai = review[i].ai /\ row.verdict = review[i].verdict /\ row.withdrawn
    BY <2>2, ReviewRows
  <2>. HIDE DEF row
  <2>4. /\ DOMAIN review' = DOMAIN review /\ review'[i] = row
        /\ \A x \in DOMAIN review : x # i => review'[x] = review[x]
    BY <2>1, <2>2
  <2>5. PICK new \in Call : request' = [request EXCEPT ![q] = new] /\ new.pc = "200"
    BY <2>1, GoesTo
  <2>. HIDE DEF i
  <2>6. Grows
    BY <2>1, <2>3, <2>4 DEF Grows
  <2>7. LedgerTypeOK'
    <3>1. DOMAIN review \in SUBSET Requests /\ \A x \in DOMAIN review : review[x] \in Review
      BY DEF LedgerInv, LedgerTypeOK
    <3>2. request' \in [Requests -> Call]
      BY <2>5 DEF LedgerInv, LedgerTypeOK
    <3>3. \A x \in DOMAIN review' : review'[x] \in Review
      BY <2>3, <2>4, <3>1
    <3>. QED BY <1>1, <2>1, <2>4, <3>1, <3>2, <3>3 DEF LedgerTypeOK
  <2>8. Underway'
    <3>1. DOMAIN review' \subseteq DOMAIN review \cup {q}
      BY <2>4
    <3>. QED BY <2>5, <2>6, <3>1, OthersGoOn
  <2>9. SignaturesAreTheAuthors'
    <3>1. \A x \in DOMAIN review' : Keeps(x)
      BY <2>2, <2>3, <2>4 DEF Keeps
    <3>. QED BY <2>1, <2>5, <3>1, SignaturesStay
  <2>. QED BY <2>6, <2>7, <2>8, <2>9 DEF LedgerInv
<1>10. ASSUME FailRequest(q) PROVE LedgerInv' /\ Grows
  <2>1. /\ request[q].pc # "200" /\ Goto(q, "500") /\ review' = review
        /\ evidence' = evidence /\ citation' = citation /\ provenance' = provenance
    BY <1>10 DEF FailRequest, ledger
  <2>2. PICK new \in Call : request' = [request EXCEPT ![q] = new] /\ new.pc = "500"
    BY <2>1, GoesTo
  <2>. QED BY <1>1, <2>1, <2>2, ReviewsAlone
<1>. QED BY <1>3, <1>4, <1>5, <1>6, <1>7, <1>8, <1>9, <1>10 DEF LedgerStep

-----------------------------------------------------------------------------
(* The scans' records.                                                     *)

\* The scan moves to another stage, and to nothing else that the others see.
Passes(s, at) ==
    /\ scan' \in [Scans -> Scan] /\ \A t \in Scans \ {s} : scan'[t] = scan[t]
    /\ scan'[s].at = at /\ scan'[s].scope = scan[s].scope

HistoryStays(s) ==
    scan'[s].evidence = scan[s].evidence /\ scan'[s].endorsed = scan[s].endorsed

\* Every finding of a scan says so.
Owned(s) == \A f \in scan[s].found : f.scan = s

\* A scan has a vault, and its claims are claims.
LEMMA ScopeTypes ==
    ASSUME scan \in [Scans -> Scan], NEW s \in Scans
    PROVE  Vault(s) \in Vaults /\ InScope(s) \subseteq Claims /\ LiveInScope(s) \subseteq Claims
<1>1. scan[s].scope \in Docs \cup Vaults
  BY ScanConstants DEF Scan
<1>. QED BY <1>1, ScanConstants DEF Vault, Wide, InScope, LiveInScope

\* What is reported is about what is to be reported, and all of it is.
LEMMA Reports ==
    ASSUME scan \in [Scans -> Scan], NEW s \in Scans, NEW kind \in Kind, NEW severity,
           DOMAIN severity \subseteq Claims \cup Requests \cup Outdated,
           \A x \in DOMAIN severity : severity[x] \in {"low", "medium", "high"}
    PROVE  /\ Reported(s, kind, severity) \in SUBSET Finding
           /\ \A f \in Reported(s, kind, severity) :
                 f.scan = s /\ f.kind = kind /\ f.about \in DOMAIN severity
           /\ \A x \in DOMAIN severity : \E f \in Reported(s, kind, severity) :
                 f.kind = kind /\ f.about = x
<1>1. Vault(s) \in Vaults
  BY ScopeTypes
<1>2. \A f \in Reported(s, kind, severity) : \E x \in DOMAIN severity :
         f = [scan |-> s, kind |-> kind, about |-> x, vault |-> Vault(s),
              severity |-> severity[x]]
  BY DEF Reported
<1>3. \A x \in DOMAIN severity :
         [scan |-> s, kind |-> kind, about |-> x, vault |-> Vault(s),
              severity |-> severity[x]] \in Reported(s, kind, severity)
  BY DEF Reported
<1>4. ASSUME NEW x \in DOMAIN severity
      PROVE  [scan |-> s, kind |-> kind, about |-> x, vault |-> Vault(s),
              severity |-> severity[x]] \in Finding
  BY <1>1 DEF Finding
<1>5. \A f \in Reported(s, kind, severity) :
         f \in Finding /\ f.scan = s /\ f.kind = kind /\ f.about \in DOMAIN severity
  BY <1>2, <1>4
<1>6. \A x \in DOMAIN severity : \E f \in Reported(s, kind, severity) :
         f.kind = kind /\ f.about = x
  BY <1>3
<1>. QED BY <1>5, <1>6

\* A generator adds what it reports to the findings of its kind.
LEMMA Generates ==
    ASSUME scan \in [Scans -> Scan], NEW s \in Scans, Owned(s),
           NEW from, NEW to \in Stage, NEW kind \in Kind, NEW severity,
           DOMAIN severity \subseteq Claims \cup Requests \cup Outdated,
           \A x \in DOMAIN severity : severity[x] \in {"low", "medium", "high"},
           Then(s, from, to, Reported(s, kind, severity))
    PROVE  /\ Passes(s, to) /\ scan[s].at = from /\ HistoryStays(s) /\ Owned(s)'
           /\ scan'[s].candidates = scan[s].candidates
           /\ \A k : k # kind => Found(s, k)' = Found(s, k)
           /\ Found(s, kind)' = Found(s, kind) \cup DOMAIN severity
<1>. DEFINE more == Reported(s, kind, severity)
<1>1. /\ more \in SUBSET Finding
      /\ \A f \in more : f.scan = s /\ f.kind = kind /\ f.about \in DOMAIN severity
      /\ \A x \in DOMAIN severity : \E f \in more : f.kind = kind /\ f.about = x
  BY Reports
<1>2. PICK r, new : /\ r = scan[s] /\ new = [r EXCEPT !.at = to, !.found = @ \cup more]
                    /\ r.at = from /\ scan' = [scan EXCEPT ![s] = new]
  BY Zenon DEF Then
<1>. HIDE DEF more
<1>3. /\ new \in Scan /\ new.at = to /\ new.found = scan[s].found \cup more
      /\ new.scope = scan[s].scope /\ new.candidates = scan[s].candidates
      /\ new.evidence = scan[s].evidence /\ new.endorsed = scan[s].endorsed
  <2>1. r \in Scan /\ more \in SUBSET Finding
    BY <1>1, <1>2
  <2>2. /\ new \in Scan /\ new.at = to /\ new.found = r.found \cup more
        /\ new.scope = r.scope /\ new.candidates = r.candidates
        /\ new.evidence = r.evidence /\ new.endorsed = r.endorsed
    <3>. DEFINE all == r.found \cup more
    <3>1. all \in SUBSET Finding
      BY <2>1 DEF Scan
    <3>2. new = [r EXCEPT !.at = to, !.found = all]
      BY <1>2, Zenon
    <3>. HIDE DEF all
    <3>3. /\ new \in Scan /\ new.at = to /\ new.found = all
          /\ new.scope = r.scope /\ new.candidates = r.candidates
          /\ new.evidence = r.evidence /\ new.endorsed = r.endorsed
      BY <2>1, <3>1, <3>2, Zenon DEF Scan
    <3>. QED BY <3>3 DEF all
  <2>. QED BY <1>2, <2>2
<1>4. scan'[s] = new
  BY <1>2
<1>5. Passes(s, to)
  BY <1>2, <1>3 DEF Passes
<1>6. Owned(s)'
  BY <1>1, <1>3, <1>4 DEF Owned
<1>7. ASSUME NEW k PROVE /\ k # kind => Found(s, k)' = Found(s, k)
                         /\ k = kind => Found(s, k)' = Found(s, k) \cup DOMAIN severity
  <2>1. \A x : x \in Found(s, k)' <=> \E f \in scan[s].found \cup more : f.kind = k /\ f.about = x
    BY <1>3, <1>4 DEF Found
  <2>2. \A x : x \in Found(s, k) <=> \E f \in scan[s].found : f.kind = k /\ f.about = x
    BY DEF Found
  <2>3. CASE k # kind
    <3>1. \A x : x \in Found(s, k)' <=> x \in Found(s, k)
      BY <1>1, <2>1, <2>2, <2>3
    <3>. QED BY <2>3, <3>1
  <2>4. CASE k = kind
    <3>1. \A x : x \in Found(s, k)' <=> x \in Found(s, k) \/ x \in DOMAIN severity
      BY <1>1, <2>1, <2>2, <2>4
    <3>. QED BY <2>4, <3>1
  <2>. QED BY <2>3, <2>4
<1>8. HistoryStays(s) /\ scan'[s].candidates = scan[s].candidates
  BY <1>3, <1>4 DEF HistoryStays
<1>. QED BY <1>2, <1>5, <1>6, <1>7, <1>8

\* Where nothing is found, what was found stays as it is.
LEMMA FoundStays ==
    ASSUME NEW s, scan'[s].found = scan[s].found
    PROVE  (Owned(s) => Owned(s)') /\ \A k : Found(s, k)' = Found(s, k)
BY DEF Owned, Found

\* A scan that only moves on,
LEMMA MovesOn ==
    ASSUME scan \in [Scans -> Scan], NEW s \in Scans, NEW to \in Stage,
           scan' = [scan EXCEPT ![s].at = to]
    PROVE  /\ Passes(s, to) /\ HistoryStays(s) /\ scan'[s].found = scan[s].found
           /\ scan'[s].candidates = scan[s].candidates
<1>1. PICK r, new : r = scan[s] /\ new = [r EXCEPT !.at = to] /\ scan' = [scan EXCEPT ![s] = new]
  BY Zenon
<1>2. r \in Scan
  BY <1>1
<1>3. /\ new \in Scan /\ new.at = to /\ new.found = r.found /\ new.scope = r.scope
      /\ new.candidates = r.candidates /\ new.evidence = r.evidence /\ new.endorsed = r.endorsed
  BY <1>1, <1>2, Zenon DEF Scan
<1>. QED BY <1>1, <1>3 DEF Passes, HistoryStays

\* one that begins,
LEMMA Begins ==
    ASSUME scan \in [Scans -> Scan], NEW s \in Scans, Begin(s), evidence \in SUBSET Evidence
    PROVE  /\ Passes(s, "unsupported") /\ scan[s].at = "begin"
           /\ scan'[s].found = scan[s].found /\ scan'[s].candidates = scan[s].candidates
           /\ scan'[s].evidence = evidence /\ scan'[s].endorsed = Endorsed
<1>1. PICK r, new : /\ r = scan[s] /\ r.at = "begin"
                    /\ new = [r EXCEPT !.at = "unsupported", !.evidence = evidence,
                                       !.endorsed = Endorsed]
                    /\ scan' = [scan EXCEPT ![s] = new]
  BY Zenon DEF Begin
<1>2. r \in Scan /\ Endorsed \in SUBSET Claims /\ "unsupported" \in Stage
  BY <1>1 DEF Endorsed, Stage
<1>3. /\ new \in Scan /\ new.at = "unsupported" /\ new.found = r.found /\ new.scope = r.scope
      /\ new.candidates = r.candidates /\ new.evidence = evidence /\ new.endorsed = Endorsed
  BY <1>1, <1>2, Zenon DEF Scan
<1>. QED BY <1>1, <1>3 DEF Passes

\* and one that takes its candidates.
LEMMA TakesCandidates ==
    ASSUME scan \in [Scans -> Scan], NEW s \in Scans, ScanCandidates(s)
    PROVE  LET old == InScope(s) \cap Old \cap ByAgent IN
           /\ Passes(s, IF old = {} THEN "write" ELSE "endorsements") /\ HistoryStays(s)
           /\ scan[s].at = "unverified" /\ scan'[s].found = scan[s].found
           /\ scan'[s].candidates = old
<1>. DEFINE old == InScope(s) \cap Old \cap ByAgent
            to  == IF old = {} THEN "write" ELSE "endorsements"
<1>1. PICK r, new : /\ r = scan[s] /\ r.at = "unverified"
                    /\ new = [r EXCEPT !.at = to, !.candidates = old]
                    /\ scan' = [scan EXCEPT ![s] = new]
  BY Zenon DEF ScanCandidates
<1>2. r \in Scan /\ old \in SUBSET Claims /\ to \in Stage
  BY <1>1, ScopeTypes DEF Stage
<1>. HIDE DEF old, to
<1>3. /\ new \in Scan /\ new.at = to /\ new.found = r.found /\ new.scope = r.scope
      /\ new.candidates = old /\ new.evidence = r.evidence /\ new.endorsed = r.endorsed
  BY <1>1, <1>2, Zenon DEF Scan
<1>4. /\ Passes(s, to) /\ HistoryStays(s) /\ scan[s].at = "unverified"
      /\ scan'[s].found = scan[s].found /\ scan'[s].candidates = old
  BY <1>1, <1>3 DEF Passes, HistoryStays
<1>. QED BY <1>4 DEF old, to

-----------------------------------------------------------------------------
(* What a scan has found.                                                  *)

\* Nothing is found before the generator that finds it,
NothingEarly(s) ==
    /\ scan[s].at \in {"begin", "unsupported"} => Found(s, "unsupported-claim") = {}
    /\ scan[s].at \in {"begin", "unsupported", "outdated", "ai-block", "contradicted"} =>
         Found(s, "contradicted-conclusion") = {}
    /\ scan[s].at \notin {"write", "written", "failed"} => Found(s, "unverified-claim") = {}

Candidates(s) ==
    scan[s].at = "endorsements" => scan[s].candidates = InScope(s) \cap Old \cap ByAgent

\* and what the ledger held when the scan began it still holds, but for reviews
\* that were withdrawn.
Remembers(s) ==
    /\ scan[s].evidence \subseteq evidence
    /\ \A c \in scan[s].endorsed : c \in Endorsed \/ \E q \in ReviewsOf(c) : review[q].withdrawn

\* ScanIsBracketed, kind by kind.  An endorsed claim is reported only where a
\* review was withdrawn, whether or not another one endorses it by now.
SupportBracketed(s) ==
    \A c \in LiveInScope(s) : Beyond(s, "unsupported-claim") =>
        /\ EvidenceOf(c) = {} => c \in Found(s, "unsupported-claim")
        /\ c \in Found(s, "unsupported-claim") => ~\E e \in scan[s].evidence : e.claim = c

ConclusionBracketed(s) ==
    \A c \in LiveInScope(s) : Beyond(s, "contradicted-conclusion") =>
        /\ (c \notin Synthesised
            /\ \E e \in scan[s].evidence : e.claim = c /\ e.relation = "challenges") =>
              c \in Found(s, "contradicted-conclusion")
        /\ c \in Found(s, "contradicted-conclusion") => Challenged(c)

EndorsementBracketed(s) ==
    \A c \in LiveInScope(s) : (Beyond(s, "unverified-claim") /\ c \in Old \cap ByAgent) =>
        /\ (c \in Found(s, "unverified-claim") /\ c \in scan[s].endorsed) =>
              \E q \in ReviewsOf(c) : review[q].withdrawn
        /\ c \notin Found(s, "unverified-claim") =>
              \E q \in ReviewsOf(c) : review[q].verdict = "endorses" /\ ~review[q].ai

Bracketed(s) == SupportBracketed(s) /\ ConclusionBracketed(s) /\ EndorsementBracketed(s)

Sound(s) == Owned(s) /\ NothingEarly(s) /\ Candidates(s) /\ Remembers(s) /\ Bracketed(s)

\* A finding is there only once its scan has written all it found.
Written == \A f \in DOMAIN finding : scan[f.scan].at = "written"

\* A click on its way was allowed by the status it read.
Judging == \A k \in Clicks : click[k].pc = "update" => click[k].to \in Allowed(click[k].read)

ScanInv == ScanTypeOK /\ (\A s \in Scans : Sound(s)) /\ Written /\ Judging

\* What a claim has, it keeps: evidence, a challenge, a review, a withdrawal.
LEMMA ClaimsKeep ==
    ASSUME Grows, NEW c
    PROVE  /\ EvidenceOf(c)' = {} => EvidenceOf(c) = {}
           /\ Challenged(c) => Challenged(c)'
           /\ (\E q \in ReviewsOf(c) : review[q].withdrawn) =>
                 (\E q \in ReviewsOf(c) : review[q].withdrawn)'
           /\ (\E q \in ReviewsOf(c) : review[q].verdict = "endorses" /\ ~review[q].ai) =>
                 (\E q \in ReviewsOf(c) : review[q].verdict = "endorses" /\ ~review[q].ai)'
           /\ c \in Endorsed => c \in Endorsed' \/ (\E q \in ReviewsOf(c) : review[q].withdrawn)'
<1>1. \A e \in evidence : e \in evidence'
  BY DEF Grows
<1>2. \A q \in ReviewsOf(c) :
         /\ q \in ReviewsOf(c)' /\ q \in DOMAIN review
         /\ review'[q].verdict = review[q].verdict /\ review'[q].ai = review[q].ai
         /\ review[q].withdrawn => review'[q].withdrawn
  BY DEF Grows, ReviewsOf
<1>3. EvidenceOf(c)' = {} => EvidenceOf(c) = {}
  BY <1>1 DEF EvidenceOf
<1>4. Challenged(c) => Challenged(c)'
  BY <1>1 DEF Challenged, EvidenceOf
<1>5. (\E q \in ReviewsOf(c) : review[q].withdrawn) =>
         (\E q \in ReviewsOf(c) : review[q].withdrawn)'
  BY <1>2
<1>6. (\E q \in ReviewsOf(c) : review[q].verdict = "endorses" /\ ~review[q].ai) =>
         (\E q \in ReviewsOf(c) : review[q].verdict = "endorses" /\ ~review[q].ai)'
  BY <1>2
<1>7. ASSUME c \in Endorsed
      PROVE  c \in Endorsed' \/ (\E q \in ReviewsOf(c) : review[q].withdrawn)'
  <2>1. PICK q \in ReviewsOf(c) :
           review[q].verdict = "endorses" /\ ~review[q].ai /\ ~review[q].withdrawn
    BY <1>7 DEF Endorsed
  <2>2. c \in Claims
    BY <1>7 DEF Endorsed
  <2>3. CASE review'[q].withdrawn
    BY <1>2, <2>1, <2>3
  <2>4. CASE ~review'[q].withdrawn
    <3>1. q \in ReviewsOf(c)' /\ review'[q].verdict = "endorses" /\ ~review'[q].ai
      BY <1>2, <2>1
    <3>. QED BY <2>2, <2>4, <3>1 DEF Endorsed
  <2>. QED BY <2>3, <2>4
<1>. QED BY <1>3, <1>4, <1>5, <1>6, <1>7

\* What a scan is for it keeps.
LEMMA ScopeStays ==
    ASSUME NEW s, scan'[s].scope = scan[s].scope
    PROVE  InScope(s)' = InScope(s) /\ LiveInScope(s)' = LiveInScope(s)
<1>1. Wide(s)' = Wide(s)
  BY DEF Wide
<1>2. InScope(s)' = InScope(s)
  BY <1>1 DEF InScope
<1>. QED BY <1>2 DEF LiveInScope

\* Support stays bracketed while the ledger grows and the generator is done,
LEMMA SupportStays ==
    ASSUME NEW s, Grows, SupportBracketed(s), scan'[s].scope = scan[s].scope,
           Beyond(s, "unsupported-claim")' =>
             /\ Beyond(s, "unsupported-claim") /\ HistoryStays(s)
             /\ Found(s, "unsupported-claim")' = Found(s, "unsupported-claim")
    PROVE  SupportBracketed(s)'
<1>. SUFFICES ASSUME NEW c \in LiveInScope(s)', Beyond(s, "unsupported-claim")'
              PROVE  /\ EvidenceOf(c)' = {} => c \in Found(s, "unsupported-claim")'
                     /\ c \in Found(s, "unsupported-claim")' =>
                          ~\E e \in scan'[s].evidence : e.claim = c
     BY DEF SupportBracketed
<1>1. c \in LiveInScope(s)
  BY ScopeStays
<1>2. EvidenceOf(c)' = {} => EvidenceOf(c) = {}
  BY ClaimsKeep
<1>. QED BY <1>1, <1>2 DEF SupportBracketed, HistoryStays

\* so do contradicted conclusions,
LEMMA ConclusionStays ==
    ASSUME NEW s, Grows, ConclusionBracketed(s), scan'[s].scope = scan[s].scope,
           Beyond(s, "contradicted-conclusion")' =>
             /\ Beyond(s, "contradicted-conclusion") /\ HistoryStays(s)
             /\ Found(s, "contradicted-conclusion")' = Found(s, "contradicted-conclusion")
    PROVE  ConclusionBracketed(s)'
<1>. SUFFICES ASSUME NEW c \in LiveInScope(s)', Beyond(s, "contradicted-conclusion")'
              PROVE  /\ (c \notin Synthesised
                         /\ \E e \in scan'[s].evidence : e.claim = c /\ e.relation = "challenges") =>
                           c \in Found(s, "contradicted-conclusion")'
                     /\ c \in Found(s, "contradicted-conclusion")' => Challenged(c)'
     BY DEF ConclusionBracketed
<1>1. c \in LiveInScope(s)
  BY ScopeStays
<1>2. Challenged(c) => Challenged(c)'
  BY ClaimsKeep
<1>. QED BY <1>1, <1>2 DEF ConclusionBracketed, HistoryStays

\* and so do endorsements.
LEMMA EndorsementStays ==
    ASSUME NEW s, Grows, EndorsementBracketed(s), scan'[s].scope = scan[s].scope,
           Beyond(s, "unverified-claim")' =>
             /\ Beyond(s, "unverified-claim") /\ HistoryStays(s)
             /\ Found(s, "unverified-claim")' = Found(s, "unverified-claim")
    PROVE  EndorsementBracketed(s)'
<1>. DEFINE Withdrawn(c) == \E q \in ReviewsOf(c) : review[q].withdrawn
            Human(c) == \E q \in ReviewsOf(c) : review[q].verdict = "endorses" /\ ~review[q].ai
<1>. SUFFICES ASSUME NEW c \in LiveInScope(s)', Beyond(s, "unverified-claim")',
                     c \in Old \cap ByAgent
              PROVE  /\ (c \in Found(s, "unverified-claim")' /\ c \in scan'[s].endorsed) =>
                           Withdrawn(c)'
                     /\ c \notin Found(s, "unverified-claim")' => Human(c)'
     BY DEF EndorsementBracketed
<1>1. c \in LiveInScope(s)
  BY ScopeStays
<1>2. (Withdrawn(c) => Withdrawn(c)') /\ (Human(c) => Human(c)')
  BY ClaimsKeep
<1>3. /\ (c \in Found(s, "unverified-claim") /\ c \in scan[s].endorsed) => Withdrawn(c)
      /\ c \notin Found(s, "unverified-claim") => Human(c)
  BY <1>1 DEF EndorsementBracketed
<1>. HIDE DEF Withdrawn, Human
<1>. QED BY <1>2, <1>3 DEF HistoryStays

\* What a scan remembers stays so.
LEMMA MemoryStays ==
    ASSUME NEW s, Grows, Remembers(s), HistoryStays(s) PROVE Remembers(s)'
<1>1. \A c \in scan[s].endorsed : c \in Endorsed' \/ (\E q \in ReviewsOf(c) : review[q].withdrawn)'
  <2>. TAKE c \in scan[s].endorsed
  <2>. DEFINE Withdrawn == \E q \in ReviewsOf(c) : review[q].withdrawn
  <2>1. c \in Endorsed \/ Withdrawn
    BY DEF Remembers
  <2>2. (Withdrawn => Withdrawn') /\ (c \in Endorsed => c \in Endorsed' \/ Withdrawn')
    BY ClaimsKeep
  <2>. HIDE DEF Withdrawn
  <2>3. c \in Endorsed' \/ Withdrawn'
    BY <2>1, <2>2
  <2>. QED BY <2>3 DEF Withdrawn
<1>2. scan[s].evidence \subseteq evidence'
  BY DEF Remembers, Grows
<1>. QED BY <1>1, <1>2 DEF Remembers, HistoryStays

\* A scan that does not move stays sound while the ledger grows.
LEMMA SoundStays ==
    ASSUME NEW s, Grows, Sound(s), scan'[s] = scan[s] PROVE Sound(s)'
<1>1. /\ scan'[s].scope = scan[s].scope /\ HistoryStays(s) /\ scan'[s].found = scan[s].found
      /\ \A k : Found(s, k)' = Found(s, k) /\ (Beyond(s, k)' <=> Beyond(s, k))
  BY FoundStays DEF HistoryStays, Beyond
<1>2. Owned(s)'
  BY <1>1, FoundStays DEF Sound
<1>3. NothingEarly(s)'
  BY <1>1 DEF Sound, NothingEarly
<1>4. Candidates(s)'
  BY <1>1, ScopeStays DEF Sound, Candidates
<1>5. Remembers(s)'
  BY <1>1, MemoryStays DEF Sound
<1>6. Bracketed(s)'
  BY <1>1, SupportStays, ConclusionStays, EndorsementStays DEF Sound, Bracketed
<1>. QED BY <1>2, <1>3, <1>4, <1>5, <1>6 DEF Sound

-----------------------------------------------------------------------------
(* The generators.                                                         *)

\* How sure a finding is about a claim is one of the severities.
LEMMA Severities == \A c : ByApproval(c) \in {"low", "medium", "high"}
BY DEF ByApproval

\* Nothing of the ledger moves with a scan.
LEMMA LedgerStill == ASSUME UNCHANGED ledger PROVE Grows
BY DEF ledger, Grows

\* Claims without any evidence,
LEMMA UnsupportedSound ==
    ASSUME ScanTypeOK, NEW s \in Scans, Sound(s),
           Then(s, "unsupported", "outdated", Unsupported(s))
    PROVE  Passes(s, "outdated") /\ Sound(s)'
<1>. DEFINE lacking  == {c \in LiveInScope(s) : EvidenceOf(c) = {}}
            severity == [c \in lacking |-> ByApproval(c)]
<1>1. /\ UNCHANGED ledger
      /\ Then(s, "unsupported", "outdated", Reported(s, "unsupported-claim", severity))
  BY DEF Then, Unsupported
<1>2. scan \in [Scans -> Scan] /\ Owned(s) /\ "outdated" \in Stage /\ "unsupported-claim" \in Kind
  BY DEF ScanTypeOK, Sound, Stage, Kind
<1>3. /\ DOMAIN severity = lacking /\ lacking \subseteq Claims
      /\ \A x \in DOMAIN severity : severity[x] \in {"low", "medium", "high"}
  BY <1>2, ScopeTypes, Severities
<1>. HIDE DEF severity, lacking
<1>4. /\ Passes(s, "outdated") /\ scan[s].at = "unsupported" /\ HistoryStays(s) /\ Owned(s)'
      /\ \A k : k # "unsupported-claim" => Found(s, k)' = Found(s, k)
      /\ Found(s, "unsupported-claim")' = Found(s, "unsupported-claim") \cup lacking
  <2>1. DOMAIN severity \subseteq Claims \cup Requests \cup Outdated
    BY <1>3
  <2>2. /\ Passes(s, "outdated") /\ scan[s].at = "unsupported" /\ HistoryStays(s) /\ Owned(s)'
        /\ \A k : k # "unsupported-claim" => Found(s, k)' = Found(s, k)
        /\ Found(s, "unsupported-claim")' = Found(s, "unsupported-claim") \cup DOMAIN severity
    BY <1>1, <1>2, <1>3, <2>1, Generates
  <2>. QED BY <1>3, <2>2
<1>5. scan'[s].at = "outdated" /\ scan'[s].scope = scan[s].scope
  BY <1>4 DEF Passes
<1>6. Grows
  BY <1>1, LedgerStill
<1>7. NothingEarly(s)' /\ Candidates(s)'
  BY <1>4, <1>5 DEF Sound, NothingEarly, Candidates
<1>8. SupportBracketed(s)'
  <2>1. Found(s, "unsupported-claim")' = {c \in LiveInScope(s) : EvidenceOf(c) = {}}
    BY <1>4 DEF Sound, NothingEarly, lacking
  <2>2. LiveInScope(s)' = LiveInScope(s) /\ \A c : EvidenceOf(c)' = EvidenceOf(c)
    BY <1>1, <1>5, ScopeStays DEF EvidenceOf, ledger
  <2>3. scan'[s].evidence \subseteq evidence
    BY <1>4 DEF HistoryStays, Sound, Remembers
  <2>4. \A c : EvidenceOf(c) = {} => ~\E e \in scan'[s].evidence : e.claim = c
    BY <2>3 DEF EvidenceOf
  <2>. QED BY <2>1, <2>2, <2>4 DEF SupportBracketed
<1>9. ConclusionBracketed(s)' /\ EndorsementBracketed(s)'
  BY <1>5, <1>6, ConclusionStays, EndorsementStays DEF Sound, Bracketed, Beyond
<1>. QED BY <1>4, <1>6, <1>7, <1>8, <1>9, MemoryStays DEF Sound, Bracketed

\* claims that are challenged,
LEMMA ContradictedSound ==
    ASSUME ScanTypeOK, NEW s \in Scans, Sound(s),
           Then(s, "contradicted", "duplicated", Contradicted(s))
    PROVE  Passes(s, "duplicated") /\ Sound(s)'
<1>. DEFINE disputed == {c \in LiveInScope(s) \ Synthesised : Challenged(c)}
            severity == [c \in disputed |-> ByApproval(c)]
<1>1. /\ UNCHANGED ledger
      /\ Then(s, "contradicted", "duplicated", Reported(s, "contradicted-conclusion", severity))
  BY DEF Then, Contradicted
<1>2. /\ scan \in [Scans -> Scan] /\ Owned(s) /\ "duplicated" \in Stage
      /\ "contradicted-conclusion" \in Kind
  BY DEF ScanTypeOK, Sound, Stage, Kind
<1>3. /\ DOMAIN severity = disputed /\ disputed \subseteq Claims
      /\ \A x \in DOMAIN severity : severity[x] \in {"low", "medium", "high"}
  BY <1>2, ScopeTypes, Severities
<1>. HIDE DEF severity
<1>4. /\ Passes(s, "duplicated") /\ scan[s].at = "contradicted" /\ HistoryStays(s) /\ Owned(s)'
      /\ \A k : k # "contradicted-conclusion" => Found(s, k)' = Found(s, k)
      /\ Found(s, "contradicted-conclusion")' =
           Found(s, "contradicted-conclusion") \cup disputed
  <2>1. DOMAIN severity \subseteq Claims \cup Requests \cup Outdated
    BY <1>3
  <2>2. /\ Passes(s, "duplicated") /\ scan[s].at = "contradicted" /\ HistoryStays(s) /\ Owned(s)'
        /\ \A k : k # "contradicted-conclusion" => Found(s, k)' = Found(s, k)
        /\ Found(s, "contradicted-conclusion")' =
             Found(s, "contradicted-conclusion") \cup DOMAIN severity
    BY <1>1, <1>2, <1>3, <2>1, Generates
  <2>. QED BY <1>3, <2>2
<1>5. scan'[s].at = "duplicated" /\ scan'[s].scope = scan[s].scope
  BY <1>4 DEF Passes
<1>6. Grows
  BY <1>1, LedgerStill
<1>7. NothingEarly(s)' /\ Candidates(s)'
  BY <1>4, <1>5 DEF Sound, NothingEarly, Candidates
<1>8. ConclusionBracketed(s)'
  <2>1. Found(s, "contradicted-conclusion")' = disputed
    BY <1>4 DEF Sound, NothingEarly
  <2>2. LiveInScope(s)' = LiveInScope(s) /\ \A c : Challenged(c)' <=> Challenged(c)
    BY <1>1, <1>5, ScopeStays DEF Challenged, EvidenceOf, ledger
  <2>3. scan'[s].evidence \subseteq evidence
    BY <1>4 DEF HistoryStays, Sound, Remembers
  <2>4. \A c : (\E e \in scan'[s].evidence : e.claim = c /\ e.relation = "challenges") => Challenged(c)
    BY <2>3 DEF Challenged, EvidenceOf
  <2>. QED BY <2>1, <2>2, <2>4 DEF ConclusionBracketed
<1>9. SupportBracketed(s)' /\ EndorsementBracketed(s)'
  BY <1>4, <1>5, <1>6, SupportStays, EndorsementStays DEF Sound, Bracketed, Beyond
<1>. QED BY <1>4, <1>6, <1>7, <1>8, <1>9, MemoryStays DEF Sound, Bracketed

\* and candidates that no person's review endorses.
LEMMA UnverifiedSound ==
    ASSUME ScanTypeOK, NEW s \in Scans, Sound(s),
           Then(s, "endorsements", "write", Unverified(s))
    PROVE  Passes(s, "write") /\ Sound(s)'
<1>. DEFINE doubted  == (scan[s].candidates \ Endorsed) \ Retired
            severity == [c \in doubted |-> "medium"]
<1>1. /\ UNCHANGED ledger
      /\ Then(s, "endorsements", "write", Reported(s, "unverified-claim", severity))
  BY DEF Then, Unverified
<1>2. scan \in [Scans -> Scan] /\ Owned(s) /\ "write" \in Stage /\ "unverified-claim" \in Kind
  BY DEF ScanTypeOK, Sound, Stage, Kind
<1>3. /\ DOMAIN severity = doubted /\ doubted \subseteq Claims
      /\ \A x \in DOMAIN severity : severity[x] \in {"low", "medium", "high"}
  BY <1>2 DEF Scan
<1>. HIDE DEF severity
<1>4. /\ Passes(s, "write") /\ scan[s].at = "endorsements" /\ HistoryStays(s) /\ Owned(s)'
      /\ \A k : k # "unverified-claim" => Found(s, k)' = Found(s, k)
      /\ Found(s, "unverified-claim")' =
           Found(s, "unverified-claim") \cup doubted
  <2>1. DOMAIN severity \subseteq Claims \cup Requests \cup Outdated
    BY <1>3
  <2>2. /\ Passes(s, "write") /\ scan[s].at = "endorsements" /\ HistoryStays(s) /\ Owned(s)'
        /\ \A k : k # "unverified-claim" => Found(s, k)' = Found(s, k)
        /\ Found(s, "unverified-claim")' =
             Found(s, "unverified-claim") \cup DOMAIN severity
    BY <1>1, <1>2, <1>3, <2>1, Generates
  <2>. QED BY <1>3, <2>2
<1>5. scan'[s].at = "write" /\ scan'[s].scope = scan[s].scope
  BY <1>4 DEF Passes
<1>6. Grows
  BY <1>1, LedgerStill
<1>7. NothingEarly(s)' /\ Candidates(s)'
  BY <1>4, <1>5 DEF Sound, NothingEarly, Candidates
<1>8. EndorsementBracketed(s)'
  <2>. DEFINE Withdrawn(c) == \E q \in ReviewsOf(c) : review[q].withdrawn
              Human(c) == \E q \in ReviewsOf(c) : review[q].verdict = "endorses" /\ ~review[q].ai
  <2>1. Found(s, "unverified-claim")' = doubted
    BY <1>4 DEF Sound, NothingEarly
  <2>2. LiveInScope(s)' = LiveInScope(s)
    BY <1>5, ScopeStays
  <2>3. \A c : (Withdrawn(c) => Withdrawn(c)') /\ (Human(c) => Human(c)')
    BY <1>6, ClaimsKeep
  <2>4. \A c \in scan'[s].endorsed : c \in Endorsed \/ Withdrawn(c)
    BY <1>4 DEF HistoryStays, Sound, Remembers
  <2>5. scan[s].candidates = InScope(s) \cap Old \cap ByAgent
    BY <1>4 DEF Sound, Candidates
  <2>6. \A c \in LiveInScope(s) : c \in Old \cap ByAgent /\ c \notin doubted => c \in Endorsed
    BY <2>5 DEF LiveInScope
  <2>7. \A c \in Endorsed : Human(c)
    BY DEF Endorsed
  <2>. HIDE DEF Withdrawn, Human
  <2>8. ASSUME NEW c \in LiveInScope(s), c \in Old \cap ByAgent
        PROVE  /\ (c \in doubted /\ c \in scan'[s].endorsed) => Withdrawn(c)'
               /\ c \notin doubted => Human(c)'
    BY <2>3, <2>4, <2>6, <2>7, <2>8
  <2>. QED BY <2>1, <2>2, <2>8 DEF EndorsementBracketed, Withdrawn, Human
<1>9. SupportBracketed(s)' /\ ConclusionBracketed(s)'
  BY <1>4, <1>5, <1>6, SupportStays, ConclusionStays DEF Sound, Bracketed, Beyond
<1>. QED BY <1>4, <1>6, <1>7, <1>8, <1>9, MemoryStays DEF Sound, Bracketed

\* The other generators find nothing of these kinds.
LEMMA OthersSound ==
    ASSUME ScanTypeOK, NEW s \in Scans, Sound(s), NEW from, NEW to, NEW severity, NEW kind \in Kind,
           kind \notin {"unsupported-claim", "contradicted-conclusion", "unverified-claim"},
           \/ from = "outdated" /\ to = "ai-block"
           \/ from = "ai-block" /\ to = "contradicted"
           \/ from = "duplicated" /\ to = "broken"
           \/ from = "broken" /\ to = "unverified",
           DOMAIN severity \subseteq Claims \cup Requests \cup Outdated,
           \A x \in DOMAIN severity : severity[x] \in {"low", "medium", "high"},
           Then(s, from, to, Reported(s, kind, severity))
    PROVE  Passes(s, to) /\ Sound(s)'
<1>1. scan \in [Scans -> Scan] /\ Owned(s) /\ to \in Stage
  BY DEF ScanTypeOK, Sound, Stage
<1>2. /\ Passes(s, to) /\ scan[s].at = from /\ HistoryStays(s) /\ Owned(s)'
      /\ \A k : k # kind => Found(s, k)' = Found(s, k)
  BY <1>1, Generates
<1>3. scan'[s].at = to /\ scan'[s].scope = scan[s].scope
  BY <1>2 DEF Passes
<1>4. Grows
  BY LedgerStill DEF Then
<1>5. NothingEarly(s)' /\ Candidates(s)'
  BY <1>2, <1>3 DEF Sound, NothingEarly, Candidates
<1>6. Bracketed(s)'
  <2>1. /\ Beyond(s, "unsupported-claim") /\ HistoryStays(s)
        /\ Found(s, "unsupported-claim")' = Found(s, "unsupported-claim")
    BY <1>2 DEF Beyond
  <2>2. Beyond(s, "contradicted-conclusion")' =>
          /\ Beyond(s, "contradicted-conclusion") /\ HistoryStays(s)
          /\ Found(s, "contradicted-conclusion")' = Found(s, "contradicted-conclusion")
    BY <1>2, <1>3 DEF Beyond
  <2>3. ~Beyond(s, "unverified-claim")'
    BY <1>3 DEF Beyond
  <2>. QED BY <1>3, <1>4, <2>1, <2>2, <2>3, SupportStays, ConclusionStays, EndorsementStays
           DEF Sound, Bracketed
<1>. QED BY <1>2, <1>4, <1>5, <1>6, MemoryStays DEF Sound

-----------------------------------------------------------------------------
(* The steps of a scan.                                                    *)

\* A step of a scan leaves it sound, and what it writes is of its own.
LEMMA ScanGoesOn ==
    ASSUME LedgerTypeOK, ScanTypeOK, NEW s \in Scans, Sound(s), ScanStep(s)
    PROVE  /\ \E to \in Stage : Passes(s, to) /\ (finding' # finding => to = "written")
           /\ scan[s].at # "written" /\ Sound(s)'
<1>0. scan \in [Scans -> Scan] /\ evidence \in SUBSET Evidence /\ CitationsOf(s) \subseteq Requests
  BY DEF ScanTypeOK, LedgerTypeOK, CitationsOf
<1>. DEFINE Goal == /\ \E to \in Stage : Passes(s, to) /\ (finding' # finding => to = "written")
                    /\ scan[s].at # "written" /\ Sound(s)'
<1>. SUFFICES Goal
     OBVIOUS
<1>1. ASSUME NEW from, NEW to \in Stage, NEW more, Then(s, from, to, more), from # "written",
             Passes(s, to) /\ Sound(s)'
      PROVE  Goal
  BY <1>1 DEF Then
<1>2. CASE Begin(s)
  <2>1. /\ Passes(s, "unsupported") /\ scan[s].at = "begin"
        /\ scan'[s].found = scan[s].found /\ scan'[s].candidates = scan[s].candidates
        /\ scan'[s].evidence = evidence /\ scan'[s].endorsed = Endorsed
    BY <1>0, <1>2, Begins
  <2>2. scan'[s].at = "unsupported" /\ scan'[s].scope = scan[s].scope
    BY <2>1 DEF Passes
  <2>3. UNCHANGED ledger /\ finding' = finding /\ "unsupported" \in Stage
    BY <1>2 DEF Begin, Stage
  <2>4. Grows
    BY <2>3, LedgerStill
  <2>5. Owned(s)' /\ \A k : Found(s, k)' = Found(s, k)
    BY <2>1, FoundStays DEF Sound
  <2>6. NothingEarly(s)' /\ Candidates(s)'
    BY <2>1, <2>2, <2>5 DEF Sound, NothingEarly, Candidates
  <2>7. Remembers(s)'
    <3>1. Endorsed' = Endorsed /\ evidence' = evidence
      BY <2>3 DEF Endorsed, ReviewsOf, ledger
    <3>. QED BY <2>1, <3>1 DEF Remembers
  <2>8. Bracketed(s)'
    BY <2>2, <2>4, SupportStays, ConclusionStays, EndorsementStays DEF Sound, Bracketed, Beyond
  <2>. QED BY <2>1, <2>3, <2>5, <2>6, <2>7, <2>8 DEF Sound
<1>3. CASE Then(s, "unsupported", "outdated", Unsupported(s))
  BY <1>1, <1>3, UnsupportedSound DEF Stage
<1>4. CASE Then(s, "contradicted", "duplicated", Contradicted(s))
  BY <1>1, <1>4, ContradictedSound DEF Stage
<1>5. CASE Then(s, "endorsements", "write", Unverified(s))
  BY <1>1, <1>5, UnverifiedSound DEF Stage
<1>6. CASE Then(s, "outdated", "ai-block", OutdatedSources(s))
  <2>. DEFINE severity == [x \in {x \in Outdated : Wide(s) => ImportedBy[x] = Vault(s)} |-> "low"]
  <2>1. Then(s, "outdated", "ai-block", Reported(s, "outdated-source", severity))
    BY <1>6 DEF OutdatedSources
  <2>2. /\ DOMAIN severity \subseteq Claims \cup Requests \cup Outdated
        /\ \A x \in DOMAIN severity : severity[x] \in {"low", "medium", "high"}
        /\ "outdated-source" \in Kind /\ "ai-block" \in Stage
    BY DEF Kind, Stage
  <2>. HIDE DEF severity
  <2>3. Passes(s, "ai-block") /\ Sound(s)'
    BY <2>1, <2>2, OthersSound
  <2>. QED BY <1>1, <1>6, <2>2, <2>3
<1>7. CASE Then(s, "ai-block", "contradicted", AiBlocks(s))
  <2>. DEFINE severity == [c \in InScope(s) \cap Suggested \cap Old |-> "medium"]
  <2>1. Then(s, "ai-block", "contradicted", Reported(s, "unverified-ai-block", severity))
    BY <1>7 DEF AiBlocks
  <2>2. /\ DOMAIN severity \subseteq Claims \cup Requests \cup Outdated
        /\ \A x \in DOMAIN severity : severity[x] \in {"low", "medium", "high"}
        /\ "unverified-ai-block" \in Kind /\ "contradicted" \in Stage
    BY <1>0, ScopeTypes DEF Kind, Stage
  <2>. HIDE DEF severity
  <2>3. Passes(s, "contradicted") /\ Sound(s)'
    BY <2>1, <2>2, OthersSound
  <2>. QED BY <1>1, <1>7, <2>2, <2>3
<1>8. CASE Then(s, "duplicated", "broken", Duplicated(s))
  <2>. DEFINE twins    == {c \in LiveInScope(s) : \E d \in LiveInScope(s) \ {c} : Text[d] = Text[c]}
              severity == [c \in twins |-> IF c \in Approved THEN "medium" ELSE "low"]
  <2>1. Then(s, "duplicated", "broken", Reported(s, "duplicated-claim", severity))
    BY <1>8 DEF Duplicated
  <2>2. /\ DOMAIN severity \subseteq Claims \cup Requests \cup Outdated
        /\ \A x \in DOMAIN severity : severity[x] \in {"low", "medium", "high"}
        /\ "duplicated-claim" \in Kind /\ "broken" \in Stage
    BY <1>0, ScopeTypes DEF Kind, Stage
  <2>. HIDE DEF severity
  <2>3. Passes(s, "broken") /\ Sound(s)'
    BY <2>1, <2>2, OthersSound
  <2>. QED BY <1>1, <1>8, <2>2, <2>3
<1>9. CASE ScanCitations(s)
  <2>1. PICK unresolved \in SUBSET CitationsOf(s) :
           Then(s, "broken", "unverified", Broken(s, unresolved))
    BY <1>9 DEF ScanCitations
  <2>. DEFINE severity == [x \in unresolved |-> "high"]
  <2>2. Then(s, "broken", "unverified", Reported(s, "broken-citation", severity))
    BY <2>1 DEF Broken
  <2>3. /\ DOMAIN severity \subseteq Claims \cup Requests \cup Outdated
        /\ \A x \in DOMAIN severity : severity[x] \in {"low", "medium", "high"}
        /\ "broken-citation" \in Kind /\ "unverified" \in Stage
    BY <1>0, <2>1 DEF Kind, Stage
  <2>. HIDE DEF severity
  <2>4. Passes(s, "unverified") /\ Sound(s)'
    BY <2>2, <2>3, OthersSound
  <2>. QED BY <1>1, <2>1, <2>3, <2>4
<1>10. CASE ScanCandidates(s)
  <2>. DEFINE old == InScope(s) \cap Old \cap ByAgent
              to  == IF old = {} THEN "write" ELSE "endorsements"
  <2>1. /\ Passes(s, to) /\ HistoryStays(s) /\ scan[s].at = "unverified"
        /\ scan'[s].found = scan[s].found /\ scan'[s].candidates = old
    BY <1>0, <1>10, TakesCandidates
  <2>2. scan'[s].at = to /\ scan'[s].scope = scan[s].scope /\ to \in Stage
    BY <2>1 DEF Passes, Stage
  <2>3. UNCHANGED ledger /\ finding' = finding
    BY <1>10 DEF ScanCandidates
  <2>4. Grows
    BY <2>3, LedgerStill
  <2>5. Owned(s)' /\ \A k : Found(s, k)' = Found(s, k)
    BY <2>1, FoundStays DEF Sound
  <2>6. NothingEarly(s)'
    BY <2>1, <2>2, <2>5 DEF Sound, NothingEarly
  <2>7. Candidates(s)'
    BY <2>1, <2>2, ScopeStays DEF Candidates
  <2>8. SupportBracketed(s)' /\ ConclusionBracketed(s)'
    <3>1. Beyond(s, "unsupported-claim") /\ Beyond(s, "contradicted-conclusion")
      BY <2>1 DEF Beyond
    <3>. QED BY <2>1, <2>2, <2>4, <2>5, <3>1, SupportStays, ConclusionStays DEF Sound, Bracketed
  <2>9. EndorsementBracketed(s)'
    <3>1. LiveInScope(s)' \subseteq InScope(s)
      BY <2>2, ScopeStays DEF LiveInScope
    <3>2. Beyond(s, "unverified-claim")' => old = {}
      BY <2>2 DEF Beyond
    <3>. QED BY <3>1, <3>2 DEF EndorsementBracketed
  <2>10. Remembers(s)'
    BY <2>1, <2>4, MemoryStays DEF Sound
  <2>. HIDE DEF to
  <2>. QED BY <2>1, <2>2, <2>3, <2>5, <2>6, <2>7, <2>8, <2>9, <2>10 DEF Sound, Bracketed
<1>11. ASSUME NEW to \in {"written", "failed"}, scan' = [scan EXCEPT ![s].at = to],
              to = "written" => scan[s].at = "write", to = "failed" => finding' = finding,
              scan[s].at # "written", UNCHANGED ledger
       PROVE  Goal
  <2>1. to \in Stage
    BY DEF Stage
  <2>2. /\ Passes(s, to) /\ HistoryStays(s) /\ scan'[s].found = scan[s].found
        /\ scan'[s].candidates = scan[s].candidates
    BY <1>0, <1>11, <2>1, MovesOn
  <2>3. scan'[s].at = to /\ scan'[s].scope = scan[s].scope
    BY <2>2 DEF Passes
  <2>4. Grows
    BY <1>11, LedgerStill
  <2>5. Owned(s)' /\ \A k : Found(s, k)' = Found(s, k)
    BY <2>2, FoundStays DEF Sound
  <2>6. NothingEarly(s)' /\ Candidates(s)'
    BY <2>3 DEF NothingEarly, Candidates
  <2>7. Bracketed(s)'
    <3>1. \A k \in {"unsupported-claim", "contradicted-conclusion", "unverified-claim"} :
             Beyond(s, k)' => Beyond(s, k)
      BY <1>11, <2>3 DEF Beyond
    <3>. QED BY <2>2, <2>3, <2>4, <2>5, <3>1, SupportStays, ConclusionStays, EndorsementStays
             DEF Sound, Bracketed
  <2>8. Remembers(s)'
    BY <2>2, <2>4, MemoryStays DEF Sound
  <2>. QED BY <1>11, <2>1, <2>2, <2>5, <2>6, <2>7, <2>8 DEF Sound
<1>12. CASE Write(s)
  BY <1>11, <1>12 DEF Write, ledger
<1>13. CASE GiveUp(s)
  BY <1>11, <1>13 DEF GiveUp, ledger
<1>. HIDE DEF Goal
<1>. QED BY <1>2, <1>3, <1>4, <1>5, <1>6, <1>7, <1>8, <1>9, <1>10, <1>12, <1>13 DEF ScanStep

\* All findings' rows keep to the type, and were written.
LEMMA FindingsStay ==
    ASSUME LedgerTypeOK, ScanInv, NEW s \in Scans, ScanStep(s)
    PROVE  /\ DOMAIN finding' \in SUBSET Finding /\ \A f \in DOMAIN finding' : finding'[f] \in Status
           /\ click' = click /\ Written'
           /\ \A f \in DOMAIN finding : f \in DOMAIN finding' /\ finding'[f] = finding[f]
<1>1. PICK to \in Stage : Passes(s, to) /\ (finding' # finding => to = "written")
  BY ScanGoesOn DEF ScanInv
<1>2. scan[s].at # "written" /\ scan'[s].at = to /\ \A t \in Scans \ {s} : scan'[t] = scan[t]
  BY <1>1, ScanGoesOn DEF ScanInv, Passes
<1>3. \A f \in DOMAIN finding :
         /\ f \in Finding /\ finding[f] \in Status /\ f.scan \in Scans /\ f.scan # s
         /\ scan[f.scan].at = "written"
  BY <1>2 DEF ScanInv, ScanTypeOK, Written, Finding
<1>4. \A f \in DOMAIN finding : scan'[f.scan].at = "written"
  BY <1>2, <1>3
<1>5. click' = click
  BY DEF ScanStep, Begin, Then, ScanCitations, ScanCandidates, Write, GiveUp
<1>6. CASE finding' = finding
  BY <1>3, <1>4, <1>5, <1>6 DEF Written
<1>7. CASE finding' # finding
  <2>1. Write(s)
    BY <1>7 DEF ScanStep, Begin, Then, ScanCitations, ScanCandidates, GiveUp
  <2>2. /\ scan[s].found \subseteq Finding
        /\ \A f \in scan[s].found : f.scan = s /\ f \notin DOMAIN finding
    BY <1>3 DEF ScanInv, ScanTypeOK, Scan, Sound, Owned
  <2>3. /\ DOMAIN finding' = DOMAIN finding \cup scan[s].found
        /\ \A f \in scan[s].found : finding'[f] = "open"
        /\ \A f \in DOMAIN finding : finding'[f] = finding[f]
    BY <2>1, <2>2 DEF Write
  <2>4. "open" \in Status
    BY DEF Status
  <2>5. Written'
    BY <1>1, <1>2, <1>4, <1>7, <2>2, <2>3 DEF Written
  <2>. QED BY <1>3, <1>5, <2>2, <2>3, <2>4, <2>5
<1>. QED BY <1>6, <1>7

\* What a click does, to its own record and to the row it names.
LEMMA ClickGoesOn ==
    ASSUME ScanInv, NEW k \in Clicks, ClickStep(k)
    PROVE  /\ click' \in [Clicks -> Click] /\ Judging' /\ DOMAIN finding' = DOMAIN finding
           /\ \A f \in DOMAIN finding : finding'[f] \in Status
           /\ \A f \in DOMAIN finding : finding'[f] # finding[f] =>
                 click[k].pc = "update" /\ f \in click[k].row /\ finding'[f] = click[k].to
<1>1. /\ click \in [Clicks -> Click] /\ click[k] \in Click
      /\ \A f \in DOMAIN finding : f \in Finding /\ finding[f] \in Status
  BY DEF ScanInv, ScanTypeOK
<1>2. ASSUME NEW f \in DOMAIN finding, NEW to \in Status \ {"open"}, Read(k, f, to)
      PROVE  /\ click' \in [Clicks -> Click] /\ Judging' /\ finding' = finding
  <2>. DEFINE new == [pc |-> IF to \in Allowed(finding[f]) THEN "update" ELSE "409",
                      row |-> {f}, read |-> finding[f], to |-> to]
  <2>1. click' = [click EXCEPT ![k] = new] /\ finding' = finding
    BY <1>2 DEF Read
  <2>2. new \in Click /\ (new.pc = "update" => new.to \in Allowed(new.read))
    BY <1>1 DEF Click
  <2>. HIDE DEF new
  <2>3. click' \in [Clicks -> Click]
    BY <1>1, <2>1, <2>2
  <2>4. Judging'
    BY <1>1, <2>1, <2>2 DEF ScanInv, Judging
  <2>. QED BY <2>1, <2>3, <2>4
<1>3. ASSUME NEW pc \in {"200", "500"}, click' = [click EXCEPT ![k].pc = pc]
      PROVE  click' \in [Clicks -> Click] /\ Judging'
  <2>1. PICK new : /\ new = [click[k] EXCEPT !.pc = pc]
                   /\ click' = [click EXCEPT ![k] = new]
    BY <1>3, Zenon
  <2>2. pc \in {"idle", "update", "200", "409", "500"}
    BY <1>3
  <2>3. new \in Click /\ new.pc = pc
    BY <1>1, <2>1, <2>2, Zenon DEF Click
  <2>4. click' \in [Clicks -> Click]
    BY <1>1, <2>1, <2>3
  <2>5. Judging'
    BY <1>1, <1>3, <2>1, <2>3 DEF ScanInv, Judging
  <2>. QED BY <2>4, <2>5
<1>4. CASE Update(k)
  <2>1. /\ DOMAIN finding' = DOMAIN finding /\ click[k].pc = "update" /\ click[k].to \in Status
        /\ \A f \in DOMAIN finding :
              finding'[f] = IF f \in click[k].row THEN click[k].to ELSE finding[f]
    BY <1>1, <1>4 DEF Update, Click
  <2>2. click' \in [Clicks -> Click] /\ Judging'
    BY <1>3, <1>4 DEF Update
  <2>. QED BY <1>1, <2>1, <2>2
<1>5. CASE FailClick(k)
  <2>1. click' \in [Clicks -> Click] /\ Judging' /\ finding' = finding
    BY <1>3, <1>5 DEF FailClick
  <2>. QED BY <1>1, <2>1
<1>6. CASE \E f \in DOMAIN finding, to \in Status \ {"open"} : Read(k, f, to)
  BY <1>1, <1>2, <1>6
<1>. QED BY <1>4, <1>5, <1>6 DEF ClickStep

-----------------------------------------------------------------------------
(* The invariant.                                                          *)

Inv == LedgerInv /\ ScanInv

\* Nothing is found, nothing is written, and no click is on its way.
LEMMA Begin_Inv == Init => Inv
<1> SUFFICES ASSUME Init PROVE Inv
    OBVIOUS
<1>1. LedgerInv
  BY LedgerBegins DEF Init
<1>2. /\ DOMAIN finding = {} /\ finding = [f \in {} |-> "open"]
      /\ scan \in [Scans -> [at : {"begin"}, scope : Scopes, found : {{}},
                             candidates : {{}}, evidence : {{}}, endorsed : {{}}]]
  BY DEF Init
<1>3. \A s \in Scans : /\ scan[s] \in Scan /\ scan[s].at = "begin" /\ scan[s].found = {}
                       /\ scan[s].evidence = {} /\ scan[s].endorsed = {}
  <2>1. \A r \in [at : {"begin"}, scope : Scopes, found : {{}},
                  candidates : {{}}, evidence : {{}}, endorsed : {{}}] :
           /\ r \in Scan /\ r.at = "begin" /\ r.found = {} /\ r.evidence = {} /\ r.endorsed = {}
    BY DEF Scan, Stage
  <2>. QED BY <1>2, <2>1
<1>4. scan \in [Scans -> Scan]
  BY <1>2, <1>3
<1>5. click \in [Clicks -> Click] /\ \A k \in Clicks : click[k].pc = "idle"
  BY DEF Init, Click, Status
<1>6. ASSUME NEW s \in Scans PROVE Sound(s)
  <2>1. /\ scan[s].at = "begin" /\ scan[s].found = {}
        /\ scan[s].evidence = {} /\ scan[s].endorsed = {}
    BY <1>3
  <2>2. Owned(s) /\ \A k : Found(s, k) = {}
    BY <2>1 DEF Owned, Found
  <2>3. NothingEarly(s) /\ Candidates(s) /\ Remembers(s)
    BY <2>1, <2>2 DEF NothingEarly, Candidates, Remembers
  <2>4. Bracketed(s)
    BY <2>1 DEF Bracketed, SupportBracketed, ConclusionBracketed, EndorsementBracketed, Beyond
  <2>. QED BY <2>2, <2>3, <2>4 DEF Sound
<1>. QED BY <1>1, <1>2, <1>4, <1>5, <1>6 DEF Inv, ScanInv, ScanTypeOK, Written, Judging

\* And every step keeps it.
LEMMA Next_Inv == Inv /\ [Next]_vars => Inv'
<1> SUFFICES ASSUME Inv, [Next]_vars PROVE Inv'
    OBVIOUS
<1>0. LedgerInv /\ ScanInv /\ LedgerTypeOK /\ ScanTypeOK
  BY DEF Inv, LedgerInv, ScanInv
<1>1. ASSUME LedgerInv', Grows, scanVars' = scanVars PROVE Inv'
  <2>1. scan' = scan /\ finding' = finding /\ click' = click
    BY <1>1 DEF scanVars
  <2>2. \A s \in Scans : Sound(s)'
    BY <1>0, <1>1, <2>1, SoundStays DEF ScanInv
  <2>3. ScanTypeOK' /\ Written' /\ Judging'
    BY <1>0, <2>1 DEF ScanInv, ScanTypeOK, Written, Judging
  <2>. QED BY <1>1, <2>2, <2>3 DEF Inv, ScanInv
<1>2. ASSUME UNCHANGED <<ledger, request>> PROVE LedgerInv' /\ Grows
  <2>1. /\ evidence' = evidence /\ citation' = citation /\ review' = review
        /\ provenance' = provenance /\ request' = request
    BY <1>2 DEF ledger
  <2>2. LedgerTypeOK' /\ Underway' /\ SignaturesAreTheAuthors'
    BY <1>0, <2>1 DEF LedgerInv, LedgerTypeOK, Underway, SignaturesAreTheAuthors, At
  <2>. QED BY <1>2, <2>2, LedgerStill DEF LedgerInv
<1>3. ASSUME NEW q \in Requests, LedgerStep(q) /\ UNCHANGED scanVars PROVE Inv'
  BY <1>0, <1>1, <1>3, LedgerGoesOn
<1>4. ASSUME NEW s \in Scans, ScanStep(s) PROVE Inv'
  <2>1. LedgerInv' /\ Grows
    <3>1. UNCHANGED <<ledger, request>>
      BY <1>4 DEF ScanStep, Begin, Then, ScanCitations, ScanCandidates, Write, GiveUp
    <3>. QED BY <1>2, <3>1
  <2>2. PICK to \in Stage : Passes(s, to)
    BY <1>0, <1>4, ScanGoesOn DEF ScanInv
  <2>3. Sound(s)'
    BY <1>0, <1>4, ScanGoesOn DEF ScanInv
  <2>4. ASSUME NEW t \in Scans, t # s PROVE Sound(t)'
    <3>1. scan'[t] = scan[t] /\ Sound(t)
      BY <1>0, <2>2, <2>4 DEF Passes, ScanInv
    <3>. QED BY <2>1, <3>1, SoundStays
  <2>5. /\ DOMAIN finding' \in SUBSET Finding
        /\ \A f \in DOMAIN finding' : finding'[f] \in Status
        /\ click' = click /\ Written'
    BY <1>0, <1>4, FindingsStay
  <2>6. ScanTypeOK'
    BY <1>0, <2>2, <2>5 DEF Passes, ScanTypeOK
  <2>7. Judging'
    BY <1>0, <2>5 DEF ScanInv, Judging
  <2>. QED BY <2>1, <2>3, <2>4, <2>5, <2>6, <2>7 DEF Inv, ScanInv
<1>5. ASSUME NEW k \in Clicks, ClickStep(k) PROVE Inv'
  <2>1. UNCHANGED <<ledger, request>> /\ scan' = scan
    BY <1>5 DEF ClickStep, Read, Update, FailClick
  <2>2. LedgerInv' /\ Grows
    BY <1>2, <2>1
  <2>3. \A s \in Scans : Sound(s)'
    BY <1>0, <2>1, <2>2, SoundStays DEF ScanInv
  <2>4. /\ click' \in [Clicks -> Click] /\ Judging' /\ DOMAIN finding' = DOMAIN finding
        /\ \A f \in DOMAIN finding : finding'[f] \in Status
    BY <1>0, <1>5, ClickGoesOn
  <2>5. ScanTypeOK' /\ Written'
    BY <1>0, <2>1, <2>4 DEF ScanInv, ScanTypeOK, Written
  <2>. QED BY <2>2, <2>3, <2>4, <2>5 DEF Inv, ScanInv
<1>6. CASE UNCHANGED vars
  BY <1>1, <1>2, <1>6 DEF vars
<1>. QED BY <1>3, <1>4, <1>5, <1>6 DEF Next

\* The ledger's rows, the requests, the scans, their findings and the clicks keep
\* to their types, whatever interleaves.
THEOREM TypesHold == Spec => [](LedgerTypeOK /\ ScanTypeOK)
<1>1. Inv => LedgerTypeOK /\ ScanTypeOK
  BY DEF Inv, LedgerInv, ScanInv
<1>. QED BY <1>1, Begin_Inv, Next_Inv, PTL DEF Spec

\* A signature, and the iD that goes with it, is given by the author of a human
\* review, however many sign and withdraw it at once: the CHECK constraints of
\* migration 0014, which the routes keep with an UPDATE by id alone.
THEOREM SignaturesHold == Spec => []SignaturesAreTheAuthors
<1>1. Inv => SignaturesAreTheAuthors
  BY DEF Inv, LedgerInv
<1>. QED BY <1>1, Begin_Inv, Next_Inv, PTL DEF Spec

\* What a scan reports lies between the ledger it began with and the ledger as it
\* is: scanForFindings takes no snapshot, and people go on meanwhile.
THEOREM BracketsHold == Spec => []ScanIsBracketed
<1>1. Inv => ScanIsBracketed
  BY DEF Inv, ScanInv, Sound, Bracketed, SupportBracketed, ConclusionBracketed,
         EndorsementBracketed, ScanIsBracketed
<1>. QED BY <1>1, Begin_Inv, Next_Inv, PTL DEF Spec

\* A closed finding gets another status only from a click that had read it before
\* it was closed, and no finding is opened again, neither by a click nor by the
\* INSERT of another scan.
THEOREM ClosedStaysClosed == Spec => ClosedButForStaleClicks
<1>1. ASSUME Inv, [Next]_vars
      PROVE  [\A f \in DOMAIN finding : finding'[f] # finding[f] =>
                /\ finding'[f] # "open"
                /\ \E k \in Clicks :
                      /\ click[k].pc = "update" /\ f \in click[k].row
                      /\ finding'[f] = click[k].to
                      /\ click[k].read \notin {"resolved", "dismissed"}]_finding
  <2>. SUFFICES ASSUME NEW f \in DOMAIN finding, finding'[f] # finding[f]
                PROVE  /\ finding'[f] # "open"
                       /\ \E k \in Clicks :
                            /\ click[k].pc = "update" /\ f \in click[k].row
                            /\ finding'[f] = click[k].to
                            /\ click[k].read \notin {"resolved", "dismissed"}
       OBVIOUS
  <2>0. LedgerTypeOK /\ ScanInv
    BY <1>1 DEF Inv, LedgerInv
  <2>1. ASSUME NEW s \in Scans, ScanStep(s) PROVE FALSE
    BY <2>0, <2>1, FindingsStay
  <2>2. ASSUME NEW k \in Clicks, ClickStep(k)
        PROVE  /\ finding'[f] # "open"
               /\ click[k].pc = "update" /\ f \in click[k].row /\ finding'[f] = click[k].to
               /\ click[k].read \notin {"resolved", "dismissed"}
    <3>1. click[k].pc = "update" /\ f \in click[k].row /\ finding'[f] = click[k].to
      BY <2>0, <2>2, ClickGoesOn
    <3>2. click[k].to \in Allowed(click[k].read) /\ click[k].read \in Status
      BY <2>0, <3>1 DEF ScanInv, ScanTypeOK, Judging, Click
    <3>3. click[k].to # "open" /\ click[k].read \notin {"resolved", "dismissed"}
      BY <3>2 DEF Allowed, Status
    <3>. QED BY <3>1, <3>3
  <2>. QED BY <1>1, <2>1, <2>2 DEF Next, vars, scanVars
<1>. QED BY <1>1, Begin_Inv, Next_Inv, PTL DEF Spec, ClosedButForStaleClicks

=============================================================================
