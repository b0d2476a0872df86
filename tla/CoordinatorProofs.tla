--------------------------- MODULE CoordinatorProofs ---------------------------
(***************************************************************************)
(* What holds of revisions under review, and of agents' runs and of the    *)
(* coordinator that brings them about, for any servers, tools, lists,      *)
(* proposals, requests and bounds.                                         *)
(*                                                                         *)
(* Reviews come first: what the three transactions keep true of revisions, *)
(* chains and contributions.  Only Commit changes what others see.  That   *)
(* it appends to the chain as it is, and not to one read before, is the    *)
(* row lock's doing (Holding).                                             *)
(*                                                                         *)
(* Every step of the whole is one of RevisionApproval or leaves it alone,  *)
(* because what is saved is always new (Proposing), so all that is proved  *)
(* of reviews by themselves holds with agents and coordinator beside them. *)
(***************************************************************************)
EXTENDS Coordinator, TLAPS, SequenceTheorems, WellFoundedInduction

-----------------------------------------------------------------------------
(* Reviews.                                                                *)
\* Revisions come to be with their chain; a request's own by its commit.
Born ==
    /\ \A r \in Revisions :
          /\ r \notin Existing => chain[r] = << >>
          /\ r \in Existing => Len(chain[r]) >= Birth(r) /\ revision[r].created < now
    /\ \A q \in Requests :
          /\ q \in Existing <=> tx[q].pc = "200" /\ tx[q].kind = "modify"
          /\ q \in Existing => chain[q][1] = EntryOf(q) /\ revision[q].created = tx[q].began
          /\ tx[q].pc # "idle" => tx[q].rev \in Existing /\ tx[q].rev # q

\* What a transaction that was not refused found.
Informed(q) ==
    /\ revision[tx[q].rev].created < tx[q].began /\ tx[q].began < now
    /\ Birth(tx[q].rev) <= tx[q].saw /\ tx[q].saw <= Len(chain[tx[q].rev])
    /\ tx[q].kind = "modify" => tx[q].saw = Birth(tx[q].rev)
    /\ tx[q].kind = "reject" => \/ tx[q].saw = Birth(tx[q].rev)
                                \/ chain[tx[q].rev][tx[q].saw].decision = "modify"

Begun == \A q \in Requests : tx[q].pc \in {"update", "chain", "commit", "200"} => Informed(q)

\* Who has updated a revision's row holds it, and the chain it read is the chain.
Holding ==
    /\ \A q \in Requests, r \in Revisions :
          lock[r] = q <=> tx[q].pc \in {"chain", "commit"} /\ tx[q].rev = r
    /\ \A q \in Requests : tx[q].pc = "commit" => tx[q].mine = chain[tx[q].rev]

Made == contributions = {q \in Requests : tx[q].pc = "200" /\ tx[q].kind = "accept"}

IInv == TypeOK /\ Born /\ Begun /\ Holding /\ Made
        /\ ChainIsWhole /\ StatusFollowsChain /\ OverturnedOnlyByRace

-----------------------------------------------------------------------------
(* The initial state, and the steps that change only requests.             *)

\* No revisions, no requests.
LEMMA InitIInv == Init => IInv
<1> SUFFICES ASSUME Init PROVE IInv
  OBVIOUS
<1>1. /\ \A r \in Revisions : revision[r].status = "absent" /\ chain[r] = << >> /\ lock[r] = NoRequest
      /\ \A q \in Requests : tx[q].pc = "idle"
      /\ Existing = {} /\ contributions = {}
  BY SMT DEF Init, Existing
<1>2. TypeOK
  <2>1. [status |-> "absent", contribution |-> NoRequest, created |-> 0] \in Revision
    BY SMT DEF Revision, Status
  <2>2. [pc |-> "idle", kind |-> "accept", rev |-> NoRevision,
         began |-> 0, mine |-> << >>, saw |-> 0] \in Transaction
    BY SMT DEF Transaction, Decision, Entry
  <2>3. << >> \in Seq(Entry)
    BY SMT
  <2> QED BY <2>1, <2>2, <2>3, ConstantsOK, SMT DEF TypeOK, Init
<1>3. Born
  BY <1>1, SMT DEF Born, Existing, Revisions
<1>4. Begun /\ Made
  BY <1>1, SMT DEF Begun, Made
<1>5. Holding
  BY <1>1, ConstantsOK, SMT DEF Holding
<1>6. ChainIsWhole /\ StatusFollowsChain /\ OverturnedOnlyByRace
  BY <1>1 DEF ChainIsWhole, StatusFollowsChain, OverturnedOnlyByRace
<1> QED BY <1>2, <1>3, <1>4, <1>5, <1>6 DEF IInv

\* A row, a chain and a request have their fields' types.
LEMMA Types ==
    ASSUME TypeOK
    PROVE  /\ \A r \in Revisions : /\ revision[r] \in Revision /\ revision[r].status \in Status
                                   /\ revision[r].created \in Nat
                                   /\ chain[r] \in Seq(Entry) /\ Len(chain[r]) \in Nat
                                   /\ DOMAIN chain[r] = 1 .. Len(chain[r])
                                   /\ \A i \in DOMAIN chain[r] : chain[r][i] \in Entry
           /\ \A q \in Requests : /\ tx[q] \in Transaction /\ q \in Revisions
                                  /\ tx[q].kind \in Decision /\ EntryOf(q) \in Entry
                                  /\ tx[q].saw \in Nat /\ tx[q].began \in Nat
                                  /\ tx[q].rev \in Revisions \cup {NoRevision}
           /\ \A r \in Revisions : Birth(r) \in {0, 1}
<1>1. \A r \in Revisions : /\ revision[r] \in Revision /\ chain[r] \in Seq(Entry)
  BY DEF TypeOK
<1>2. \A q \in Requests : tx[q] \in Transaction /\ q \in Revisions
  BY DEF TypeOK, Revisions
<1>3. \A r \in Revisions : revision[r].status \in Status /\ revision[r].created \in Nat
  BY <1>1, SMT DEF Revision
<1>4. \A r \in Revisions : /\ Len(chain[r]) \in Nat /\ DOMAIN chain[r] = 1 .. Len(chain[r])
                           /\ \A i \in DOMAIN chain[r] : chain[r][i] \in Entry
  BY <1>1, SMT
<1>5. \A q \in Requests : /\ tx[q].kind \in Decision /\ EntryOf(q) \in Entry
                          /\ tx[q].saw \in Nat /\ tx[q].began \in Nat
                          /\ tx[q].rev \in Revisions \cup {NoRevision}
  BY <1>2, SMT DEF Transaction, EntryOf, Entry
<1> QED BY <1>1, <1>2, <1>3, <1>4, <1>5, SMT DEF Birth

\* A request that moves, but neither arrives at 200 nor leaves it, leaves what
\* others see as it was.
LEMMA RequestStep ==
    ASSUME IInv, NEW q \in Requests, TypeOK', Holding', now' >= now,
           UNCHANGED <<revision, chain, contributions>>,
           \A p \in Requests \ {q} : tx'[p] = tx[p],
           tx[q].pc # "200", tx'[q].pc \notin {"200", "idle"},
           tx'[q].rev \in Existing, tx'[q].rev # q,
           tx'[q].pc \in {"update", "chain", "commit"} => Informed(q)'
    PROVE  IInv'
<1> USE DEF IInv
<1>0. now \in Nat /\ now' \in Nat
  BY DEF TypeOK
<1>1. Existing' = Existing /\ Existing \subseteq Revisions
  BY DEF Existing
<1>2. \A r \in Revisions : Decisions(r)' = Decisions(r)
  BY DEF Decisions
<1>3. \A p \in Requests : tx'[p].pc = "200" <=> tx[p].pc = "200"
  OBVIOUS
<1>4. \A p \in Requests : tx'[p].pc = "200" => tx'[p] = tx[p] /\ EntryOf(p)' = EntryOf(p)
  BY DEF EntryOf
<1>5. Born'
  <2>1. \A r \in Revisions : /\ r \notin Existing => chain'[r] = << >>
                             /\ r \in Existing => Len(chain'[r]) >= Birth(r) /\ revision'[r].created < now'
    BY <1>0, Types, SMT DEF Born
  <2>2. \A p \in Requests : p \in Existing <=> tx'[p].pc = "200" /\ tx'[p].kind = "modify"
    BY <1>3, <1>4 DEF Born
  <2>3. \A p \in Requests : p \in Existing =>
           chain'[p][1] = EntryOf(p)' /\ revision'[p].created = tx'[p].began
    BY <1>4, <2>2 DEF Born
  <2>4. \A p \in Requests : tx'[p].pc # "idle" => tx'[p].rev \in Existing /\ tx'[p].rev # p
    BY DEF Born
  <2> QED BY <1>1, <2>1, <2>2, <2>3, <2>4 DEF Born
<1>6. Begun'
  <2> SUFFICES ASSUME NEW p \in Requests, p # q, tx[p].pc \in {"update", "chain", "commit", "200"}
               PROVE  Informed(p)'
    BY DEF Begun
  <2>1. Informed(p) /\ tx'[p] = tx[p] /\ tx[p].began \in Nat
    BY Types DEF Begun
  <2> QED BY <1>0, <2>1, SMT DEF Informed
<1>7. Made'
  BY <1>3, <1>4 DEF Made
<1>8. ChainIsWhole'
  <2>1. \A p \in Requests, r \in Revisions : Answered(p, r)' <=> Answered(p, r)
    BY <1>3, <1>4 DEF Answered
  <2>2. \A p \in Requests, r \in Revisions : Answered(p, r) => EntryOf(p)' = EntryOf(p)
    BY <1>3, <1>4 DEF Answered
  <2> QED BY <1>1, <1>2, <2>1, <2>2 DEF ChainIsWhole
<1>9. StatusFollowsChain'
  BY <1>1, <1>2 DEF StatusFollowsChain
<1>10. OverturnedOnlyByRace'
  <2> SUFFICES ASSUME NEW r \in Existing, NEW i \in Decisions(r)
               PROVE  tx'[chain[r][i].by].saw = tx[chain[r][i].by].saw
    BY <1>1, <1>2 DEF OverturnedOnlyByRace
  <2>1. PICK p \in Requests : Answered(p, r) /\ chain[r][i] = EntryOf(p)
    BY DEF ChainIsWhole
  <2>2. chain[r][i].by = p
    BY <2>1, SMT DEF EntryOf
  <2> QED BY <1>3, <1>4, <2>1, <2>2 DEF Answered
<1> QED BY <1>5, <1>6, <1>7, <1>8, <1>9, <1>10

\* The request's revision is there, and is not its own.
LEMMA RevFact ==
    ASSUME IInv, NEW q \in Requests, tx[q].pc # "idle"
    PROVE  tx[q].rev \in Existing /\ tx[q].rev \in Revisions /\ tx[q].rev # q
BY DEF IInv, Born, Existing

\* A request comes in: no transaction yet.
LEMMA ArriveStep ==
    ASSUME IInv, NEW q \in Requests, NEW d \in Decision, NEW r \in Revisions, Arrive(q, d, r)
    PROVE  IInv'
<1> USE DEF IInv
<1>1. r # q
  BY SMT DEF Born, Arrive
<1>2. [pc |-> "read", kind |-> d, rev |-> r, began |-> 0, mine |-> << >>, saw |-> 0] \in Transaction
  <2>1. << >> \in Seq(Entry)
    BY SMT
  <2> QED BY <2>1, SMT DEF Transaction
<1>3. /\ tx' \in [Requests -> Transaction] /\ tx'[q].pc = "read" /\ tx'[q].rev = r
      /\ \A p \in Requests \ {q} : tx'[p] = tx[p]
  BY <1>2, SMT DEF Arrive, TypeOK
<1>4. TypeOK'
  BY <1>3 DEF Arrive, TypeOK
<1>5. Holding'
  BY <1>3, SMT DEF Arrive, Holding
<1>6. now' >= now /\ r \in Existing /\ tx[q].pc = "idle"
  BY SMT DEF Arrive, TypeOK
<1> QED BY <1>1, <1>3, <1>4, <1>5, <1>6, RequestStep DEF Arrive

\* The revision is read: one that was decided is refused, except by accept.
LEMMA ReadStep == ASSUME IInv, NEW q \in Requests, Read(q) PROVE IInv'
<1> USE DEF IInv
<1> DEFINE r == tx[q].rev
           pc == IF Refuses(tx[q].kind, revision[r].status) THEN "409" ELSE "update"
<1>1. r \in Existing /\ r \in Revisions /\ r # q
  BY RevFact DEF Read
<1>2. now \in Nat /\ Len(chain[r]) \in Nat /\ << >> \in Seq(Entry)
  BY <1>1, Types, SMT DEF TypeOK
<1>3. pc \in {"read", "update", "chain", "commit", "200", "409"}
  OBVIOUS
<1>4. tx' = [tx EXCEPT ![q] = Tx(pc, q, now, << >>, Len(chain[r]))]
  BY DEF Read
<1> HIDE DEF pc
<1>5. /\ tx' \in [Requests -> Transaction]
      /\ tx'[q].pc = pc /\ tx'[q].kind = tx[q].kind /\ tx'[q].rev = r
      /\ tx'[q].began = now /\ tx'[q].saw = Len(chain[r])
      /\ \A p \in Requests \ {q} : tx'[p] = tx[p]
  <2>1. Tx(pc, q, now, << >>, Len(chain[r])) \in Transaction
    BY <1>2, <1>3, Types, SMT DEF Tx, Transaction
  <2>2. tx' = [tx EXCEPT ![q] = Tx(pc, q, now, << >>, Len(chain[r]))] /\ tx \in [Requests -> Transaction]
    BY <1>4 DEF TypeOK
  <2> QED BY <2>1, <2>2, SMT DEF Tx
<1>6. TypeOK'
  BY <1>2, <1>5, SMT DEF Read, TypeOK
<1>7. tx[q].pc = "read" /\ pc \in {"409", "update"}
  BY DEF Read, pc
<1>8. Holding'
  <2>1. UNCHANGED <<lock, chain>>
    BY DEF Read
  <2> QED BY <1>5, <1>7, <2>1, SMT DEF Holding
<1>9. ASSUME pc = "update" PROVE Informed(q)'
  <2>1. ~Refuses(tx[q].kind, revision[r].status)
    BY <1>9 DEF pc
  <2>2. revision[r].created < now /\ Birth(r) <= Len(chain[r]) /\ Birth(r) \in {0, 1}
    BY <1>1, <1>2, Types, SMT DEF Born
  <2>3. revision'[r].created < now /\ now < now'
    BY <1>2, <2>2, SMT DEF Read
  <2>4. Decisions(r) = {} => Len(chain[r]) = Birth(r)
    <3>1. SUFFICES ASSUME Len(chain[r]) # Birth(r) PROVE Len(chain[r]) \in Decisions(r)
      OBVIOUS
    <3>2. DOMAIN chain[r] = 1 .. Len(chain[r])
      BY <1>1, Types
    <3> QED BY <1>2, <2>2, <3>1, <3>2, SMT DEF Decisions
  <2>5. ASSUME tx[q].kind = "modify" PROVE Len(chain[r]) = Birth(r)
    <3>1. revision[r].status = "proposed"
      BY <2>1, <2>5 DEF Refuses
    <3>2. ASSUME Decisions(r) # {} PROVE FALSE
      <4>1. revision[r].status = Outcome(chain[r][Len(chain[r])].decision)
        BY <1>1, <3>2 DEF StatusFollowsChain
      <4>2. Len(chain[r]) \in DOMAIN chain[r]
        BY <1>1, <1>2, <3>2, Types, SMT DEF Decisions
      <4>3. chain[r][Len(chain[r])].decision \in Decision
        BY <1>1, <4>2, Types, SMT DEF Entry
      <4> QED BY <3>1, <4>1, <4>3, SMT DEF Outcome, Decision
    <3> QED BY <2>4, <3>2
  <2>6. ASSUME tx[q].kind = "reject"
        PROVE  Len(chain[r]) = Birth(r) \/ chain[r][Len(chain[r])].decision = "modify"
    <3>1. revision[r].status \notin {"accepted", "rejected"}
      BY <2>1, <2>6 DEF Refuses
    <3>2. CASE Decisions(r) # {}
      <4>1. revision[r].status = Outcome(chain[r][Len(chain[r])].decision)
        BY <1>1, <3>2 DEF StatusFollowsChain
      <4>2. Len(chain[r]) \in DOMAIN chain[r]
        BY <1>1, <1>2, <3>2, Types, SMT DEF Decisions
      <4>3. chain[r][Len(chain[r])].decision \in Decision
        BY <1>1, <4>2, Types, SMT DEF Entry
      <4> QED BY <3>1, <4>1, <4>3, SMT DEF Outcome, Decision
    <3> QED BY <2>4, <3>2
  <2>7. chain' = chain
    BY DEF Read
  <2> QED BY <1>2, <1>5, <2>2, <2>3, <2>5, <2>6, <2>7, SMT DEF Informed, Birth
<1>10. now' >= now /\ UNCHANGED <<revision, chain, contributions>>
  BY <1>2, SMT DEF Read
<1>11. tx[q].pc # "200" /\ tx'[q].pc \notin {"200", "idle"} /\ tx'[q].rev \in Existing /\ tx'[q].rev # q
  BY <1>1, <1>5, <1>7
<1>12. tx'[q].pc \in {"update", "chain", "commit"} => Informed(q)'
  BY <1>5, <1>7, <1>9
<1> QED BY <1>5, <1>6, <1>8, <1>10, <1>11, <1>12, RequestStep

\* A transaction goes on to its next statement: what it found stays so.
LEMMA GoOn ==
    ASSUME IInv, NEW q \in Requests, NEW mine \in Seq(Entry),
           NEW to \in {"chain", "commit", "409"}, tx[q].pc \in {"read", "update", "chain", "commit"},
           tx[q].pc = "read" => to = "409",
           tx' = [tx EXCEPT ![q] = Tx(to, q, tx[q].began, mine, tx[q].saw)],
           UNCHANGED <<revision, chain, contributions, now>>, TypeOK', Holding'
    PROVE  IInv'
<1> USE DEF IInv
<1>1. tx[q].rev \in Existing /\ tx[q].rev # q
  BY RevFact
<1>2. now \in Nat /\ tx[q].began \in Nat /\ tx[q].saw \in Nat
  BY Types DEF TypeOK
<1>3. /\ tx'[q].pc = to /\ tx'[q].kind = tx[q].kind /\ tx'[q].rev = tx[q].rev
      /\ tx'[q].began = tx[q].began /\ tx'[q].saw = tx[q].saw
      /\ \A p \in Requests \ {q} : tx'[p] = tx[p]
  <2>1. Tx(to, q, tx[q].began, mine, tx[q].saw) \in Transaction
    BY <1>2, Types, SMT DEF Tx, Transaction
  <2>2. tx' = [tx EXCEPT ![q] = Tx(to, q, tx[q].began, mine, tx[q].saw)] /\ tx \in [Requests -> Transaction]
    BY DEF TypeOK
  <2> QED BY <2>1, <2>2, SMT DEF Tx
<1>4. to # "409" => Informed(q)
  BY DEF Begun
<1>5. tx'[q].pc \in {"update", "chain", "commit"} => Informed(q)'
  BY <1>3, <1>4 DEF Informed, Birth
<1>6. now' >= now
  BY <1>2, SMT
<1>7. tx[q].pc # "200" /\ tx'[q].pc \notin {"200", "idle"} /\ tx'[q].rev \in Existing /\ tx'[q].rev # q
  BY <1>1, <1>3
<1> QED BY <1>3, <1>5, <1>6, <1>7, RequestStep

\* The row is free, and from now on held.
LEMMA UpdateStep == ASSUME IInv, NEW q \in Requests, Update(q) PROVE IInv'
<1> USE DEF IInv
<1>1. tx[q].rev \in Revisions
  BY RevFact DEF Update
<1>2. tx[q].began \in Nat /\ tx[q].saw \in Nat /\ << >> \in Seq(Entry)
  BY Types, SMT
<1>3. /\ tx' \in [Requests -> Transaction]
      /\ tx'[q].pc = "chain" /\ tx'[q].rev = tx[q].rev /\ \A p \in Requests \ {q} : tx'[p] = tx[p]
  <2>1. Tx("chain", q, tx[q].began, << >>, tx[q].saw) \in Transaction
    BY <1>2, Types, SMT DEF Tx, Transaction
  <2>2. tx' = [tx EXCEPT ![q] = Tx("chain", q, tx[q].began, << >>, tx[q].saw)] /\ tx \in [Requests -> Transaction]
    BY DEF TypeOK, Update
  <2> QED BY <2>1, <2>2, SMT DEF Tx
<1>4. lock' = [lock EXCEPT ![tx[q].rev] = q] /\ lock \in [Revisions -> Requests \cup {NoRequest}]
  BY DEF Update, TypeOK
<1>5. lock'[tx[q].rev] = q /\ \A r \in Revisions \ {tx[q].rev} : lock'[r] = lock[r]
  BY <1>1, <1>4
<1>6. TypeOK'
  BY <1>1, <1>3, <1>4, SMT DEF Update, TypeOK
<1>7. Holding'
  <2>1. ASSUME NEW p \in Requests, NEW r \in Revisions
        PROVE  lock'[r] = p <=> tx'[p].pc \in {"chain", "commit"} /\ tx'[p].rev = r
    <3>1. lock[r] = p <=> tx[p].pc \in {"chain", "commit"} /\ tx[p].rev = r
      BY DEF Holding
    <3>2. lock[tx[q].rev] = NoRequest /\ tx[q].pc = "update" /\ NoRequest # p /\ NoRequest # q
      BY ConstantsOK DEF Update
    <3>3. CASE p = q
      <4>1. CASE r = tx[q].rev
        BY <1>3, <1>5, <3>3, <4>1
      <4>2. CASE r # tx[q].rev
        BY <1>3, <1>5, <3>1, <3>2, <3>3, <4>2
      <4> QED BY <4>1, <4>2
    <3>4. CASE p # q
      <4>1. CASE r = tx[q].rev
        BY <1>3, <1>5, <3>1, <3>2, <3>4, <4>1
      <4>2. CASE r # tx[q].rev
        BY <1>3, <1>5, <3>1, <3>4, <4>2
      <4> QED BY <4>1, <4>2
    <3> QED BY <3>3, <3>4
  <2>2. \A p \in Requests : tx'[p].pc = "commit" => tx'[p].mine = chain'[tx'[p].rev]
    BY <1>3 DEF Holding, Update
  <2> QED BY <2>1, <2>2 DEF Holding
<1> QED BY <1>2, <1>6, <1>7, GoOn DEF Update

\* The chain is read with the row held.
LEMMA ReadChainStep == ASSUME IInv, NEW q \in Requests, ReadChain(q) PROVE IInv'
<1> USE DEF IInv
<1>1. tx[q].rev \in Revisions
  BY RevFact DEF ReadChain
<1>2. tx[q].began \in Nat /\ tx[q].saw \in Nat /\ chain[tx[q].rev] \in Seq(Entry)
  BY <1>1, Types
<1>3. /\ tx' \in [Requests -> Transaction] /\ tx'[q].mine = chain[tx[q].rev]
      /\ tx'[q].pc = "commit" /\ tx'[q].rev = tx[q].rev /\ \A p \in Requests \ {q} : tx'[p] = tx[p]
  <2>1. Tx("commit", q, tx[q].began, chain[tx[q].rev], tx[q].saw) \in Transaction
    BY <1>2, Types, SMT DEF Tx, Transaction
  <2>2. tx' = [tx EXCEPT ![q] = Tx("commit", q, tx[q].began, chain[tx[q].rev], tx[q].saw)] /\ tx \in [Requests -> Transaction]
    BY DEF TypeOK, ReadChain
  <2> QED BY <2>1, <2>2, SMT DEF Tx
<1>4. TypeOK'
  BY <1>3 DEF ReadChain, TypeOK
<1>5. Holding'
  BY <1>3 DEF Holding, ReadChain
<1> QED BY <1>2, <1>4, <1>5, GoOn DEF ReadChain

\* Whoever ends its transaction frees what it held.
LEMMA Freed ==
    ASSUME TypeOK, Holding, NEW q \in Requests, lock' = Free(q), tx'[q].pc \in {"200", "409"},
           \A p \in Requests \ {q} : tx'[p] = tx[p]
    PROVE  /\ lock' \in [Revisions -> Requests \cup {NoRequest}]
           /\ \A p \in Requests, r \in Revisions :
                 lock'[r] = p <=> tx'[p].pc \in {"chain", "commit"} /\ tx'[p].rev = r
<1>1. lock \in [Revisions -> Requests \cup {NoRequest}]
  BY DEF TypeOK
<1>2. /\ lock' \in [Revisions -> Requests \cup {NoRequest}]
      /\ \A r \in Revisions : lock'[r] = IF lock[r] = q THEN NoRequest ELSE lock[r]
  BY <1>1, SMT DEF Free
<1>3. ASSUME NEW p \in Requests, NEW r \in Revisions
      PROVE  lock'[r] = p <=> tx'[p].pc \in {"chain", "commit"} /\ tx'[p].rev = r
  <2>1. NoRequest # p
    BY ConstantsOK
  <2>2. lock[r] = p <=> tx[p].pc \in {"chain", "commit"} /\ tx[p].rev = r
    BY DEF Holding
  <2>3. CASE p = q
    BY <1>2, <2>1, <2>3
  <2>4. CASE p # q
    BY <1>2, <2>1, <2>2, <2>4
  <2> QED BY <2>3, <2>4
<1> QED BY <1>2, <1>3

\* A transaction that fails leaves no trace but the gap in the clock.
LEMMA FailStep == ASSUME IInv, NEW q \in Requests, Fail(q) PROVE IInv'
<1> USE DEF IInv
<1>1. tx[q].began \in Nat /\ tx[q].saw \in Nat /\ << >> \in Seq(Entry)
  BY Types, SMT
<1>2. /\ tx' \in [Requests -> Transaction]
      /\ tx'[q].pc = "409" /\ \A p \in Requests \ {q} : tx'[p] = tx[p]
  <2>1. Tx("409", q, tx[q].began, << >>, tx[q].saw) \in Transaction
    BY <1>1, Types, SMT DEF Tx, Transaction
  <2>2. tx' = [tx EXCEPT ![q] = Tx("409", q, tx[q].began, << >>, tx[q].saw)] /\ tx \in [Requests -> Transaction]
    BY DEF TypeOK, Fail
  <2> QED BY <2>1, <2>2, SMT DEF Tx
<1>3. /\ lock' \in [Revisions -> Requests \cup {NoRequest}]
      /\ \A p \in Requests, r \in Revisions :
            lock'[r] = p <=> tx'[p].pc \in {"chain", "commit"} /\ tx'[p].rev = r
  BY <1>2, Freed DEF Fail
<1>4. faults' \in 0 .. MaxFaults
  BY ConstantsOK, SMT DEF Fail, TypeOK
<1>5. TypeOK'
  BY <1>2, <1>3, <1>4 DEF Fail, TypeOK
<1>6. Holding'
  BY <1>2, <1>3 DEF Holding, Fail
<1> QED BY <1>1, <1>5, <1>6, GoOn DEF Fail

-----------------------------------------------------------------------------
(* The steps that others see.                                              *)

\* A batch of proposals, each without a decision.
LEMMA ProposeStep == ASSUME IInv, NEW B \in SUBSET Proposals, Propose(B) PROVE IInv'
<1> USE DEF IInv
<1>1. B \subseteq Revisions /\ B \cap Requests = {} /\ B \cap Existing = {}
  BY ConstantsOK DEF Revisions, Propose
<1>2. now \in Nat /\ now' = now + 1 /\ UNCHANGED <<chain, contributions, tx, lock, faults>>
  BY DEF Propose, TypeOK
<1>3. /\ revision' \in [Revisions -> Revision]
      /\ \A r \in Revisions \ B : revision'[r] = revision[r]
      /\ \A r \in B : revision'[r].status = "proposed" /\ revision'[r].created = now
                      /\ revision'[r].contribution = NoRequest
  <2>1. [status |-> "proposed", contribution |-> NoRequest, created |-> now] \in Revision
    BY <1>2, SMT DEF Revision, Status
  <2> QED BY <1>1, <2>1, SMT DEF Propose, TypeOK
<1>4. Existing' = Existing \cup B
  <2>1. \A r \in Revisions : revision'[r].status # "absent" <=> r \in B \/ revision[r].status # "absent"
    BY <1>3
  <2> QED BY <1>1, <2>1 DEF Existing
<1>5. \A r \in B : chain[r] = << >> /\ Birth(r) = 0 /\ Len(chain[r]) = 0 /\ Decisions(r) = {}
  <2> SUFFICES ASSUME NEW r \in B
               PROVE  chain[r] = << >> /\ Birth(r) = 0 /\ Len(chain[r]) = 0 /\ Decisions(r) = {}
    OBVIOUS
  <2>1. chain[r] = << >> /\ r \notin Requests
    BY <1>1 DEF Born
  <2> QED BY <2>1, SMT DEF Birth, Decisions
<1>6. \A q \in Requests : tx[q].pc # "idle" => tx[q].rev \in Revisions \ B /\ tx[q].rev \in Existing
  BY <1>1 DEF Born, Existing
<1>7. TypeOK'
  BY <1>2, <1>3, SMT DEF TypeOK
<1>8. Born'
  <2>1. ASSUME NEW r \in Revisions
        PROVE  /\ r \notin Existing' => chain'[r] = << >>
               /\ r \in Existing' => Len(chain'[r]) >= Birth(r) /\ revision'[r].created < now'
    <3>1. CASE r \in B
      BY <1>2, <1>3, <1>4, <1>5, <3>1, SMT
    <3>2. CASE r \notin B
      BY <1>2, <1>3, <1>4, <3>2, Types, SMT DEF Born
    <3> QED BY <3>1, <3>2
  <2>2. \A q \in Requests : q \in Existing' <=> q \in Existing
    BY <1>1, <1>4
  <2>3. \A q \in Requests : revision'[q] = revision[q] /\ EntryOf(q)' = EntryOf(q)
    BY <1>1, <1>2, <1>3 DEF EntryOf, Revisions
  <2> QED BY <1>2, <1>4, <2>1, <2>2, <2>3, SMT DEF Born, Birth
<1>9. Begun'
  <2> SUFFICES ASSUME NEW q \in Requests, tx[q].pc \in {"update", "chain", "commit", "200"}
               PROVE  Informed(q)'
    BY <1>2 DEF Begun
  <2>1. Informed(q) /\ revision'[tx[q].rev] = revision[tx[q].rev] /\ tx[q].began \in Nat
    BY <1>3, <1>6, Types DEF Begun
  <2> QED BY <1>2, <2>1, SMT DEF Informed, Birth
<1>10. Holding' /\ Made'
  BY <1>2 DEF Holding, Made
<1>11. \A r \in Revisions : Decisions(r)' = Decisions(r)
  BY <1>2 DEF Decisions, Birth
<1>12. ChainIsWhole'
  <2> SUFFICES ASSUME NEW r \in Existing \cup B
               PROVE  /\ \A i, j \in Decisions(r) : chain[r][i].by = chain[r][j].by => i = j
                      /\ \A q \in Requests : Answered(q, r) =>
                            \E i \in Decisions(r) : chain[r][i] = EntryOf(q)
                      /\ \A i \in Decisions(r) :
                            \E q \in Requests : Answered(q, r) /\ chain[r][i] = EntryOf(q)
    BY <1>1, <1>2, <1>4, <1>11 DEF ChainIsWhole, Existing, Answered, EntryOf
  <2>1. CASE r \in B
    BY <1>5, <1>6, <2>1 DEF Answered
  <2>2. CASE r \notin B
    BY <2>2 DEF ChainIsWhole
  <2> QED BY <2>1, <2>2
<1>13. StatusFollowsChain'
  <2> SUFFICES ASSUME NEW r \in Existing \cup B
               PROVE  /\ revision'[r].status = IF Decisions(r) = {} THEN "proposed"
                                               ELSE Outcome(chain[r][Len(chain[r])].decision)
                      /\ LET accepts == {i \in Decisions(r) : chain[r][i].decision = "accept"} IN
                         IF accepts = {} THEN revision'[r].contribution = NoRequest
                         ELSE \E i \in accepts : /\ \A j \in accepts : j <= i
                                                 /\ revision'[r].contribution = chain[r][i].by
    BY <1>1, <1>2, <1>4, <1>11 DEF StatusFollowsChain, Existing
  <2>1. CASE r \in B
    BY <1>3, <1>5, <2>1
  <2>2. CASE r \notin B
    <3>1. revision'[r] = revision[r] /\ r \in Existing
      BY <1>3, <2>2 DEF Existing
    <3> QED BY <3>1 DEF StatusFollowsChain
  <2> QED BY <2>1, <2>2
<1>14. OverturnedOnlyByRace'
  <2> SUFFICES ASSUME NEW r \in Existing \cup B, NEW i \in Decisions(r)
               PROVE  r \in Existing
    BY <1>1, <1>2, <1>4, <1>11 DEF OverturnedOnlyByRace, Existing, Birth
  <2> QED BY <1>5
<1> QED BY <1>7, <1>8, <1>9, <1>10, <1>12, <1>13, <1>14

\* What a commit does to the request, to the rows and to the chains: it appends
\* to the chain as it is, and a modification adds a revision nobody saw before.
LEMMA CommitTx ==
    ASSUME IInv, NEW q \in Requests, Commit(q)
    PROVE  /\ tx' \in [Requests -> Transaction]
           /\ tx[q].pc = "commit" /\ tx'[q].pc = "200"
           /\ tx'[q].kind = tx[q].kind /\ tx'[q].rev = tx[q].rev
           /\ tx'[q].began = tx[q].began /\ tx'[q].saw = tx[q].saw
           /\ \A p \in Requests \ {q} : tx'[p] = tx[p]
           /\ \A p \in Requests : EntryOf(p)' = EntryOf(p)
           /\ \A p \in Requests, r \in Revisions :
                 Answered(p, r)' <=> Answered(p, r) \/ (p = q /\ r = tx[q].rev)
<1> USE DEF IInv
<1>1. tx[q].began \in Nat /\ tx[q].saw \in Nat /\ tx[q].mine \in Seq(Entry) /\ tx[q].pc = "commit"
  BY Types, SMT DEF Transaction, Commit
<1>2. /\ tx' \in [Requests -> Transaction] /\ tx'[q].pc = "200"
      /\ tx'[q].kind = tx[q].kind /\ tx'[q].rev = tx[q].rev
      /\ tx'[q].began = tx[q].began /\ tx'[q].saw = tx[q].saw
      /\ \A p \in Requests \ {q} : tx'[p] = tx[p]
  <2>1. Tx("200", q, tx[q].began, tx[q].mine, tx[q].saw) \in Transaction
    BY <1>1, Types, SMT DEF Tx, Transaction
  <2>2. /\ tx' = [tx EXCEPT ![q] = Tx("200", q, tx[q].began, tx[q].mine, tx[q].saw)]
        /\ tx \in [Requests -> Transaction]
    BY DEF TypeOK, Commit
  <2> QED BY <2>1, <2>2, SMT DEF Tx
<1>3. \A p \in Requests : EntryOf(p)' = EntryOf(p)
  BY <1>2 DEF EntryOf
<1>4. \A p \in Requests, r \in Revisions :
         Answered(p, r)' <=> Answered(p, r) \/ (p = q /\ r = tx[q].rev)
  <2> SUFFICES ASSUME NEW p \in Requests, NEW r \in Revisions
               PROVE  tx'[p].pc = "200" /\ tx'[p].rev = r
                        <=> (tx[p].pc = "200" /\ tx[p].rev = r) \/ (p = q /\ r = tx[q].rev)
    BY DEF Answered
  <2>1. CASE p = q
    BY <1>1, <1>2, <2>1
  <2>2. CASE p # q
    BY <1>2, <2>2
  <2> QED BY <2>1, <2>2
<1> QED BY <1>1, <1>2, <1>3, <1>4

\* The rows: the decided revision's, and the counter-proposal's.
LEMMA CommitRows ==
    ASSUME IInv, NEW q \in Requests, Commit(q), NEW r, r = tx[q].rev
    PROVE  /\ r \in Existing /\ r \in Revisions /\ r # q /\ q \notin Existing
           /\ revision' \in [Revisions -> Revision] /\ chain' \in [Revisions -> Seq(Entry)]
           /\ revision'[r] = Decided(q) /\ revision'[r].status = Outcome(tx[q].kind)
           /\ revision'[r].created = revision[r].created
           /\ Existing' = Existing \cup {p \in {q} : tx[p].kind = "modify"}
           /\ tx[q].kind = "modify" => /\ revision'[q] = Counter(q) /\ chain'[q] = <<EntryOf(q)>>
                                       /\ revision'[q].created = tx[q].began
           /\ \A s \in Revisions : s # r /\ (s # q \/ tx[q].kind # "modify") =>
                 revision'[s] = revision[s] /\ chain'[s] = chain[s]
           /\ chain'[r] = Append(chain[r], EntryOf(q))
<1> USE DEF IInv
<1>1. r \in Existing /\ r \in Revisions /\ r # q /\ q \notin Existing /\ q \in Revisions
  BY RevFact DEF Commit, Born, Revisions
<1>2. tx[q].mine = chain[r] /\ EntryOf(q) \in Entry /\ tx[q].kind \in Decision
  BY Types DEF Holding, Commit
<1>3. Decided(q) \in Revision /\ Counter(q) \in Revision
  <2>1. revision[r] \in Revision /\ tx[q].began \in Nat
    BY <1>1, Types
  <2>2. revision[r].contribution \in Requests \cup {NoRequest} /\ revision[r].created \in Nat
    BY <2>1, SMT DEF Revision
  <2>3. Outcome(tx[q].kind) \in Status
    BY <1>2, SMT DEF Outcome, Status, Decision
  <2> QED BY <2>1, <2>2, <2>3, SMT DEF Decided, Counter, Revision, Status
<1>4. /\ chain[r] \in Seq(Entry) /\ Append(chain[r], EntryOf(q)) \in Seq(Entry)
      /\ <<EntryOf(q)>> \in Seq(Entry)
  BY <1>1, <1>2, Types, SMT
<1>5. /\ revision' \in [Revisions -> Revision]
      /\ revision'[r] = Decided(q)
      /\ tx[q].kind = "modify" => revision'[q] = Counter(q)
      /\ \A s \in Revisions : s # r /\ (s # q \/ tx[q].kind # "modify") => revision'[s] = revision[s]
  BY <1>1, <1>3 DEF Commit, TypeOK
<1>6. /\ chain' \in [Revisions -> Seq(Entry)]
      /\ chain'[r] = Append(chain[r], EntryOf(q))
      /\ tx[q].kind = "modify" => chain'[q] = <<EntryOf(q)>>
      /\ \A s \in Revisions : s # r /\ (s # q \/ tx[q].kind # "modify") => chain'[s] = chain[s]
  BY <1>1, <1>2, <1>4 DEF Commit, TypeOK
<1>7. /\ revision'[r].status = Outcome(tx[q].kind) /\ revision'[r].status # "absent"
      /\ revision'[r].created = revision[r].created
  BY <1>2, <1>5, SMT DEF Decided, Outcome, Decision
<1>8. tx[q].kind = "modify" => revision'[q].status = "proposed" /\ revision'[q].created = tx[q].began
  BY <1>5, SMT DEF Counter
<1>9. Existing' = Existing \cup {p \in {q} : tx[p].kind = "modify"}
  <2>1. ASSUME NEW s \in Revisions
        PROVE  s \in Existing' <=> s \in Existing \/ (s = q /\ tx[q].kind = "modify")
    <3>1. s \in Existing' <=> revision'[s].status # "absent"
      BY DEF Existing
    <3>2. CASE s = r
      BY <1>1, <1>7, <3>1, <3>2
    <3>3. CASE s = q /\ tx[q].kind = "modify"
      BY <1>8, <3>1, <3>3
    <3>4. CASE s # r /\ (s # q \/ tx[q].kind # "modify")
      BY <1>1, <1>5, <3>1, <3>4 DEF Existing
    <3> QED BY <1>1, <3>2, <3>3, <3>4
  <2>2. Existing' \subseteq Revisions /\ Existing \subseteq Revisions
    BY DEF Existing, Revisions
  <2> QED BY <1>1, <2>1, <2>2
<1> QED BY <1>1, <1>5, <1>6, <1>7, <1>8, <1>9

\* The chains: one entry more, and one decision more, on what was decided.
LEMMA CommitChains ==
    ASSUME IInv, NEW q \in Requests, Commit(q), NEW r, r = tx[q].rev, NEW n, n = Len(chain[r])
    PROVE  /\ n \in Nat /\ n >= Birth(r) /\ Len(chain'[r]) = n + 1
           /\ \A i \in DOMAIN chain[r] : i <= n /\ chain'[r][i] = chain[r][i]
           /\ chain'[r][n + 1] = EntryOf(q)
           /\ Decisions(r)' = Decisions(r) \cup {n + 1}
           /\ n + 1 \notin DOMAIN chain[r]
           /\ tx[q].kind = "modify" => /\ Decisions(q)' = {} /\ Len(chain'[q]) = 1
                                       /\ chain'[q][1] = EntryOf(q)
           /\ \A s \in Revisions : s # r /\ (s # q \/ tx[q].kind # "modify") =>
                 Decisions(s)' = Decisions(s)
<1> USE DEF IInv
<1>1. r \in Existing /\ r \in Revisions /\ chain'[r] = Append(chain[r], EntryOf(q))
  BY CommitRows
<1>2. chain[r] \in Seq(Entry) /\ EntryOf(q) \in Entry /\ Birth(r) \in {0, 1}
  BY <1>1, Types
<1>3. n \in Nat /\ n >= Birth(r) /\ DOMAIN chain[r] = 1 .. n
  BY <1>1, Types DEF Born
<1>4. /\ Len(chain'[r]) = n + 1 /\ DOMAIN chain'[r] = 1 .. n + 1
      /\ \A i \in 1 .. n : chain'[r][i] = chain[r][i]
      /\ chain'[r][n + 1] = EntryOf(q)
  BY <1>1, <1>2, <1>3, SMT
<1>5. Decisions(r)' = Decisions(r) \cup {n + 1}
  <2>1. \A i : i \in Decisions(r)' <=> i \in 1 .. n + 1 /\ i > Birth(r)
    BY <1>4 DEF Decisions, Birth
  <2>2. \A i : i \in Decisions(r) <=> i \in 1 .. n /\ i > Birth(r)
    BY <1>3 DEF Decisions
  <2> QED BY <1>2, <1>3, <2>1, <2>2, SMT
<1>6. ASSUME tx[q].kind = "modify"
      PROVE  Decisions(q)' = {} /\ Len(chain'[q]) = 1 /\ chain'[q][1] = EntryOf(q)
  <2>1. chain'[q] = <<EntryOf(q)>>
    BY <1>6, CommitRows
  <2>2. Len(chain'[q]) = 1 /\ DOMAIN chain'[q] = {1} /\ chain'[q][1] = EntryOf(q)
    BY <2>1, SMT
  <2>3. \A i : i \in Decisions(q)' <=> i \in DOMAIN chain'[q] /\ i > 1
    BY DEF Decisions, Birth
  <2> QED BY <2>2, <2>3, SMT
<1>7. \A s \in Revisions : s # r /\ (s # q \/ tx[q].kind # "modify") => Decisions(s)' = Decisions(s)
  <2>1. \A s \in Revisions : s # r /\ (s # q \/ tx[q].kind # "modify") => chain'[s] = chain[s]
    BY CommitRows
  <2> QED BY <2>1 DEF Decisions, Birth
<1>8. \A i \in DOMAIN chain[r] : i <= n /\ chain'[r][i] = chain[r][i]
  BY <1>3, <1>4, SMT
<1>9. n + 1 \notin DOMAIN chain[r]
  BY <1>3, SMT
<1>10. n \in Nat /\ n >= Birth(r) /\ Len(chain'[r]) = n + 1 /\ chain'[r][n + 1] = EntryOf(q)
  BY <1>3, <1>4
<1> QED BY <1>5, <1>6, <1>7, <1>8, <1>9, <1>10

\* A commit keeps every part of the invariant, for its revision and the length of
\* that revision's chain.
LEMMA CommitKeeps ==
    ASSUME IInv, NEW q \in Requests, Commit(q), NEW r, r = tx[q].rev, NEW n, n = Len(chain[r])
    PROVE  IInv'
<1> USE DEF IInv
<1>1. /\ tx' \in [Requests -> Transaction]
      /\ tx[q].pc = "commit" /\ tx'[q].pc = "200"
      /\ tx'[q].kind = tx[q].kind /\ tx'[q].rev = r
      /\ tx'[q].began = tx[q].began /\ tx'[q].saw = tx[q].saw
      /\ \A p \in Requests \ {q} : tx'[p] = tx[p]
      /\ \A p \in Requests : EntryOf(p)' = EntryOf(p)
      /\ \A p \in Requests, s \in Revisions : Answered(p, s)' <=> Answered(p, s) \/ (p = q /\ s = r)
  BY CommitTx
<1>2. /\ r \in Existing /\ r \in Revisions /\ r # q /\ q \notin Existing /\ q \in Revisions
      /\ revision' \in [Revisions -> Revision] /\ chain' \in [Revisions -> Seq(Entry)]
      /\ revision'[r] = Decided(q) /\ revision'[r].status = Outcome(tx[q].kind)
      /\ revision'[r].created = revision[r].created
      /\ Existing' = Existing \cup {p \in {q} : tx[p].kind = "modify"}
      /\ tx[q].kind = "modify" => revision'[q] = Counter(q) /\ revision'[q].created = tx[q].began
      /\ \A s \in Revisions : s # r /\ (s # q \/ tx[q].kind # "modify") =>
            revision'[s] = revision[s] /\ chain'[s] = chain[s]
  <2>1. q \in Revisions
    BY DEF Revisions
  <2>2. /\ r \in Existing /\ r \in Revisions /\ r # q /\ q \notin Existing
        /\ revision' \in [Revisions -> Revision] /\ chain' \in [Revisions -> Seq(Entry)]
        /\ revision'[r] = Decided(q) /\ revision'[r].status = Outcome(tx[q].kind)
        /\ revision'[r].created = revision[r].created
    BY CommitRows
  <2>3. /\ Existing' = Existing \cup {p \in {q} : tx[p].kind = "modify"}
        /\ tx[q].kind = "modify" => revision'[q] = Counter(q) /\ revision'[q].created = tx[q].began
    BY CommitRows
  <2>4. \A s \in Revisions : s # r /\ (s # q \/ tx[q].kind # "modify") =>
           revision'[s] = revision[s] /\ chain'[s] = chain[s]
    BY CommitRows
  <2> QED BY <2>1, <2>2, <2>3, <2>4
<1>0. r = tx[q].rev /\ n = Len(chain[r])
  OBVIOUS
<1>3. /\ n \in Nat /\ n >= Birth(r) /\ Len(chain'[r]) = n + 1
      /\ \A i \in DOMAIN chain[r] : i <= n /\ chain'[r][i] = chain[r][i]
      /\ chain'[r][n + 1] = EntryOf(q)
      /\ Decisions(r)' = Decisions(r) \cup {n + 1}
      /\ n + 1 \notin DOMAIN chain[r]
      /\ tx[q].kind = "modify" => Decisions(q)' = {} /\ Len(chain'[q]) = 1 /\ chain'[q][1] = EntryOf(q)
      /\ \A s \in Revisions : s # r /\ (s # q \/ tx[q].kind # "modify") => Decisions(s)' = Decisions(s)
  <2>1. n \in Nat /\ n >= Birth(r)
    BY CommitChains
  <2>5. Len(chain'[r]) = n + 1 /\ chain'[r][n + 1] = EntryOf(q)
    BY CommitChains
  <2>6. Decisions(r)' = Decisions(r) \cup {n + 1}
    BY CommitChains
  <2>7. n + 1 \notin DOMAIN chain[r]
    BY CommitChains
  <2>4. \A i \in DOMAIN chain[r] : i <= n /\ chain'[r][i] = chain[r][i]
    BY CommitChains
  <2>2. tx[q].kind = "modify" => /\ Decisions(q)' = {} /\ Len(chain'[q]) = 1
                                 /\ chain'[q][1] = EntryOf(q)
    BY CommitChains
  <2>3. \A s \in Revisions : s # r /\ (s # q \/ tx[q].kind # "modify") => Decisions(s)' = Decisions(s)
    BY CommitChains
  <2> QED BY <2>1, <2>2, <2>3, <2>4, <2>5, <2>6, <2>7
<1>4. now \in Nat /\ now' = now
  BY DEF TypeOK, Commit
<1>5. Informed(q)
  BY <1>1 DEF Begun
<1>6. \A s \in Existing' : s = r \/ (s = q /\ tx[q].kind = "modify") \/ (s \in Existing /\ s # r /\ s # q)
  BY <1>2
<1>7. \A s \in Revisions : Birth(s)' = Birth(s)
  BY DEF Birth
<1>8. lock' \in [Revisions -> Requests \cup {NoRequest}]
      /\ \A p \in Requests, s \in Revisions :
            lock'[s] = p <=> tx'[p].pc \in {"chain", "commit"} /\ tx'[p].rev = s
  BY <1>1, Freed DEF Commit
<1>9. TypeOK'
  <2>1. contributions' \in SUBSET Requests
    BY DEF Commit, TypeOK
  <2>2. UNCHANGED <<now, faults>>
    BY DEF Commit
  <2> QED BY <1>1, <1>2, <1>8, <2>1, <2>2 DEF TypeOK
<1>10. Holding'
  <2>1. \A p \in Requests : tx'[p].pc = "commit" => tx'[p].mine = chain'[tx'[p].rev]
    <3> SUFFICES ASSUME NEW p \in Requests, tx'[p].pc = "commit"
                 PROVE  tx'[p].mine = chain'[tx'[p].rev]
      OBVIOUS
    <3>1. p # q /\ tx'[p] = tx[p] /\ tx[p].pc = "commit"
      BY <1>1
    <3>2. tx[p].mine = chain[tx[p].rev]
      BY <3>1 DEF Holding
    <3>3. tx[p].rev \in Revisions /\ tx[p].rev \in Existing
      BY <3>1, RevFact
    <3>4. lock[r] = q
      BY <1>0, <1>1, <1>2 DEF Holding
    <3>5. lock[tx[p].rev] = p
      BY <3>1, <3>3 DEF Holding
    <3> QED BY <1>2, <3>1, <3>2, <3>3, <3>4, <3>5
  <2> QED BY <1>8, <2>1 DEF Holding
<1>11. Made'
  <2>1. contributions' = contributions \cup {p \in {q} : tx[p].kind = "accept"}
    BY DEF Commit
  <2>2. \A p \in Requests : tx'[p].pc = "200" /\ tx'[p].kind = "accept" <=>
           (tx[p].pc = "200" /\ tx[p].kind = "accept") \/ (p = q /\ tx[p].kind = "accept")
    <3> TAKE p \in Requests
    <3>1. CASE p = q
      BY <1>1, <3>1
    <3>2. CASE p # q
      BY <1>1, <3>2
    <3> QED BY <3>1, <3>2
  <2>3. contributions = {p \in Requests : tx[p].pc = "200" /\ tx[p].kind = "accept"}
    BY DEF Made
  <2> QED BY <2>1, <2>2, <2>3 DEF Made
<1>12. Born'
  <2>1. ASSUME NEW s \in Revisions
        PROVE  /\ s \notin Existing' => chain'[s] = << >>
               /\ s \in Existing' => Len(chain'[s]) >= Birth(s) /\ revision'[s].created < now'
    <3>1. CASE s = r
      <4>1. s \in Existing' /\ s \in Existing
        BY <1>2, <3>1
      <4>2. Birth(s) \in {0, 1} /\ n \in Nat /\ n >= Birth(s) /\ Len(chain'[s]) = n + 1
        BY <1>3, <3>1, Types
      <4>3. Len(chain'[s]) >= Birth(s)
        BY <4>2, SMT
      <4>4. revision'[s].created = revision[s].created /\ revision[s].created < now
        BY <1>2, <3>1, <4>1 DEF Born
      <4> QED BY <1>4, <4>1, <4>3, <4>4
    <3>2. CASE s = q /\ tx[q].kind = "modify"
      <4>1. chain'[q] = chain'[s] /\ Len(chain'[s]) = 1 /\ revision'[s].created = tx[q].began
        BY <1>2, <1>3, <3>2
      <4>2. tx[q].began < now'
        BY <1>4, <1>5 DEF Informed
      <4>3. Birth(s) = 1 /\ s \in Existing'
        BY <1>2, <3>2 DEF Birth
      <4> QED BY <4>1, <4>2, <4>3, SMT
    <3>3. CASE s # r /\ (s # q \/ tx[q].kind # "modify")
      BY <1>2, <1>4, <3>3 DEF Born
    <3> QED BY <3>1, <3>2, <3>3
  <2>2. ASSUME NEW p \in Requests
        PROVE  /\ p \in Existing' <=> tx'[p].pc = "200" /\ tx'[p].kind = "modify"
               /\ p \in Existing' => /\ chain'[p][1] = EntryOf(p)
                                     /\ revision'[p].created = tx'[p].began
               /\ tx'[p].pc # "idle" => tx'[p].rev \in Existing' /\ tx'[p].rev # p
    <3>1. CASE p = q
      BY <1>1, <1>2, <1>3, <3>1
    <3>2. CASE p # q
      <4>1. tx'[p] = tx[p] /\ p \in Revisions /\ (p \in Existing' <=> p \in Existing)
        BY <1>1, <1>2, <3>2 DEF Revisions
      <4>2. p \in Existing => chain'[p][1] = chain[p][1] /\ revision'[p].created = revision[p].created
        <5>1. CASE p = r
          <6>1. 1 \in DOMAIN chain[r]
            BY <1>0, <1>2, <1>3, <5>1, Types, SMT DEF Birth
          <6> QED BY <1>2, <1>3, <5>1, <6>1
        <5>2. CASE p # r
          BY <1>2, <3>2, <4>1, <5>2
        <5> QED BY <5>1, <5>2
      <4> QED BY <1>2, <4>1, <4>2 DEF Born
    <3> QED BY <3>1, <3>2
  <2> QED BY <1>1, <1>7, <2>1, <2>2 DEF Born
<1>13. Begun'
  <2> SUFFICES ASSUME NEW p \in Requests, tx'[p].pc \in {"update", "chain", "commit", "200"}
               PROVE  Informed(p)'
    BY DEF Begun
  <2> DEFINE s == tx[p].rev
  <2>1. Informed(p) /\ tx[p].pc # "idle"
    BY <1>1, <1>5 DEF Begun
  <2>2. s \in Existing /\ s \in Revisions /\ s # q /\ tx[p].saw \in Nat /\ tx[p].began \in Nat
    BY <1>2, <2>1, RevFact, Types
  <2>3. /\ tx'[p].rev = s /\ tx'[p].kind = tx[p].kind
        /\ tx'[p].saw = tx[p].saw /\ tx'[p].began = tx[p].began
    BY <1>1
  <2>4. revision'[s].created = revision[s].created /\ Len(chain'[s]) >= Len(chain[s])
    <3>1. CASE s = r
      BY <1>0, <1>2, <1>3, <3>1, SMT
    <3>2. CASE s # r
      BY <1>2, <2>2, <3>2, Types, SMT
    <3> QED BY <3>1, <3>2
  <2>5. tx[p].saw \in DOMAIN chain[s] => chain'[s][tx[p].saw] = chain[s][tx[p].saw]
    BY <1>2, <1>3, <2>2
  <2>6. Len(chain[s]) \in Nat /\ Len(chain'[s]) \in Nat /\ DOMAIN chain[s] = 1 .. Len(chain[s])
    BY <1>2, <2>2, Types, SMT
  <2>7. /\ revision[s].created < tx[p].began /\ tx[p].began < now
        /\ Birth(s) <= tx[p].saw /\ tx[p].saw <= Len(chain[s])
        /\ tx[p].kind = "modify" => tx[p].saw = Birth(s)
        /\ tx[p].kind = "reject" => tx[p].saw = Birth(s) \/ chain[s][tx[p].saw].decision = "modify"
    BY <2>1 DEF Informed
  <2>8. Birth(s) \in {0, 1}
    BY <2>2, Types
  <2> HIDE DEF s
  <2>9. \/ tx[p].saw = Birth(s)
        \/ tx[p].saw \in DOMAIN chain[s]
    BY <2>2, <2>6, <2>7, <2>8, SMT
  <2>10. tx[p].saw <= Len(chain'[s])
    BY <2>2, <2>4, <2>6, <2>7, SMT
  <2> QED BY <1>4, <2>3, <2>4, <2>5, <2>7, <2>9, <2>10 DEF Informed, Birth
<1>14. ChainIsWhole'
  <2> SUFFICES ASSUME NEW s \in Existing'
               PROVE  /\ \A i, j \in Decisions(s)' : chain'[s][i].by = chain'[s][j].by => i = j
                      /\ \A p \in Requests : Answered(p, s)' =>
                            \E i \in Decisions(s)' : chain'[s][i] = EntryOf(p)
                      /\ \A i \in Decisions(s)' :
                            \E p \in Requests : Answered(p, s)' /\ chain'[s][i] = EntryOf(p)
    BY <1>1 DEF ChainIsWhole
  <2>0. s \in Revisions
    BY DEF Existing
  <2>1. CASE s = r
    <3>1. \A i \in Decisions(r) : i \in DOMAIN chain[r] /\ chain'[r][i] = chain[r][i] /\ i # n + 1
      BY <1>3 DEF Decisions
    <3>2. \A i \in Decisions(r) : \E p \in Requests : Answered(p, r) /\ chain[r][i] = EntryOf(p)
      BY <1>2 DEF ChainIsWhole
    <3>3. \A p \in Requests : EntryOf(p).by = p
      BY SMT DEF EntryOf
    <3>4. ~Answered(q, r)
      BY <1>1 DEF Answered
    <3>5. \A i \in Decisions(r) : chain'[r][i].by # q
      BY <3>1, <3>2, <3>3, <3>4
    <3>6. chain'[r][n + 1].by = q /\ n + 1 \in Decisions(r)'
      BY <1>3, <3>3
    <3>7. \A i, j \in Decisions(r) : chain[r][i].by = chain[r][j].by => i = j
      BY <1>2 DEF ChainIsWhole
    <3>8. \A i, j \in Decisions(r)' : chain'[r][i].by = chain'[r][j].by => i = j
      <4> SUFFICES ASSUME NEW i \in Decisions(r)', NEW j \in Decisions(r)',
                          chain'[r][i].by = chain'[r][j].by
                   PROVE  i = j
        OBVIOUS
      <4>1. CASE i \in Decisions(r) /\ j \in Decisions(r)
        BY <3>1, <3>7, <4>1
      <4>2. CASE i = n + 1 \/ j = n + 1
        BY <1>3, <3>5, <3>6, <4>2
      <4> QED BY <1>3, <4>1, <4>2
    <3>9. \A p \in Requests : Answered(p, r)' => \E i \in Decisions(r)' : chain'[r][i] = EntryOf(p)
      <4> SUFFICES ASSUME NEW p \in Requests, Answered(p, r)'
                   PROVE  \E i \in Decisions(r)' : chain'[r][i] = EntryOf(p)
        OBVIOUS
      <4>1. CASE p = q
        BY <1>3, <3>6, <4>1
      <4>2. CASE p # q
        <5>0. Answered(p, r) /\ r \in Existing
          BY <1>1, <1>2, <4>2
        <5>1. PICK i \in Decisions(r) : chain[r][i] = EntryOf(p)
          BY <5>0 DEF ChainIsWhole
        <5> QED BY <1>3, <3>1, <5>1
      <4> QED BY <4>1, <4>2
    <3>10. \A i \in Decisions(r)' : \E p \in Requests : Answered(p, r)' /\ chain'[r][i] = EntryOf(p)
      <4> SUFFICES ASSUME NEW i \in Decisions(r)'
                   PROVE  \E p \in Requests : Answered(p, r)' /\ chain'[r][i] = EntryOf(p)
        OBVIOUS
      <4>1. CASE i = n + 1
        <5>1. Answered(q, r)' /\ chain'[r][i] = EntryOf(q)
          BY <1>1, <1>2, <1>3, <4>1
        <5> QED BY <5>1
      <4>2. CASE i \in Decisions(r)
        <5>1. PICK p \in Requests : Answered(p, r) /\ chain[r][i] = EntryOf(p)
          BY <3>2, <4>2
        <5>2. Answered(p, r)' /\ chain'[r][i] = EntryOf(p)
          BY <1>1, <1>2, <3>1, <4>2, <5>1
        <5> QED BY <5>2
      <4> QED BY <1>3, <4>1, <4>2
    <3> QED BY <2>1, <3>8, <3>9, <3>10
  <2>2. CASE s = q /\ tx[q].kind = "modify"
    <3>1. Decisions(q)' = {}
      BY <1>3, <2>2
    <3>2. \A p \in Requests : ~Answered(p, q)'
      <4> SUFFICES ASSUME NEW p \in Requests PROVE ~Answered(p, q)'
        OBVIOUS
      <4>1. Answered(p, q) => q \in Existing
        BY RevFact DEF Answered
      <4> QED BY <1>1, <1>2, <4>1
    <3> QED BY <2>2, <3>1, <3>2
  <2>3. CASE s \in Existing /\ s # r /\ s # q
    <3>1. Decisions(s)' = Decisions(s) /\ chain'[s] = chain[s]
      BY <1>2, <1>3, <2>0, <2>3
    <3>2. \A p \in Requests : Answered(p, s)' <=> Answered(p, s)
      BY <1>1, <2>0, <2>3
    <3> QED BY <2>3, <3>1, <3>2 DEF ChainIsWhole
  <2> QED BY <1>6, <2>1, <2>2, <2>3
<1>15. StatusFollowsChain'
  <2> SUFFICES ASSUME NEW s \in Existing'
               PROVE  /\ revision'[s].status = IF Decisions(s)' = {} THEN "proposed"
                                               ELSE Outcome(chain'[s][Len(chain'[s])].decision)
                      /\ LET accepts == {i \in Decisions(s)' : chain'[s][i].decision = "accept"} IN
                         IF accepts = {} THEN revision'[s].contribution = NoRequest
                         ELSE \E i \in accepts : /\ \A j \in accepts : j <= i
                                                 /\ revision'[s].contribution = chain'[s][i].by
    BY DEF StatusFollowsChain, Outcome
  <2>0. s \in Revisions
    BY DEF Existing
  <2>1. CASE s = r
    <3> DEFINE before == {i \in Decisions(r) : chain[r][i].decision = "accept"}
               after  == {i \in Decisions(r)' : chain'[r][i].decision = "accept"}
    <3>0. SUFFICES /\ revision'[r].status = IF Decisions(r)' = {} THEN "proposed"
                                             ELSE Outcome(chain'[r][Len(chain'[r])].decision)
                   /\ IF after = {} THEN revision'[r].contribution = NoRequest
                      ELSE \E i \in after : /\ \A j \in after : j <= i
                                            /\ revision'[r].contribution = chain'[r][i].by
      BY <2>1
    <3>1. \A i \in Decisions(r) : /\ i \in DOMAIN chain[r] /\ i <= n /\ i \in Nat
                                  /\ chain'[r][i] = chain[r][i]
      <4>1. DOMAIN chain[r] = 1 .. Len(chain[r]) /\ Len(chain[r]) \in Nat
        BY <1>2, Types
      <4> QED BY <1>3, <4>1, SMT DEF Decisions
    <3>2. EntryOf(q).by = q /\ EntryOf(q).decision = tx[q].kind
      BY SMT DEF EntryOf
    <3>3. revision'[r].status = Outcome(chain'[r][Len(chain'[r])].decision) /\ Decisions(r)' # {}
      <4>1. Len(chain'[r]) = n + 1 /\ chain'[r][n + 1] = EntryOf(q)
        BY <1>3
      <4>2. chain'[r][Len(chain'[r])].decision = tx[q].kind
        BY <3>2, <4>1
      <4>3. n + 1 \in Decisions(r)'
        BY <1>3
      <4> QED BY <1>2, <4>2, <4>3
    <3>4. CASE tx[q].kind = "accept"
      <4>1. n + 1 \in after /\ chain'[r][n + 1].by = q
        <5>1. n + 1 \in Decisions(r)' /\ chain'[r][n + 1] = EntryOf(q)
          BY <1>3
        <5> QED BY <3>2, <3>4, <5>1
      <4>2. \A j \in after : j <= n + 1
        BY <1>3, <3>1, SMT
      <4>3. revision'[r].contribution = q
        BY <1>2, <3>4, SMT DEF Decided
      <4> HIDE DEF after
      <4> QED BY <3>3, <4>1, <4>2, <4>3
    <3>5. CASE tx[q].kind # "accept"
      <4>1. after = before
        BY <1>3, <3>1, <3>2, <3>5
      <4>2. revision'[r].contribution = revision[r].contribution
        BY <1>2, <3>5, SMT DEF Decided
      <4>3. IF before = {} THEN revision[r].contribution = NoRequest
            ELSE \E i \in before : /\ \A j \in before : j <= i
                                   /\ revision[r].contribution = chain[r][i].by
        BY <1>2 DEF StatusFollowsChain
      <4>4. \A i \in before : chain'[r][i] = chain[r][i]
        BY <3>1
      <4> HIDE DEF before, after
      <4>5. IF before = {} THEN revision'[r].contribution = NoRequest
            ELSE \E i \in before : /\ \A j \in before : j <= i
                                   /\ revision'[r].contribution = chain'[r][i].by
        BY <4>2, <4>3, <4>4
      <4> QED BY <3>3, <4>1, <4>5
    <3> QED BY <3>4, <3>5
  <2>2. CASE s = q /\ tx[q].kind = "modify"
    <3>1. Decisions(q)' = {} /\ revision'[q].status = "proposed" /\ revision'[q].contribution = NoRequest
      BY <1>2, <1>3, <2>2, SMT DEF Counter
    <3> QED BY <2>2, <3>1
  <2>3. CASE s \in Existing /\ s # r /\ s # q
    <3>1. Decisions(s)' = Decisions(s) /\ chain'[s] = chain[s] /\ revision'[s] = revision[s]
      BY <1>2, <1>3, <2>0, <2>3
    <3> QED BY <2>3, <3>1 DEF StatusFollowsChain
  <2> QED BY <1>6, <2>1, <2>2, <2>3
<1>16. OverturnedOnlyByRace'
  <2> SUFFICES ASSUME NEW s \in Existing', NEW i \in Decisions(s)'
               PROVE  LET e == chain'[s][i]  saw == tx'[e.by].saw IN
                      /\ saw < i
                      /\ e.decision = "modify" => saw = Birth(s)
                      /\ e.decision = "reject" => saw = Birth(s) \/ chain'[s][saw].decision = "modify"
    BY DEF OverturnedOnlyByRace, Birth
  <2>1. s \in Revisions /\ ~(s = q /\ tx[q].kind = "modify")
    BY <1>3 DEF Existing
  <2>2. PICK p \in Requests : Answered(p, s)' /\ chain'[s][i] = EntryOf(p)
    BY <1>1, <1>14 DEF ChainIsWhole
  <2>3. /\ chain'[s][i].by = p /\ chain'[s][i].decision = tx[p].kind
    BY <2>2, SMT DEF EntryOf
  <2>4. Informed(p)' /\ tx'[p].rev = s /\ tx'[p].kind = tx[p].kind
    BY <1>1, <1>13, <2>2 DEF Begun, Answered
  <2>5. /\ tx[p].kind = "modify" => tx'[p].saw = Birth(s)
        /\ tx[p].kind = "reject" => tx'[p].saw = Birth(s) \/ chain'[s][tx'[p].saw].decision = "modify"
    BY <2>4 DEF Informed, Birth
  <2>6. tx'[p].saw < i
    <3>1. CASE s = r /\ i = n + 1
      <4>1. p = q
        BY <1>3, <2>3, <3>1, SMT DEF EntryOf
      <4>2. tx[q].saw <= n /\ tx[q].saw \in Nat
        BY <1>0, <1>5, Types DEF Informed
      <4> QED BY <1>1, <1>3, <3>1, <4>1, <4>2, SMT
    <3>2. CASE ~(s = r /\ i = n + 1)
      <4>1. i \in Decisions(s) /\ s \in Existing /\ chain'[s][i] = chain[s][i]
        <5>1. CASE s = r
          <6>1. i \in Decisions(r)
            BY <1>3, <3>2, <5>1
          <6>2. i \in DOMAIN chain[r]
            BY <6>1 DEF Decisions
          <6> QED BY <1>2, <1>3, <5>1, <6>1, <6>2
        <5>2. CASE s # r
          BY <1>2, <1>3, <1>6, <2>1, <5>2
        <5> QED BY <5>1, <5>2
      <4>2. tx[p].saw < i
        BY <2>3, <4>1 DEF OverturnedOnlyByRace
      <4> QED BY <1>1, <4>2
    <3> QED BY <3>1, <3>2
  <2> QED BY <2>3, <2>5, <2>6
<1> QED BY <1>9, <1>10, <1>11, <1>12, <1>13, <1>14, <1>15, <1>16

\* A commit keeps the invariant.
LEMMA CommitStep == ASSUME IInv, NEW q \in Requests, Commit(q) PROVE IInv'
<1>1. PICK r : r = tx[q].rev
  OBVIOUS
<1>2. PICK n : n = Len(chain[r])
  OBVIOUS
<1> QED BY <1>1, <1>2, CommitKeeps

\* Every step keeps the invariant.
LEMMA NextIInv == IInv /\ [Next]_vars => IInv'
<1> SUFFICES ASSUME IInv, [Next]_vars PROVE IInv'
  OBVIOUS
<1>1. ASSUME NEW B \in (SUBSET Proposals) \ {{}}, Propose(B) PROVE IInv'
  BY <1>1, ProposeStep
<1>2. ASSUME NEW q \in Requests, NEW d \in Decision, NEW r \in Revisions, Arrive(q, d, r) PROVE IInv'
  BY <1>2, ArriveStep
<1>3. ASSUME NEW q \in Requests, Step(q) \/ Fail(q) PROVE IInv'
  BY <1>3, ReadStep, UpdateStep, ReadChainStep, CommitStep, FailStep DEF Step
<1>4. CASE UNCHANGED vars
  <2>1. TypeOK' /\ Holding' /\ Made' /\ Existing' = Existing
    BY <1>4 DEF vars, IInv, TypeOK, Holding, Made, Existing
  <2>2. \A r \in Revisions : Decisions(r)' = Decisions(r)
    BY <1>4 DEF vars, Decisions, Birth
  <2>3. Born' /\ Begun'
    BY <1>4, <2>1 DEF vars, IInv, Born, Begun, Informed, Birth, EntryOf
  <2>4. \A q \in Requests, r \in Revisions :
           (Answered(q, r)' <=> Answered(q, r)) /\ EntryOf(q)' = EntryOf(q)
    BY <1>4 DEF vars, Answered, EntryOf
  <2>5. UNCHANGED <<revision, chain, tx>> /\ Existing \subseteq Revisions
    BY <1>4 DEF vars, Existing
  <2>6. ChainIsWhole'
    BY <2>1, <2>2, <2>4, <2>5 DEF IInv, ChainIsWhole
  <2>7. StatusFollowsChain'
    BY <2>1, <2>2, <2>5 DEF IInv, StatusFollowsChain
  <2>8. OverturnedOnlyByRace'
    BY <2>1, <2>2, <2>5 DEF IInv, OverturnedOnlyByRace, Birth
  <2> QED BY <2>1, <2>3, <2>6, <2>7, <2>8 DEF IInv
<1> QED BY <1>1, <1>2, <1>3, <1>4 DEF Next

-----------------------------------------------------------------------------
(* The theorems.                                                           *)

\* The invariant holds of every proposal, decision, race and failure.
THEOREM Invariance == Spec => []IInv
BY InitIInv, NextIInv, PTL DEF Spec

\* Rows, chains and requests have their types.
THEOREM TypeCorrect == Spec => []TypeOK
<1>1. IInv => TypeOK
  BY DEF IInv
<1> QED BY <1>1, Invariance, PTL

\* No decision is lost from an approval chain, entered twice or made up.
THEOREM ChainsAreWhole == Spec => []ChainIsWhole
<1>1. IInv => ChainIsWhole
  BY DEF IInv
<1> QED BY <1>1, Invariance, PTL

\* A revision's status and contribution are those of its chain's last entries.
THEOREM StatusIsLastDecision == Spec => []StatusFollowsChain
<1>1. IInv => StatusFollowsChain
  BY DEF IInv
<1> QED BY <1>1, Invariance, PTL

\* Only a race rejects or modifies what was decided.
THEOREM OnlyRacesOverturn == Spec => []OverturnedOnlyByRace
<1>1. IInv => OverturnedOnlyByRace
  BY DEF IInv
<1> QED BY <1>1, Invariance, PTL

\* The entries of a chain are those of its decisions, and of a counter-proposal's
\* the first is its own.
LEMMA EntryIs ==
    ASSUME IInv, NEW r \in Revisions, NEW i \in DOMAIN chain[r]
    PROVE  \/ i \in Decisions(r) /\ r \in Existing
           \/ i = 1 /\ r \in Requests /\ r \in Existing /\ chain[r][i] = EntryOf(r)
<1> USE DEF IInv
<1>1. DOMAIN chain[r] = 1 .. Len(chain[r])
  BY Types
<1>2. r \in Existing
  BY <1>1, SMT DEF Born
<1>3. CASE i > Birth(r)
  BY <1>2, <1>3 DEF Decisions
<1>4. CASE ~(i > Birth(r))
  <2>1. i = 1 /\ r \in Requests
    BY <1>1, <1>4, SMT DEF Birth
  <2> QED BY <1>2, <2>1 DEF Born
<1> QED BY <1>3, <1>4

\* Every contribution has its acceptance in the provenance of its revision.
THEOREM ApprovedContributions == Spec => []NothingEntersUnapproved
<1>1. ASSUME IInv PROVE NothingEntersUnapproved
  <2> USE <1>1 DEF IInv
  <2> SUFFICES ASSUME NEW q \in Requests
               PROVE  q \in contributions <=>
                         \E r \in Existing : [by |-> q, decision |-> "accept"] \in Entries(r)
    BY DEF NothingEntersUnapproved
  <2>1. ASSUME q \in contributions
        PROVE  \E r \in Existing : [by |-> q, decision |-> "accept"] \in Entries(r)
    <3>1. tx[q].pc = "200" /\ tx[q].kind = "accept" /\ tx[q].rev \in Existing /\ tx[q].rev \in Revisions
      BY <2>1, RevFact DEF Made
    <3>2. PICK i \in Decisions(tx[q].rev) : chain[tx[q].rev][i] = EntryOf(q)
      BY <3>1 DEF ChainIsWhole, Answered
    <3>3. i \in DOMAIN chain[tx[q].rev] /\ EntryOf(q) = [by |-> q, decision |-> "accept"]
      BY <3>1 DEF Decisions, EntryOf
    <3> QED BY <3>1, <3>2, <3>3 DEF Entries
  <2>2. ASSUME NEW r \in Existing, [by |-> q, decision |-> "accept"] \in Entries(r)
        PROVE  q \in contributions
    <3>1. PICK i \in DOMAIN chain[r] : chain[r][i] = [by |-> q, decision |-> "accept"]
      BY <2>2 DEF Entries
    <3>2. r \in Revisions
      BY DEF Existing
    <3>3. CASE i \in Decisions(r)
      <4>1. PICK p \in Requests : Answered(p, r) /\ chain[r][i] = EntryOf(p)
        BY <3>3 DEF ChainIsWhole
      <4>2. p = q /\ tx[p].kind = "accept"
        BY <3>1, <4>1, SMT DEF EntryOf
      <4> QED BY <4>1, <4>2 DEF Made, Answered
    <3>4. CASE i = 1 /\ r \in Requests /\ r \in Existing /\ chain[r][i] = EntryOf(r)
      <4>1. tx[r].kind = "modify" /\ tx[r].kind = "accept"
        BY <3>1, <3>4, SMT DEF Born, EntryOf
      <4> QED BY <4>1
    <3> QED BY <3>2, <3>3, <3>4, EntryIs
  <2> QED BY <2>1, <2>2
<1> QED BY <1>1, Invariance, PTL

\* Counter-proposals and the superseded point to each other, and back in time.
THEOREM LinkedCounterProposals == Spec => []CounterProposalsAreLinked
<1>1. ASSUME IInv PROVE CounterProposalsAreLinked
  <2> USE <1>1 DEF IInv
  <2> SUFFICES ASSUME NEW q \in Requests, NEW r \in Revisions
               PROVE  LET modified == [by |-> q, decision |-> "modify"]
                          superseded == q # r /\ modified \in Entries(r) IN
                      /\ superseded => /\ q \in Existing /\ r \in Existing
                                       /\ chain[q][1] = modified
                                       /\ revision[r].created < revision[q].created
                      /\ q \in Existing /\ tx[q].rev = r => superseded
    BY DEF CounterProposalsAreLinked
  <2>1. tx[q].kind = "modify" => EntryOf(q) = [by |-> q, decision |-> "modify"]
    BY DEF EntryOf
  <2>2. ASSUME q # r, [by |-> q, decision |-> "modify"] \in Entries(r)
        PROVE  /\ q \in Existing /\ r \in Existing
               /\ chain[q][1] = [by |-> q, decision |-> "modify"]
               /\ revision[r].created < revision[q].created
    <3>1. PICK i \in DOMAIN chain[r] : chain[r][i] = [by |-> q, decision |-> "modify"]
      BY <2>2 DEF Entries
    <3>2. chain[r][i] # EntryOf(r)
      BY <2>2, <3>1, SMT DEF EntryOf
    <3>3. i \in Decisions(r) /\ r \in Existing
      BY <3>2, EntryIs
    <3>4. PICK p \in Requests : Answered(p, r) /\ chain[r][i] = EntryOf(p)
      BY <3>3 DEF ChainIsWhole
    <3>5. p = q /\ tx[q].kind = "modify" /\ tx[q].pc = "200" /\ tx[q].rev = r
      BY <3>1, <3>4, SMT DEF EntryOf, Answered
    <3>6. Informed(q) /\ q \in Existing
      BY <3>5 DEF Begun, Born
    <3> QED BY <2>1, <3>3, <3>5, <3>6 DEF Born, Informed
  <2>3. ASSUME q \in Existing, tx[q].rev = r
        PROVE  q # r /\ [by |-> q, decision |-> "modify"] \in Entries(r)
    <3>1. tx[q].pc = "200" /\ tx[q].kind = "modify" /\ r \in Existing /\ r # q
      BY <2>3, RevFact DEF Born
    <3>2. PICK i \in Decisions(r) : chain[r][i] = EntryOf(q)
      BY <2>3, <3>1 DEF ChainIsWhole, Answered
    <3>3. i \in DOMAIN chain[r]
      BY DEF Decisions
    <3> QED BY <2>1, <3>1, <3>2, <3>3 DEF Entries
  <2> QED BY <2>2, <2>3
<1> QED BY <1>1, Invariance, PTL

-----------------------------------------------------------------------------
(* Runs and the coordinator.                                               *)

\* What a run has proposed is a new id, and in neither place until it is saved.
Proposing ==
    /\ run.pc \in {"connect", "model", "tools"} => Fresh # {}
    /\ run.pc \in {"idle", "connect", "model", "tools"} => run.proposal = NoRevision
    /\ run.pc = "persist" => run.persists /\ run.proposal # NoRevision
    /\ run.proposal # NoRevision => run.proposal \in made
    /\ run.proposal # NoRevision /\ (run.pc = "persist" \/ ~run.persists) =>
          run.proposal \notin Existing \cup job.buffer
    /\ Existing \cap Proposals \subseteq made
    /\ job.buffer \subseteq made

\* Who runs it: the route beside no coordinator, or a coordinator for a handoff.
Whose ==
    run.pc # "idle" => IF run.persists THEN job.pc = "off"
                       ELSE job.pc = "dispatch" /\ job.sync > 0

\* The coordinator's books.
Books ==
    /\ job.told + job.sync + job.async = job.asked
    /\ job.pc # "dispatch" => job.sync = 0 /\ job.async = 0
    /\ job.pc \in {"off", "decide", "after", "reported"} => job.buffer = {}

\* How far the answers to the last message have come.
Answering ==
    /\ run.pc = "connect" => run.uses = << >> /\ run.answered = << >>
    /\ run.pc = "tools" =>
          /\ run.iteration < MaxIterations
          /\ run.next \in 1 .. Len(run.uses) /\ Len(run.answered) = run.next - 1
          /\ \A i \in 1 .. Len(run.answered) : run.answered[i] = run.uses[i]
    /\ run.pc \notin {"idle", "over"} => run.toolCalls = calls

NoStray == run.pc \notin {"idle", "over"} => \A s \in Servers : server[s] # "stray"

TeamInv ==
    /\ IInv /\ RunTypeOK /\ JobTypeOK
    /\ Proposing /\ Whose /\ Books /\ Answering /\ NoStray
    /\ ToolUseIsAccountedFor /\ ServersEndWithTheRun /\ ReportIsStored

-----------------------------------------------------------------------------
(* Lemmas.                                                                 *)

\* A nonempty set of naturals up to n has a greatest element.
LEMMA Greatest ==
    ASSUME NEW n \in Nat, NEW S \in SUBSET (1 .. n), S # {}
    PROVE  \E i \in S : \A j \in S : j <= i
<1> DEFINE T == {n - i : i \in S}
<1>0. \A i \in S : n - i \in Nat
  BY SMT
<1>1. T \subseteq Nat /\ T # {}
  BY <1>0
<1>2. PICK x \in T : \A y \in T : <<y, x>> \notin OpToRel(<, Nat)
  BY <1>1, WFMin, NatLessThanWellFounded
<1>3. \A y \in T : ~(y < x)
  BY <1>1, <1>2 DEF OpToRel
<1>4. PICK i \in S : x = n - i
  BY <1>2
<1>5. \A j \in S : ~(n - j < n - i)
  BY <1>3, <1>4
<1> QED BY <1>5, SMT

\* A tool that some server of the run offers is one of its servers'.
LEMMA Resolved ==
    ASSUME RunTypeOK, NEW t \in Tools, Resolve(t) # NoServer
    PROVE  Resolve(t) \in Servers
<1> DEFINE offering == {i \in DOMAIN run.list : t \in Offers[run.list[i]]}
<1>1. run.list \in Seq(Servers)
  <2>1. run.list \in SpecLists \cup {<< >>}
    BY SMT DEF RunTypeOK, Run
  <2> QED BY <2>1, RunConstantsOK, EmptySeq
<1>2. Len(run.list) \in Nat /\ DOMAIN run.list = 1 .. Len(run.list)
  BY <1>1, LenProperties
<1>3. offering # {}
  BY DEF Resolve
<1>4. \E i \in offering : \A j \in offering : j <= i
  <2>1. offering \in SUBSET (1 .. Len(run.list))
    BY <1>2
  <2> QED BY <1>2, <1>3, <2>1, Greatest
<1>5. (CHOOSE i \in offering : \A j \in offering : j <= i) \in offering
  BY <1>4
<1>6. Resolve(t) = run.list[CHOOSE i \in offering : \A j \in offering : j <= i]
  BY <1>3 DEF Resolve
<1> QED BY <1>1, <1>2, <1>5, <1>6, ElementOfSeq

\* What a message asks for.
LEMMA MessageFacts ==
    ASSUME NEW uses \in Messages
    PROVE  uses \in Seq(Tools) /\ Len(uses) >= 1
<1>1. PICK n \in 1 .. MaxUses : uses \in [1 .. n -> Tools]
  BY DEF Messages
<1>2. n \in Nat
  BY RunConstantsOK, SMT
<1>3. uses \in Seq(Tools)
  BY <1>1, <1>2, SeqDef
<1>4. Len(uses) = n
  BY <1>1, <1>2, <1>3, LenProperties, SMT
<1> QED BY <1>1, <1>3, <1>4, SMT

\* An id that no run has used.
LEMMA NewIdIsFresh == Fresh # {} => NewId \in Proposals /\ NewId \notin made
BY DEF Fresh, NewId

-----------------------------------------------------------------------------
(* The whole is a refinement of the review.                                *)

Review ==
    \/ \E q \in Requests, d \in Decision, r \in Revisions : Arrive(q, d, r)
    \/ \E q \in Requests : Step(q) \/ Fail(q)

\* The steps that concern the runs and the coordinator alone.
RunAlone ==
    \/ Connect \/ ConnectFails \/ \E uses \in Messages : UseTools(uses)
    \/ UnknownTool \/ MalformedArguments \/ \E succeeded \in BOOLEAN : CallTool(succeeded)
    \/ Finish \/ ModelFails \/ PersistFails \/ CloseAll \/ Respond \/ Invoke

JobOnly ==
    \/ StartJob \/ Stop \/ DecideFails \/ Enqueue \/ StepEnds \/ NextStep \/ OnStepFails
    \/ \E sync, async \in 0 .. MaxHandoffs, final \in BOOLEAN :
          sync + async <= MaxHandoffs /\ Decide(sync, async, final)

\* The kinds of steps, by what of the review they change.
LEMMA Kinds ==
    ASSUME TeamNext
    PROVE  \/ JobOnly /\ UNCHANGED <<vars, runVars>>
           \/ RunAlone /\ UNCHANGED <<vars, job>>
           \/ (Dispatch \/ Collect \/ FlushFails) /\ UNCHANGED vars
           \/ Flush
           \/ Persist /\ UNCHANGED job
           \/ Review /\ UNCHANGED <<runVars, job>>
<1>1. JobOnly => UNCHANGED <<vars, runVars>>
  BY DEF JobOnly, StartJob, Stop, DecideFails, Enqueue, StepEnds, NextStep, OnStepFails, Decide, JobAlone
<1>2. RunAlone => UNCHANGED vars
  BY DEF RunAlone, Connect, ConnectFails, UseTools, UnknownTool, MalformedArguments, CallTool, Finish,
         ModelFails, PersistFails, CloseAll, Respond, Invoke, StartAny, Start, StartFails, vars
<1>3. Dispatch \/ Collect \/ FlushFails => UNCHANGED vars
  BY DEF Dispatch, Collect, FlushFails, StartAny, Start, StartFails, vars
<1>4. CASE StartJob \/ JobStep
  BY <1>1, <1>3, <1>4 DEF JobStep, JobOnly
<1>5. CASE (Invoke \/ RunStep) /\ UNCHANGED job
  BY <1>2, <1>5 DEF RunStep, RunAlone
<1> QED BY <1>4, <1>5 DEF TeamNext, Review

\* A batch that is saved exists from then on, and nothing else comes to be.
LEMMA Saved ==
    ASSUME NEW B \in SUBSET Proposals, Propose(B)
    PROVE  Existing' = Existing \cup B
<1>1. B \subseteq Revisions
  BY DEF Revisions
<1>2. \A r \in Revisions : revision'[r].status = IF r \in B THEN "proposed" ELSE revision[r].status
  BY SMT DEF Propose
<1> QED BY <1>1, <1>2, SMT DEF Existing

\* Reviews make no proposals, and nothing goes away.
LEMMA Reviewed ==
    ASSUME IInv, Review
    PROVE  Existing \subseteq Existing' /\ Existing' \cap Proposals = Existing \cap Proposals
<1>1. CASE \E q \in Requests, d \in Decision, r \in Revisions : Arrive(q, d, r)
  BY <1>1 DEF Arrive, Existing
<1>2. ASSUME NEW q \in Requests, Read(q) \/ Update(q) \/ ReadChain(q) \/ Fail(q)
      PROVE  Existing' = Existing
  BY <1>2 DEF Read, Update, ReadChain, Fail, Existing
<1>3. ASSUME NEW q \in Requests, Commit(q)
      PROVE  Existing \subseteq Existing' /\ Existing' \cap Proposals = Existing \cap Proposals
  <2>1. tx[q].rev \in Existing
    BY <1>3, RevFact, SMT DEF Commit
  <2>2. Decided(q).status # "absent" /\ Counter(q).status # "absent"
    <3>1. tx[q].kind \in Decision
      BY Types DEF IInv
    <3> QED BY <3>1, SMT DEF Decision, Decided, Counter, Outcome
  <2>3. \A s \in Revisions :
           revision'[s] = IF s = tx[q].rev THEN Decided(q)
                          ELSE IF tx[q].kind = "modify" /\ s = q THEN Counter(q) ELSE revision[s]
    BY <1>3 DEF Commit
  <2>4. q \notin Proposals
    BY ConstantsOK
  <2> QED BY <2>1, <2>2, <2>3, <2>4 DEF Existing
<1> QED BY <1>1, <1>2, <1>3 DEF Review, Step

\* Every step is one of the review's, or leaves it alone.
LEMMA StepsReview == ASSUME TeamInv, [TeamNext]_allVars PROVE [Next]_vars
<1>1. CASE Flush /\ job.buffer # {}
  <2>1. job.buffer \in (SUBSET Proposals) \ {{}}
    BY <1>1, SMT DEF TeamInv, JobTypeOK, Job
  <2> QED BY <1>1, <2>1 DEF Flush, Next
<1>2. CASE Flush /\ job.buffer = {}
  BY <1>2 DEF Flush
<1>3. CASE Persist
  <2>1. run.proposal \in Proposals
    BY <1>3, SMT DEF TeamInv, RunTypeOK, Run, Proposing, Persist
  <2>2. {run.proposal} \in (SUBSET Proposals) \ {{}}
    BY <2>1
  <2> QED BY <1>3, <2>2 DEF Persist, Next
<1>4. CASE Review
  BY <1>4 DEF Review, Next
<1>5. CASE UNCHANGED allVars
  BY <1>5 DEF allVars, vars
<1> QED BY <1>1, <1>2, <1>3, <1>4, <1>5, Kinds

-----------------------------------------------------------------------------
(* Types.                                                                  *)

Transport == {"off", "up", "stray", "closed"}

\* The empty run.
LEMMA IdleIsRun == Idle \in Run
<1>1. << >> \in Seq(Tools) /\ << >> \in Seq(Call)
  BY EmptySeq
<1>2. 0 \in 0 .. MaxIterations
  BY RunConstantsOK, SMT
<1> QED BY <1>1, <1>2, SMT DEF Idle, Run

\* What a tool use adds to a run.
LEMMA UseFacts ==
    ASSUME RunTypeOK, Answering, run.pc = "tools"
    PROVE  /\ Use \in Tools /\ << >> \in Seq(Call)
           /\ run.answered \o <<Use>> \in Seq(Tools)
           /\ Len(run.answered \o <<Use>>) = run.next
           /\ \A i \in 1 .. run.next : (run.answered \o <<Use>>)[i] = run.uses[i]
<1>1. run.uses \in Seq(Tools) /\ run.answered \in Seq(Tools) /\ run.next \in Nat
  BY SMT DEF RunTypeOK, Run
<1>2. run.next \in 1 .. Len(run.uses) /\ Len(run.answered) = run.next - 1
  BY DEF Answering
<1>3. Use \in Tools
  BY <1>1, <1>2, ElementOfSeq DEF Use
<1>4. <<Use>> \in Seq(Tools) /\ Len(<<Use>>) = 1 /\ <<Use>>[1] = Use
  BY <1>3, SMT
<1>5. /\ run.answered \o <<Use>> \in Seq(Tools)
      /\ Len(run.answered \o <<Use>>) = run.next
  BY <1>1, <1>2, <1>4, ConcatProperties, SMT
<1>6. \A i \in 1 .. Len(run.answered) + 1 :
         (run.answered \o <<Use>>)[i] = IF i <= Len(run.answered) THEN run.answered[i]
                                       ELSE <<Use>>[i - Len(run.answered)]
  BY <1>1, <1>4, ConcatProperties
<1>7. \A i \in 1 .. run.next : (run.answered \o <<Use>>)[i] = run.uses[i]
  <2> SUFFICES ASSUME NEW i \in 1 .. run.next PROVE (run.answered \o <<Use>>)[i] = run.uses[i]
    OBVIOUS
  <2>1. CASE i < run.next
    <3>1. /\ i \in 1 .. Len(run.answered) /\ i \in 1 .. Len(run.answered) + 1
          /\ i <= Len(run.answered)
      BY <1>1, <1>2, <2>1, SMT
    <3>2. (run.answered \o <<Use>>)[i] = run.answered[i]
      BY <1>6, <3>1
    <3>3. run.answered[i] = run.uses[i]
      BY <3>1 DEF Answering
    <3> QED BY <3>2, <3>3
  <2>2. CASE i = run.next
    <3>1. i = Len(run.answered) + 1 /\ Len(run.answered) \in Nat
      BY <1>1, <1>2, <2>2, SMT
    <3>2. (run.answered \o <<Use>>)[i] = <<Use>>[i - Len(run.answered)]
      BY <1>6, <3>1, SMT
    <3>3. i - Len(run.answered) = 1
      BY <3>1, SMT
    <3> QED BY <1>4, <2>2, <3>2, <3>3 DEF Use
  <2>3. i < run.next \/ i = run.next
    BY <1>1, SMT
  <2> QED BY <2>1, <2>2, <2>3
<1> QED BY <1>3, <1>5, <1>7, EmptySeq

\* A call's record, and what appending it to the calls gives.
LEMMA CallFacts ==
    ASSUME RunTypeOK, Answering, run.pc = "tools", Resolve(Use) # NoServer, NEW ok \in BOOLEAN
    PROVE  LET call == [tool |-> Use, server |-> Resolve(Use), succeeded |-> ok] IN
           /\ call \in Call /\ <<call>> \in Seq(Call)
           /\ calls \o <<call>> = Append(calls, call) /\ Append(calls, call) \in Seq(Call)
<1> DEFINE call == [tool |-> Use, server |-> Resolve(Use), succeeded |-> ok]
<1>1. Use \in Tools
  BY UseFacts
<1>2. call \in Call
  BY <1>1, Resolved DEF Call
<1>3. calls \in Seq(Call)
  BY DEF RunTypeOK
<1> HIDE DEF call
<1>4. /\ <<call>> \in Seq(Call) /\ Append(calls, call) \in Seq(Call)
      /\ calls \o <<call>> = Append(calls, call)
  BY <1>2, <1>3, SMT
<1> QED BY <1>2, <1>4 DEF call

\* The next use or turn keeps a run's type.
LEMMA NextUseIsRun ==
    ASSUME RunTypeOK, Answering, run.pc = "tools",
           NEW recorded, run.toolCalls \o recorded \in Seq(Call), NextUse(<<Use>>, recorded)
    PROVE  run' \in Run
<1> DEFINE more == run.next < Len(run.uses)
           answered == run.answered \o <<Use>>
           toolCalls == run.toolCalls \o recorded
           pc == IF more THEN "tools" ELSE "model"
           iteration == IF more THEN run.iteration ELSE run.iteration + 1
<1>1. answered \in Seq(Tools) /\ toolCalls \in Seq(Call)
  BY UseFacts
<1>2. run \in Run /\ run.next + 1 \in Nat
  BY SMT DEF RunTypeOK, Run
<1>3. iteration \in 0 .. MaxIterations
  BY <1>2, RunConstantsOK, SMT DEF Run, Answering
<1>4. pc \in {"tools", "model"}
  OBVIOUS
<1>5. run' = [run EXCEPT !.next = run.next + 1, !.answered = answered, !.toolCalls = toolCalls,
                         !.pc = pc, !.iteration = iteration]
  BY DEF NextUse
<1> DEFINE next == run.next + 1
<1> HIDE DEF more, answered, toolCalls, pc, iteration, next
<1>6. next \in Nat
  BY <1>2 DEF next
<1>7. run' = [run EXCEPT !.next = next, !.answered = answered, !.toolCalls = toolCalls,
                         !.pc = pc, !.iteration = iteration]
  BY <1>5 DEF next
<1>8. run' = [pc |-> pc, list |-> run.list, connected |-> run.connected, persists |-> run.persists,
              iteration |-> iteration, uses |-> run.uses, next |-> next, answered |-> answered,
              toolCalls |-> toolCalls, proposal |-> run.proposal]
  BY <1>2, <1>7 DEF Run
<1>9. /\ run.list \in SpecLists \cup {<< >>} /\ run.connected \in Nat /\ run.persists \in BOOLEAN
      /\ run.uses \in Seq(Tools) /\ run.proposal \in Proposals \cup {NoRevision}
  BY <1>2 DEF Run
<1> QED BY <1>1, <1>3, <1>4, <1>6, <1>8, <1>9 DEF Run

RunStates == {"idle", "connect", "model", "tools", "persist", "close", "over"}

\* What actions change in a run.
LEMMA Updated ==
    ASSUME NEW r \in Run
    PROVE  /\ \A pc \in RunStates :
                  [r EXCEPT !.pc = pc] \in Run
           /\ \A connected \in Nat, pc \in RunStates :
                  [r EXCEPT !.connected = connected, !.pc = pc] \in Run
           /\ \A pc \in RunStates, proposal \in Proposals \cup {NoRevision} :
                  [r EXCEPT !.pc = pc, !.proposal = proposal] \in Run
           /\ \A pc \in RunStates, persists \in BOOLEAN :
                  [r EXCEPT !.pc = pc, !.persists = persists] \in Run
           /\ \A pc \in RunStates, list \in SpecLists, persists \in BOOLEAN :
                  [r EXCEPT !.pc = pc, !.list = list, !.persists = persists] \in Run
           /\ \A pc \in RunStates, uses \in Seq(Tools) :
                  [r EXCEPT !.pc = pc, !.uses = uses, !.next = 1, !.answered = << >>] \in Run
           /\ \A pc \in RunStates, persists \in BOOLEAN, proposal \in Proposals \cup {NoRevision} :
                  [r EXCEPT !.pc = pc, !.persists = persists, !.proposal = proposal] \in Run
<1>0. 1 \in Nat /\ << >> \in Seq(Tools)
  BY EmptySeq
<1>1. \A pc \in RunStates :
           [r EXCEPT !.pc = pc] \in Run
  BY ZenonT(60) DEF Run, RunStates
<1>2. \A connected \in Nat, pc \in RunStates :
           [r EXCEPT !.connected = connected, !.pc = pc] \in Run
  BY ZenonT(60) DEF Run, RunStates
<1>3. \A pc \in RunStates, proposal \in Proposals \cup {NoRevision} :
           [r EXCEPT !.pc = pc, !.proposal = proposal] \in Run
  BY ZenonT(60) DEF Run, RunStates
<1>4. \A pc \in RunStates, persists \in BOOLEAN :
           [r EXCEPT !.pc = pc, !.persists = persists] \in Run
  BY ZenonT(60) DEF Run, RunStates
<1>5. \A pc \in RunStates, list \in SpecLists, persists \in BOOLEAN :
           [r EXCEPT !.pc = pc, !.list = list, !.persists = persists] \in Run
  BY ZenonT(60) DEF Run, RunStates
<1>6. \A pc \in RunStates, uses \in Seq(Tools) :
           [r EXCEPT !.pc = pc, !.uses = uses, !.next = 1, !.answered = << >>] \in Run
  BY <1>0, ZenonT(60) DEF Run, RunStates
<1>7. \A pc \in RunStates, persists \in BOOLEAN, proposal \in Proposals \cup {NoRevision} :
           [r EXCEPT !.pc = pc, !.persists = persists, !.proposal = proposal] \in Run
  BY ZenonT(60) DEF Run, RunStates
<1> QED BY <1>1, <1>2, <1>3, <1>4, <1>5, <1>6, <1>7

\* A run keeps its type.
LEMMA RunIsRun == ASSUME TeamInv, TeamNext PROVE run' \in Run
<1> USE DEF TeamInv
<1>0. run \in Run
  BY DEF RunTypeOK
<1>1. CASE UNCHANGED run
  BY <1>0, <1>1
<1>2. ASSUME NEW list \in SpecLists, NEW persists \in BOOLEAN, Start(list, persists) PROVE run' \in Run
  <2> DEFINE pc == IF list = << >> THEN "model" ELSE "connect"
  <2>1. pc \in RunStates
    BY DEF RunStates
  <2>2. run' = [Idle EXCEPT !.pc = pc, !.list = list, !.persists = persists]
    BY <1>2 DEF Start
  <2> QED BY <2>1, <2>2, IdleIsRun, Updated
<1>3. ASSUME NEW persists \in BOOLEAN, StartFails(persists) PROVE run' \in Run
  BY <1>3, IdleIsRun, Updated DEF StartFails, RunStates
<1>4. ASSUME NEW persists \in BOOLEAN, StartAny(persists) PROVE run' \in Run
  BY <1>2, <1>3, <1>4 DEF StartAny
<1>5. CASE Connect
  <2> DEFINE pc == IF run.connected + 1 = Len(run.list) THEN "model" ELSE "connect"
  <2>1. pc \in RunStates /\ run.connected + 1 \in Nat
    <3>1. run.connected \in Nat
      BY <1>0 DEF Run
    <3> QED BY <3>1, SMT DEF RunStates
  <2>2. run' = [run EXCEPT !.connected = run.connected + 1, !.pc = pc]
    BY <1>5 DEF Connect
  <2> HIDE DEF pc
  <2> QED BY <1>0, <2>1, <2>2, Updated
<1>13. CASE ConnectFails \/ ModelFails \/ Persist
  <2>1. PICK pc \in RunStates : run' = [run EXCEPT !.pc = pc]
    BY <1>13 DEF ConnectFails, ModelFails, Persist, Goto, RunStates
  <2> QED BY <1>0, <2>1, Updated
<1>6. ASSUME NEW uses \in Messages, UseTools(uses) PROVE run' \in Run
  <2>1. uses \in Seq(Tools) /\ "tools" \in RunStates
    BY MessageFacts DEF RunStates
  <2> QED BY <1>0, <1>6, <2>1, Updated DEF UseTools
<1>7. CASE UnknownTool \/ MalformedArguments
  <2>1. run.toolCalls \o << >> \in Seq(Call)
    <3>1. run.toolCalls \in Seq(Call)
      BY <1>0 DEF Run
    <3> QED BY <3>1, ConcatEmptySeq
  <2> QED BY <1>7, <2>1, NextUseIsRun DEF UnknownTool, MalformedArguments
<1>8. ASSUME NEW succeeded \in BOOLEAN, CallTool(succeeded) PROVE run' \in Run
  <2> DEFINE call == [tool |-> Use, server |-> Resolve(Use), succeeded |-> succeeded]
  <2>1. <<call>> \in Seq(Call)
    BY <1>8, CallFacts DEF CallTool
  <2>2. run.toolCalls \o <<call>> \in Seq(Call)
    <3>1. run.toolCalls \in Seq(Call)
      BY <1>0 DEF Run
    <3> QED BY <2>1, <3>1, ConcatProperties
  <2> QED BY <1>8, <2>2, NextUseIsRun DEF CallTool
<1>9. CASE Finish
  <2> DEFINE pc == IF run.persists THEN "persist" ELSE "close"
  <2>1. NewId \in Proposals
    BY <1>9, NewIdIsFresh DEF Finish, Proposing
  <2>2. pc \in RunStates
    BY DEF RunStates
  <2>3. run' = [run EXCEPT !.pc = pc, !.proposal = NewId]
    BY <1>9 DEF Finish
  <2> HIDE DEF pc
  <2> QED BY <1>0, <2>1, <2>2, <2>3, Updated
<1>10. CASE PersistFails
  <2>1. "close" \in RunStates
    BY DEF RunStates
  <2> QED BY <1>0, <1>10, <2>1, Updated DEF PersistFails
<1>11. CASE CloseAll
  <2>1. run.persists \in BOOLEAN /\ run.proposal \in Proposals \cup {NoRevision}
    BY <1>0 DEF Run
  <2>2. "over" \in RunStates
    BY DEF RunStates
  <2> QED BY <1>11, <2>1, <2>2, IdleIsRun, Updated DEF CloseAll
<1>12. CASE Respond \/ Collect
  BY <1>12, IdleIsRun DEF Respond, Collect
<1> QED
  BY <1>1, <1>4, <1>5, <1>6, <1>7, <1>8, <1>9, <1>10, <1>11, <1>12, <1>13, Kinds
  DEF RunAlone, Invoke, Dispatch, Flush, FlushFails, runVars

\* So do the transports, the ids and the calls.
LEMMA RunTypeStep == ASSUME TeamInv, TeamNext PROVE RunTypeOK'
<1> USE DEF TeamInv
<1>0. /\ server \in [Servers -> Transport] /\ made \in SUBSET Proposals
      /\ calls \in Seq(Call) /\ outages \in 0 .. MaxOutages
  BY DEF RunTypeOK, Transport
<1>1. Closed \in [Servers -> Transport]
  BY <1>0 DEF Closed, Transport
<1>2. server' \in [Servers -> Transport]
  <2>1. CASE UNCHANGED server
    BY <1>0, <2>1
  <2>2. CASE \E persists \in BOOLEAN : StartAny(persists)
    BY <2>2 DEF StartAny, Start, StartFails, Transport
  <2>3. CASE Connect
    BY <1>0, <2>3 DEF Connect, Transport
  <2>4. CASE ConnectFails
    BY <1>1, <2>4 DEF ConnectFails, Transport
  <2>5. CASE CloseAll
    BY <1>1, <2>5 DEF CloseAll
  <2> QED
    BY <2>1, <2>2, <2>3, <2>4, <2>5, Kinds
    DEF RunAlone, Invoke, Dispatch, Collect, Flush, FlushFails, UseTools, UnknownTool, MalformedArguments,
        CallTool, Finish, ModelFails, Persist, PersistFails, Respond, runVars
<1>3. made' \in SUBSET Proposals
  <2>1. CASE Finish
    BY <1>0, <2>1, NewIdIsFresh DEF Finish, Proposing
  <2> QED
    BY <1>0, <2>1, Kinds
    DEF RunAlone, Invoke, StartAny, Start, StartFails, Dispatch, Collect, Flush, FlushFails, Connect,
        ConnectFails, UseTools, UnknownTool, MalformedArguments, CallTool, ModelFails, Persist,
        PersistFails, CloseAll, Respond, runVars
<1>4. calls' \in Seq(Call)
  <2>1. ASSUME NEW succeeded \in BOOLEAN, CallTool(succeeded) PROVE calls' \in Seq(Call)
    BY <2>1, CallFacts DEF CallTool
  <2>2. << >> \in Seq(Call)
    BY EmptySeq
  <2> QED
    BY <1>0, <2>1, <2>2, Kinds
    DEF RunAlone, Invoke, StartAny, Start, StartFails, Dispatch, Collect, Flush, FlushFails, Connect,
        ConnectFails, UseTools, UnknownTool, MalformedArguments, Finish, ModelFails, Persist,
        PersistFails, CloseAll, Respond, runVars
<1>5. outages' \in 0 .. MaxOutages
  <2>1. CASE PersistFails \/ FlushFails
    BY <1>0, <2>1, RunConstantsOK, SMT DEF PersistFails, FlushFails
  <2> QED
    BY <1>0, <2>1, Kinds
    DEF RunAlone, Invoke, StartAny, Start, StartFails, Dispatch, Collect, Flush, Connect,
        ConnectFails, UseTools, UnknownTool, MalformedArguments, CallTool, Finish, ModelFails, Persist,
        CloseAll, Respond, runVars
<1> QED BY <1>2, <1>3, <1>4, <1>5, RunIsRun DEF RunTypeOK, Transport

\* What actions change in a job.
LEMMA JobUpdated ==
    ASSUME NEW j \in Job
    PROVE  LET States == {"off", "decide", "dispatch", "flush", "after", "reported", "thrown"}
               Count == 0 .. MaxHandoffs IN
           /\ \A pc \in States : [j EXCEPT !.pc = pc] \in Job
           /\ \A pc \in States, step \in Nat : [j EXCEPT !.pc = pc, !.step = step] \in Job
           /\ \A pc \in States, sync, async \in Count, final \in BOOLEAN, asked \in Nat :
                 [j EXCEPT !.pc = pc, !.sync = sync, !.async = async, !.final = final, !.asked = asked] \in Job
           /\ \A sync \in Count, told \in Nat, named, buffer \in SUBSET Proposals :
                 [j EXCEPT !.sync = sync, !.told = told, !.named = named, !.buffer = buffer] \in Job
           /\ \A async \in Count, told \in Nat : [j EXCEPT !.async = async, !.told = told] \in Job
           /\ \A pc \in States, buffer \in SUBSET Proposals : [j EXCEPT !.pc = pc, !.buffer = buffer] \in Job
<1> DEFINE States == {"off", "decide", "dispatch", "flush", "after", "reported", "thrown"}
           Count == 0 .. MaxHandoffs
<1>1. \A pc \in States : [j EXCEPT !.pc = pc] \in Job
  BY ZenonT(60) DEF Job
<1>2. \A pc \in States, step \in Nat : [j EXCEPT !.pc = pc, !.step = step] \in Job
  BY ZenonT(60) DEF Job
<1>3. \A pc \in States, sync, async \in Count, final \in BOOLEAN, asked \in Nat :
         [j EXCEPT !.pc = pc, !.sync = sync, !.async = async, !.final = final, !.asked = asked] \in Job
  BY ZenonT(60) DEF Job
<1>4. \A sync \in Count, told \in Nat, named, buffer \in SUBSET Proposals :
         [j EXCEPT !.sync = sync, !.told = told, !.named = named, !.buffer = buffer] \in Job
  BY ZenonT(60) DEF Job
<1>5. \A async \in Count, told \in Nat : [j EXCEPT !.async = async, !.told = told] \in Job
  BY ZenonT(60) DEF Job
<1>6. \A pc \in States, buffer \in SUBSET Proposals : [j EXCEPT !.pc = pc, !.buffer = buffer] \in Job
  BY ZenonT(60) DEF Job
<1> QED BY <1>1, <1>2, <1>3, <1>4, <1>5, <1>6

\* A job keeps its type.
LEMMA JobTypeStep == ASSUME TeamInv, TeamNext PROVE JobTypeOK'
<1> DEFINE States == {"off", "decide", "dispatch", "flush", "after", "reported", "thrown"}
<1>0. job \in Job
  BY DEF TeamInv, JobTypeOK
<1>1. /\ job.step \in Nat /\ job.sync \in 0 .. MaxHandoffs /\ job.async \in 0 .. MaxHandoffs
      /\ job.asked \in Nat /\ job.told \in Nat
      /\ job.named \in SUBSET Proposals /\ job.buffer \in SUBSET Proposals
  BY <1>0 DEF Job
<1>2. CASE UNCHANGED job
  BY <1>0, <1>2 DEF JobTypeOK
<1>3. CASE Stop \/ DecideFails \/ StepEnds \/ OnStepFails
  <2>1. PICK pc \in States : job' = [job EXCEPT !.pc = pc]
    BY <1>3 DEF Stop, DecideFails, StepEnds, OnStepFails
  <2> QED BY <1>0, <2>1, JobUpdated DEF JobTypeOK
<1>4. CASE StartJob \/ NextStep
  <2>1. PICK pc \in States, step \in Nat : job' = [job EXCEPT !.pc = pc, !.step = step]
    <3>1. CASE StartJob
      BY <3>1 DEF StartJob
    <3>2. CASE NextStep
      <4> DEFINE pc == IF job.final THEN "reported" ELSE "decide"
                 step == IF job.final THEN job.step ELSE job.step + 1
      <4>1. pc \in States /\ step \in Nat
        BY <1>1
      <4>2. job' = [job EXCEPT !.pc = pc, !.step = step]
        BY <3>2 DEF NextStep
      <4> HIDE DEF pc, step
      <4> QED BY <4>1, <4>2
    <3> QED BY <1>4, <3>1, <3>2
  <2> QED BY <1>0, <2>1, JobUpdated DEF JobTypeOK
<1>5. ASSUME NEW sync \in 0 .. MaxHandoffs, NEW async \in 0 .. MaxHandoffs, NEW final \in BOOLEAN,
             Decide(sync, async, final)
      PROVE  JobTypeOK'
  <2> DEFINE asked == job.asked + sync + async
  <2>1. asked \in Nat
    BY <1>1, JobConstantsOK, SMT
  <2>2. job' = [job EXCEPT !.pc = "dispatch", !.sync = sync, !.async = async, !.final = final, !.asked = asked]
    BY <1>5 DEF Decide
  <2> HIDE DEF asked
  <2> QED BY <1>0, <2>1, <2>2, JobUpdated DEF JobTypeOK
<1>6. CASE Collect
  <2> DEFINE new == {run.proposal} \ {NoRevision}
             sync == job.sync - 1
             told == job.told + 1
             named == job.named \cup new
             buffer == job.buffer \cup new
  <2>1. run.proposal \in Proposals \cup {NoRevision}
    BY DEF TeamInv, RunTypeOK, Run
  <2>2. run.pc # "idle" /\ job.pc # "off"
    BY <1>6 DEF Collect
  <2>3. job.sync > 0
    BY <2>2 DEF TeamInv, Whose
  <2>4. /\ sync \in 0 .. MaxHandoffs /\ told \in Nat
        /\ named \in SUBSET Proposals /\ buffer \in SUBSET Proposals
    <3>1. sync \in 0 .. MaxHandoffs /\ told \in Nat
      BY <1>1, <2>3, JobConstantsOK, SMT
    <3> QED BY <1>1, <2>1, <3>1
  <2>5. job' = [job EXCEPT !.sync = sync, !.told = told, !.named = named, !.buffer = buffer]
    BY <1>6 DEF Collect
  <2> HIDE DEF sync, told, named, buffer
  <2> QED BY <1>0, <2>4, <2>5, JobUpdated DEF JobTypeOK
<1>7. CASE Enqueue
  <2> DEFINE async == job.async - 1
             told == job.told + 1
  <2>1. async \in 0 .. MaxHandoffs /\ told \in Nat
    BY <1>1, <1>7, JobConstantsOK, SMT DEF Enqueue
  <2>2. job' = [job EXCEPT !.async = async, !.told = told]
    BY <1>7 DEF Enqueue
  <2> HIDE DEF async, told
  <2> QED BY <1>0, <2>1, <2>2, JobUpdated DEF JobTypeOK
<1>8. CASE Flush \/ FlushFails
  <2>1. PICK pc \in States, buffer \in SUBSET Proposals : job' = [job EXCEPT !.pc = pc, !.buffer = buffer]
    BY <1>8 DEF Flush, FlushFails
  <2> QED BY <1>0, <2>1, JobUpdated DEF JobTypeOK
<1> QED
  BY <1>2, <1>3, <1>4, <1>5, <1>6, <1>7, <1>8, Kinds DEF JobOnly, Dispatch

-----------------------------------------------------------------------------
(* The parts of the invariant, each over a step.                           *)

\* What the tables hold.
LEMMA Stored ==
    ASSUME TeamInv, TeamNext
    PROVE  /\ Existing \subseteq Existing'
           /\ Existing' \cap Proposals =
                 (Existing \cap Proposals) \cup (IF Flush THEN job.buffer ELSE {})
                                           \cup (IF Persist THEN {run.proposal} ELSE {})
<1> USE DEF TeamInv
<1>1. job.buffer \in SUBSET Proposals /\ run.proposal \in Proposals \cup {NoRevision}
  BY DEF JobTypeOK, Job, RunTypeOK, Run
<1>2. ASSUME UNCHANGED vars PROVE Existing' = Existing
  BY <1>2 DEF vars, Existing
<1>3. CASE Flush
  <2>1. Existing' = Existing \cup job.buffer
    BY <1>1, <1>2, <1>3, Saved DEF Flush
  <2>2. ~Persist
    BY <1>3 DEF Flush, Persist, Whose
  <2> QED BY <1>1, <1>3, <2>1, <2>2
<1>4. CASE Persist
  <2>1. run.proposal \in Proposals
    BY <1>1, <1>4 DEF Persist, Proposing
  <2>2. Existing' = Existing \cup {run.proposal}
    BY <1>4, <2>1, Saved DEF Persist
  <2>3. ~Flush
    BY <1>4 DEF Flush, Persist, Whose
  <2> QED BY <1>4, <2>1, <2>2, <2>3
<1>5. CASE ~Flush /\ ~Persist
  <2>1. Existing \subseteq Existing' /\ Existing' \cap Proposals = Existing \cap Proposals
    BY <1>2, <1>5, Kinds, Reviewed
  <2> QED BY <1>5, <2>1
<1> QED BY <1>3, <1>4, <1>5

\* A run's ids: no two proposals of runs and buffers are one.
LEMMA ProposingStep == ASSUME TeamInv, TeamNext PROVE Proposing'
<1> USE DEF TeamInv
<1>0. /\ run \in Run /\ job \in Job /\ made \in SUBSET Proposals /\ NoRevision \notin Proposals
      /\ run.proposal \in Proposals \cup {NoRevision} /\ job.buffer \in SUBSET Proposals
  BY ConstantsOK DEF RunTypeOK, JobTypeOK, Run, Job, Revisions
<1>1. CASE UNCHANGED <<runVars, job>>
  <2>1. Existing' \cap Proposals = Existing \cap Proposals
    <3>1. ~Flush /\ ~Persist
      <4>0. UNCHANGED <<run, job>>
        BY <1>1 DEF runVars
      <4>1. run'.pc = run.pc /\ job'.pc = job.pc
        BY <4>0
      <4>2. Persist => run'.pc = "close"
        BY <1>0, SMT DEF Persist, Goto, Run
      <4>3. Flush => job'.pc = "after"
        BY <1>0, SMT DEF Flush, Job
      <4> QED BY <4>1, <4>2, <4>3 DEF Persist, Flush
    <3> QED BY <3>1, Stored
  <2> QED BY <1>0, <1>1, <2>1, SMT DEF Proposing, Fresh, runVars
<1>2. CASE JobOnly /\ UNCHANGED <<vars, runVars>>
  <2>1. job'.buffer = job.buffer
    <3>1. StartJob => job'.buffer = job.buffer
      BY <1>0, SMT DEF StartJob, Job
    <3>2. Stop \/ DecideFails \/ StepEnds \/ OnStepFails => job'.buffer = job.buffer
      BY <1>0, SMT DEF Stop, DecideFails, StepEnds, OnStepFails, Job
    <3>4. Enqueue => job'.buffer = job.buffer
      BY <1>0, SMT DEF Enqueue, Job
    <3>5. NextStep => job'.buffer = job.buffer
      BY <1>0, SMT DEF NextStep, Job
    <3>3. ASSUME NEW sync, NEW async, NEW final, Decide(sync, async, final) PROVE job'.buffer = job.buffer
      BY <1>0, <3>3, SMT DEF Decide, Job
    <3> QED BY <1>2, <3>1, <3>2, <3>3, <3>4, <3>5 DEF JobOnly
  <2>2. Existing' = Existing
    BY <1>2 DEF vars, Existing
  <2> QED BY <1>2, <2>1, <2>2 DEF Proposing, Fresh, runVars
<1>3. CASE Flush
  <2>1. job'.buffer = {} /\ UNCHANGED runVars /\ ~Persist
    BY <1>0, <1>3, SMT DEF Flush, Job, Whose, Persist
  <2>2. Existing' \cap Proposals = (Existing \cap Proposals) \cup job.buffer
    BY <1>3, <2>1, Stored
  <2> QED BY <1>0, <2>1, <2>2 DEF Proposing, Fresh, runVars
<1>4. CASE FlushFails
  <2>1. job'.buffer = {} /\ UNCHANGED <<run, made>> /\ UNCHANGED vars
    BY <1>0, <1>4, SMT DEF FlushFails, Job
  <2>2. Existing' = Existing
    BY <2>1 DEF vars, Existing
  <2> QED BY <1>0, <2>1, <2>2 DEF Proposing, Fresh
<1>5. CASE Collect
  <2>1. /\ job'.buffer = job.buffer \cup ({run.proposal} \ {NoRevision})
        /\ run' = Idle /\ UNCHANGED made /\ UNCHANGED vars
    BY <1>0, <1>5, SMT DEF Collect, Job
  <2>2. Existing' = Existing
    BY <2>1 DEF vars, Existing
  <2>3. run'.pc = "idle" /\ run'.proposal = NoRevision
    BY <2>1 DEF Idle
  <2> QED BY <1>0, <2>1, <2>2, <2>3 DEF Proposing, Fresh
<1>6. CASE Persist /\ UNCHANGED job
  <2>1. /\ run'.pc = "close" /\ run'.proposal = run.proposal /\ run'.persists = run.persists
        /\ UNCHANGED made
    BY <1>0, <1>6, SMT DEF Persist, Goto, Run
  <2>2. run.persists /\ run.proposal # NoRevision
    BY <1>6 DEF Persist, Proposing
  <2>3. ~Flush
    BY <1>6 DEF Flush, Persist, Whose
  <2>4. Existing' \cap Proposals = (Existing \cap Proposals) \cup {run.proposal}
    BY <1>6, <2>3, Stored
  <2> QED BY <1>0, <1>6, <2>1, <2>2, <2>4 DEF Proposing
<1>7. ASSUME UNCHANGED <<vars, job>>, RunAlone \/ Dispatch PROVE Proposing'
  <2>1. Existing' = Existing
    BY <1>7 DEF vars, Existing
  <2>2. CASE \E persists \in BOOLEAN : StartAny(persists)
    <3>1. /\ run'.proposal = NoRevision /\ run'.pc \in {"connect", "model", "over"} /\ UNCHANGED made
          /\ run'.pc # "over" => Fresh # {}
      <4>1. PICK persists \in BOOLEAN : StartAny(persists)
        BY <2>2
      <4>2. ASSUME NEW list \in SpecLists, Start(list, persists)
            PROVE  /\ run'.proposal = NoRevision /\ run'.pc \in {"connect", "model"} /\ UNCHANGED made
        BY <4>2, SMT DEF Start, Idle
      <4>3. StartFails(persists) => run'.proposal = NoRevision /\ run'.pc = "over" /\ UNCHANGED made
        BY SMT DEF StartFails, Idle
      <4> QED BY <4>1, <4>2, <4>3 DEF StartAny
    <3> QED BY <1>7, <2>1, <3>1 DEF Proposing, Fresh
  <2>3. CASE Finish
    <3>1. NewId \in Proposals /\ NewId \notin made
      BY <2>3, NewIdIsFresh DEF Finish, Proposing
    <3>2. /\ run'.proposal = NewId /\ made' = made \cup {NewId} /\ run'.persists = run.persists
          /\ run'.pc = IF run.persists THEN "persist" ELSE "close"
      BY <1>0, <2>3, SMT DEF Finish, Run
    <3>3. NewId \notin Existing \cup job.buffer
      BY <3>1 DEF Proposing
    <3> QED BY <1>0, <1>7, <2>1, <3>1, <3>2, <3>3 DEF Proposing
  <2>4. CASE Connect \/ ConnectFails \/ (\E uses \in Messages : UseTools(uses)) \/ ModelFails
             \/ UnknownTool \/ MalformedArguments \/ \E succeeded \in BOOLEAN : CallTool(succeeded)
    <3>1. /\ run'.proposal = run.proposal /\ run'.persists = run.persists /\ UNCHANGED made
          /\ run.pc \in {"connect", "model", "tools"}
          /\ run'.pc \in {"connect", "model", "tools", "close", "over"}
      <4> DEFINE Kept == /\ run'.proposal = run.proposal /\ run'.persists = run.persists /\ UNCHANGED made
                         /\ run.pc \in {"connect", "model", "tools"}
                         /\ run'.pc \in {"connect", "model", "tools", "close", "over"}
      <4>1. Connect => Kept
        BY <1>0, SMT DEF Connect, Run
      <4>2. ConnectFails \/ ModelFails => Kept
        BY <1>0, SMT DEF ConnectFails, ModelFails, Goto, Run
      <4>3. ASSUME NEW uses, UseTools(uses) PROVE Kept
        BY <1>0, <4>3, SMT DEF UseTools, Run
      <4>4. ASSUME NEW answer, NEW recorded, run.pc = "tools", NextUse(answer, recorded), UNCHANGED made PROVE Kept
        BY <1>0, <4>4, SMT DEF NextUse, Run
      <4>5. UnknownTool \/ MalformedArguments => Kept
        BY <4>4 DEF UnknownTool, MalformedArguments
      <4>6. ASSUME NEW succeeded, CallTool(succeeded) PROVE Kept
        BY <4>4, <4>6 DEF CallTool
      <4> HIDE DEF Kept
      <4>7. Kept
        BY <2>4, <4>1, <4>2, <4>3, <4>5, <4>6
      <4> QED BY <4>7 DEF Kept
    <3> QED BY <1>7, <2>1, <3>1 DEF Proposing, Fresh
  <2>5. CASE PersistFails
    <3>1. run'.pc = "close" /\ run'.proposal = NoRevision /\ UNCHANGED made
      BY <1>0, <2>5, SMT DEF PersistFails, Run
    <3> QED BY <1>7, <2>1, <3>1 DEF Proposing
  <2>6. CASE CloseAll
    <3>1. /\ run.pc = "close" /\ run'.pc = "over" /\ UNCHANGED made
          /\ run'.proposal = run.proposal /\ run'.persists = run.persists
      BY <2>6, SMT DEF CloseAll, Idle
    <3> QED BY <1>7, <2>1, <3>1 DEF Proposing
  <2>7. CASE Respond
    <3>1. run'.pc = "idle" /\ run'.proposal = NoRevision /\ UNCHANGED made
      BY <2>7 DEF Respond, Idle
    <3> QED BY <1>7, <2>1, <3>1 DEF Proposing
  <2> QED BY <1>7, <2>2, <2>3, <2>4, <2>5, <2>6, <2>7 DEF RunAlone, Invoke, Dispatch
<1>8. Dispatch => UNCHANGED job
  BY DEF Dispatch
<1> QED BY <1>1, <1>2, <1>3, <1>4, <1>5, <1>6, <1>7, <1>8, Kinds

\* Steps of the coordinator's that find a run under way only take its result.
LEMMA WhoseStep == ASSUME TeamInv, TeamNext PROVE Whose'
<1> USE DEF TeamInv
<1>0. run \in Run /\ job \in Job
  BY DEF RunTypeOK, JobTypeOK
<1>1. CASE UNCHANGED <<run, job>>
  BY <1>1 DEF Whose
<1>2. CASE (JobOnly \/ Flush \/ FlushFails) /\ UNCHANGED run
  <2>1. job.sync \in 0 .. MaxHandoffs
    BY <1>0, SMT DEF Job
  <2>2. StartJob => run.pc = "idle"
    BY DEF StartJob
  <2>3. Stop \/ DecideFails \/ NextStep \/ OnStepFails \/ Flush \/ FlushFails => run.pc = "idle"
    BY DEF Whose, Stop, DecideFails, NextStep, OnStepFails, Flush, FlushFails
  <2>4. Enqueue \/ StepEnds => run.pc = "idle"
    BY <2>1, SMT DEF Whose, Enqueue, StepEnds
  <2>5. ASSUME NEW sync, NEW async, NEW final, Decide(sync, async, final) PROVE run.pc = "idle"
    BY <2>5 DEF Whose, Decide
  <2>6. run.pc = "idle"
    BY <1>2, <2>2, <2>3, <2>4, <2>5 DEF JobOnly
  <2> QED BY <1>2, <2>6 DEF Whose
<1>3. CASE Collect \/ Respond
  BY <1>3 DEF Collect, Respond, Idle, Whose
<1>4. ASSUME NEW persists \in BOOLEAN, StartAny(persists) PROVE run'.persists = persists
  <2>1. ASSUME NEW list \in SpecLists, Start(list, persists) PROVE run'.persists = persists
    BY <2>1, SMT DEF Start, Idle
  <2>2. StartFails(persists) => run'.persists = persists
    BY SMT DEF StartFails, Idle
  <2> QED BY <1>4, <2>1, <2>2 DEF StartAny
<1>5. CASE Dispatch
  BY <1>4, <1>5 DEF Dispatch, Whose
<1>6. CASE Invoke /\ UNCHANGED job
  BY <1>4, <1>6 DEF Invoke, Whose
<1>7. CASE (Persist \/ RunAlone) /\ ~Invoke /\ ~Respond /\ UNCHANGED job
  <2> DEFINE Kept == run.pc # "idle" /\ run'.persists = run.persists
  <2>1. Connect => Kept
    BY <1>0, SMT DEF Connect, Run
  <2>2. ConnectFails \/ ModelFails \/ Persist => Kept
    BY <1>0, SMT DEF ConnectFails, ModelFails, Persist, Goto, Run
  <2>3. ASSUME NEW uses, UseTools(uses) PROVE Kept
    BY <1>0, <2>3, SMT DEF UseTools, Run
  <2>4. ASSUME NEW answer, NEW recorded, run.pc = "tools", NextUse(answer, recorded) PROVE Kept
    BY <1>0, <2>4, SMT DEF NextUse, Run
  <2>5. UnknownTool \/ MalformedArguments => Kept
    BY <2>4 DEF UnknownTool, MalformedArguments
  <2>6. ASSUME NEW succeeded, CallTool(succeeded) PROVE Kept
    BY <2>4, <2>6 DEF CallTool
  <2>7. Finish => Kept
    BY <1>0, SMT DEF Finish, Run
  <2>10. PersistFails => Kept
    BY <1>0, SMT DEF PersistFails, Run
  <2>8. CloseAll => Kept
    BY SMT DEF CloseAll, Idle
  <2> HIDE DEF Kept
  <2>9. Kept
    BY <1>7, <2>1, <2>2, <2>3, <2>5, <2>6, <2>7, <2>8, <2>10 DEF RunAlone
  <2> QED BY <1>7, <2>9 DEF Whose, Kept
<1>8. Flush \/ FlushFails => UNCHANGED run
  BY DEF Flush, FlushFails, runVars
<1> QED BY <1>1, <1>2, <1>3, <1>5, <1>6, <1>7, <1>8, Kinds DEF runVars

\* The coordinator counts each handoff and its result once, and what its results
\* name is in the buffer or stored.
LEMMA BooksStep == ASSUME TeamInv, TeamNext PROVE Books' /\ ReportIsStored'
<1> USE DEF TeamInv
<1>0. run \in Run /\ job \in Job
  BY DEF RunTypeOK, JobTypeOK
<1>1. /\ job.sync \in Nat /\ job.async \in Nat /\ job.asked \in Nat /\ job.told \in Nat
      /\ job.named \in SUBSET Proposals /\ job.buffer \in SUBSET Proposals
      /\ run.proposal \in Proposals \cup {NoRevision} /\ NoRevision \notin Proposals
  BY <1>0, JobConstantsOK, ConstantsOK, SMT DEF Job, Run
<1>2. /\ Existing \subseteq Existing'
      /\ ~Flush => \A p \in Proposals \cap Existing' : p \in Existing \/ (Persist /\ p = run.proposal)
      /\ Flush => Existing' \cap Proposals = (Existing \cap Proposals) \cup job.buffer
  <2>1. Flush => ~Persist
    BY DEF Flush, Persist, Whose
  <2> QED BY <2>1, Stored
<1>3. CASE UNCHANGED job
  <2>1. job.buffer \cap Existing' = {}
    <3>1. CASE Flush
      BY <1>0, <1>3, <3>1, SMT DEF Flush, Job
    <3>2. CASE ~Flush
      BY <1>1, <1>2, <3>2 DEF ReportIsStored, Persist, Proposing
    <3> QED BY <3>1, <3>2
  <2> QED BY <1>2, <1>3, <2>1 DEF Books, ReportIsStored
<1>4. CASE (StartJob \/ Stop \/ DecideFails \/ StepEnds \/ NextStep \/ OnStepFails) /\ UNCHANGED vars
  <2> DEFINE Kept == /\ job'.sync = job.sync /\ job'.async = job.async /\ job'.asked = job.asked
                     /\ job'.told = job.told /\ job'.named = job.named /\ job'.buffer = job.buffer
                     /\ job.pc # "thrown"
                     /\ job'.pc \in {"decide", "flush", "reported", "thrown"}
                     /\ job.pc = "dispatch" => job.sync = 0 /\ job.async = 0 /\ job'.pc = "flush"
                     /\ job'.pc # "flush" => job.pc \in {"off", "decide", "after"}
  <2>1. StartJob => Kept
    BY <1>0, SMT DEF StartJob, Job
  <2>2. Stop \/ DecideFails \/ StepEnds \/ OnStepFails => Kept
    BY <1>0, SMT DEF Stop, DecideFails, StepEnds, OnStepFails, Job
  <2>3. NextStep => Kept
    BY <1>0, SMT DEF NextStep, Job
  <2>4. Existing' = Existing
    BY <1>4 DEF vars, Existing
  <2> HIDE DEF Kept
  <2>5. Kept
    BY <1>4, <2>1, <2>2, <2>3
  <2>6. Books'
    BY <2>5 DEF Kept, Books
  <2>7. ReportIsStored'
    BY <1>1, <2>4, <2>5, SMT DEF Kept, Books, ReportIsStored
  <2> QED BY <2>6, <2>7
<1>5. ASSUME NEW sync \in 0 .. MaxHandoffs, NEW async \in 0 .. MaxHandoffs, NEW final,
             Decide(sync, async, final), UNCHANGED vars
      PROVE  Books' /\ ReportIsStored'
  <2>1. /\ job'.sync = sync /\ job'.async = async /\ job'.asked = job.asked + sync + async
        /\ job'.told = job.told /\ job'.named = job.named /\ job'.buffer = job.buffer
        /\ job.pc = "decide" /\ job'.pc = "dispatch"
    BY <1>0, <1>5, SMT DEF Decide, Job
  <2>2. Existing' = Existing
    BY <1>5 DEF vars, Existing
  <2>3. job.sync = 0 /\ job.async = 0
    BY <2>1 DEF Books
  <2>4. job'.told + job'.sync + job'.async = job'.asked
    BY <1>1, <2>1, <2>3, JobConstantsOK, SMT DEF Books
  <2> QED BY <2>1, <2>2, <2>4 DEF Books, ReportIsStored
<1>6. CASE Collect
  <2> DEFINE new == {run.proposal} \ {NoRevision}
  <2>1. /\ job'.sync = job.sync - 1 /\ job'.async = job.async /\ job'.asked = job.asked
        /\ job'.told = job.told + 1 /\ job'.named = job.named \cup new
        /\ job'.buffer = job.buffer \cup new /\ job.pc = "dispatch" /\ job'.pc = "dispatch"
    BY <1>0, <1>6, SMT DEF Collect, Job
  <2>2. Existing' = Existing
    BY <1>6 DEF Collect, vars, Existing
  <2>3. run.pc = "over" /\ ~run.persists
    BY <1>6 DEF Collect, Whose
  <2>4. new \cap Existing = {}
    BY <2>3 DEF Proposing
  <2>5. job'.told + job'.sync + job'.async = job'.asked
    BY <1>1, <2>1, SMT DEF Books
  <2> HIDE DEF new
  <2>6. Books'
    BY <2>1, <2>5 DEF Books
  <2>7. job'.buffer \cap Existing' = {} /\ job'.named \subseteq job'.buffer \cup Existing'
    BY <2>1, <2>2, <2>4 DEF ReportIsStored
  <2> QED BY <2>1, <2>6, <2>7 DEF ReportIsStored
<1>7. CASE Enqueue /\ UNCHANGED vars
  <2>1. /\ job'.sync = job.sync /\ job'.async = job.async - 1 /\ job'.asked = job.asked
        /\ job'.told = job.told + 1 /\ job'.named = job.named
        /\ job'.buffer = job.buffer /\ job.pc = "dispatch" /\ job'.pc = "dispatch"
    BY <1>0, <1>7, SMT DEF Enqueue, Job
  <2>2. Existing' = Existing
    BY <1>7 DEF vars, Existing
  <2>3. job'.told + job'.sync + job'.async = job'.asked
    BY <1>1, <2>1, SMT DEF Books
  <2> QED BY <2>1, <2>2, <2>3 DEF Books, ReportIsStored
<1>8. CASE Flush
  <2>1. /\ job'.sync = job.sync /\ job'.async = job.async /\ job'.asked = job.asked
        /\ job'.told = job.told /\ job'.named = job.named /\ job'.buffer = {}
        /\ job.pc = "flush" /\ job'.pc = "after"
    BY <1>0, <1>8, SMT DEF Flush, Job
  <2>2. job'.named \subseteq Existing'
    BY <1>1, <1>2, <1>8, <2>1 DEF ReportIsStored
  <2> QED BY <2>1, <2>2 DEF Books, ReportIsStored
<1>9. CASE FlushFails
  <2>1. /\ job'.sync = job.sync /\ job'.async = job.async /\ job'.asked = job.asked
        /\ job'.told = job.told /\ job'.named = job.named /\ job'.buffer = {}
        /\ job.pc = "flush" /\ job'.pc = "thrown"
    BY <1>0, <1>9, SMT DEF FlushFails, Job
  <2> QED BY <2>1 DEF Books, ReportIsStored
<1>10. Dispatch => UNCHANGED job
  BY DEF Dispatch
<1> QED BY <1>3, <1>4, <1>5, <1>6, <1>7, <1>8, <1>9, <1>10, Kinds DEF JobOnly

\* A message's uses are answered in their order, and what is recorded was called.
LEMMA AnsweringStep == ASSUME TeamInv, TeamNext PROVE Answering' /\ ToolUseIsAccountedFor'
<1> USE DEF TeamInv
<1>0. run \in Run /\ calls \in Seq(Call)
  BY DEF RunTypeOK
<1>1. /\ run.uses \in Seq(Tools) /\ run.answered \in Seq(Tools) /\ run.toolCalls \in Seq(Call)
      /\ run.next \in Nat /\ run.iteration \in 0 .. MaxIterations
  BY <1>0, SMT DEF Run
<1>2. CASE UNCHANGED <<run, calls>>
  BY <1>2 DEF Answering, ToolUseIsAccountedFor
<1>3. ASSUME run'.pc \in {"idle", "over"} PROVE Answering' /\ ToolUseIsAccountedFor'
  BY <1>3 DEF Answering, ToolUseIsAccountedFor
<1>4. ASSUME NEW persists, StartAny(persists) PROVE Answering' /\ ToolUseIsAccountedFor'
  <2>1. ASSUME NEW list \in SpecLists, Start(list, persists) PROVE Answering' /\ ToolUseIsAccountedFor'
    <3>1. /\ run'.pc \in {"connect", "model"} /\ run'.uses = << >> /\ run'.answered = << >>
          /\ run'.toolCalls = << >> /\ calls' = << >>
      BY <2>1, SMT DEF Start, Idle
    <3> QED BY <3>1 DEF Answering, ToolUseIsAccountedFor
  <2>2. CASE StartFails(persists)
    <3>1. run'.pc = "over"
      BY <2>2, SMT DEF StartFails, Idle
    <3> QED BY <1>3, <3>1
  <2> QED BY <1>4, <2>1, <2>2 DEF StartAny
<1>5. CASE Connect
  <2>1. /\ run.pc = "connect" /\ run'.pc \in {"connect", "model"} /\ run'.uses = run.uses
        /\ run'.answered = run.answered /\ run'.toolCalls = run.toolCalls /\ calls' = calls
    BY <1>0, <1>5, SMT DEF Connect, Run
  <2> QED BY <2>1 DEF Answering, ToolUseIsAccountedFor
<1>6. CASE ModelFails \/ Persist \/ PersistFails
  <2> DEFINE Kept == run.pc \in {"model", "persist"} /\ run'.pc = "close" /\ run'.toolCalls = run.toolCalls /\ calls' = calls
  <2>1. ModelFails \/ Persist => Kept
    BY <1>0, SMT DEF ModelFails, Persist, Goto, Run
  <2>2. PersistFails => Kept
    BY <1>0, SMT DEF PersistFails, Run
  <2> QED BY <1>6, <2>1, <2>2 DEF Answering, ToolUseIsAccountedFor
<1>7. ASSUME NEW uses \in Messages, UseTools(uses) PROVE Answering' /\ ToolUseIsAccountedFor'
  <2>1. /\ run'.pc = "tools" /\ run'.uses = uses /\ run'.next = 1 /\ run'.answered = << >>
        /\ run'.toolCalls = run.toolCalls /\ run'.iteration = run.iteration /\ calls' = calls
        /\ run.pc = "model" /\ run.iteration < MaxIterations
    BY <1>0, <1>7, SMT DEF UseTools, Run
  <2>2. uses \in Seq(Tools) /\ Len(uses) >= 1
    BY MessageFacts
  <2>3. Len(uses) \in Nat /\ Len(<< >>) = 0
    BY <2>2, LenProperties, EmptySeq
  <2>4. run'.next \in 1 .. Len(run'.uses) /\ Len(run'.answered) = run'.next - 1 /\ 1 .. Len(run'.answered) = {}
    BY <2>1, <2>2, <2>3, SMT
  <2> QED BY <2>1, <2>4 DEF Answering, ToolUseIsAccountedFor
<1>8. ASSUME NEW recorded, run.pc = "tools", NextUse(<<Use>>, recorded), calls' = run.toolCalls \o recorded
      PROVE  Answering' /\ ToolUseIsAccountedFor'
  <2> DEFINE answered == run.answered \o <<Use>>
  <2>1. /\ run'.next = run.next + 1 /\ run'.uses = run.uses /\ run'.answered = answered
        /\ run'.toolCalls = run.toolCalls \o recorded
        /\ run'.pc = IF run.next < Len(run.uses) THEN "tools" ELSE "model"
        /\ run'.iteration = IF run.next < Len(run.uses) THEN run.iteration ELSE run.iteration + 1
    BY <1>0, <1>8, SMT DEF NextUse, Run
  <2>2. /\ answered \in Seq(Tools) /\ Len(answered) = run.next
        /\ \A i \in 1 .. run.next : answered[i] = run.uses[i]
    BY <1>8, UseFacts
  <2>3. run.next \in 1 .. Len(run.uses) /\ run.iteration < MaxIterations
    BY <1>8 DEF Answering
  <2>4. Len(run.uses) \in Nat
    BY <1>1, LenProperties
  <2> HIDE DEF answered
  <2>5. CASE run.next < Len(run.uses)
    <3>1. run'.next \in 1 .. Len(run'.uses) /\ Len(run'.answered) = run'.next - 1
      BY <1>1, <2>1, <2>2, <2>3, <2>4, <2>5, SMT
    <3> QED BY <1>8, <2>1, <2>2, <2>3, <2>5, <3>1 DEF Answering, ToolUseIsAccountedFor
  <2>6. CASE ~(run.next < Len(run.uses))
    <3>1. run.next = Len(run.uses)
      BY <2>3, <2>4, <2>6, SMT
    <3>2. answered = run.uses
      BY <1>1, <2>2, <3>1, SeqEqual
    <3> QED BY <1>8, <2>1, <2>6, <3>2 DEF Answering, ToolUseIsAccountedFor
  <2> QED BY <2>5, <2>6
<1>9. CASE UnknownTool \/ MalformedArguments
  <2>1. run.pc = "tools" /\ NextUse(<<Use>>, << >>) /\ calls' = calls
    BY <1>9 DEF UnknownTool, MalformedArguments
  <2>2. calls' = run.toolCalls \o << >>
    BY <1>1, <2>1, ConcatEmptySeq DEF Answering
  <2> QED BY <1>8, <2>1, <2>2
<1>10. ASSUME NEW succeeded \in BOOLEAN, CallTool(succeeded) PROVE Answering' /\ ToolUseIsAccountedFor'
  <2> DEFINE call == [tool |-> Use, server |-> Resolve(Use), succeeded |-> succeeded]
  <2>1. run.pc = "tools" /\ NextUse(<<Use>>, <<call>>) /\ calls' = Append(calls, call)
    BY <1>10 DEF CallTool
  <2>2. calls' = calls \o <<call>>
    BY <1>10, <2>1, CallFacts DEF CallTool
  <2>3. run.toolCalls = calls
    BY <2>1 DEF Answering
  <2> QED BY <1>8, <2>1, <2>2, <2>3
<1>11. CASE Finish
  <2>1. /\ run.pc = "model" /\ run'.pc \in {"persist", "close"} /\ run'.uses = run.uses
        /\ run'.answered = run.answered /\ run'.toolCalls = run.toolCalls /\ calls' = calls
    BY <1>0, <1>11, SMT DEF Finish, Run
  <2> QED BY <2>1 DEF Answering, ToolUseIsAccountedFor
<1>12. CASE ConnectFails
  <2>1. run'.pc = "over"
    BY <1>0, <1>12, SMT DEF ConnectFails, Goto, Run
  <2> QED BY <1>3, <2>1
<1>13. CASE CloseAll \/ Respond \/ Collect
  <2>1. CloseAll => run'.pc = "over"
    BY SMT DEF CloseAll, Idle
  <2>2. Respond \/ Collect => run'.pc = "idle"
    BY DEF Respond, Collect, Idle
  <2> QED BY <1>3, <1>13, <2>1, <2>2
<1> QED
  BY <1>2, <1>4, <1>5, <1>6, <1>7, <1>9, <1>10, <1>11, <1>12, <1>13, Kinds
  DEF RunAlone, Invoke, Dispatch, Flush, FlushFails, runVars

\* Servers come up in a run, and are closed at its end.
LEMMA ServersStep == ASSUME TeamInv, TeamNext PROVE NoStray' /\ ServersEndWithTheRun'
<1> USE DEF TeamInv
<1>0. run \in Run /\ server \in [Servers -> Transport]
  BY DEF RunTypeOK, Transport
<1>1. CASE UNCHANGED <<run, server>>
  BY <1>1 DEF NoStray, ServersEndWithTheRun
<1>2. ASSUME NEW persists, StartAny(persists) PROVE NoStray' /\ ServersEndWithTheRun'
  <2>1. server' = [s \in Servers |-> "off"]
    BY <1>2 DEF StartAny, Start, StartFails
  <2> QED BY <2>1 DEF NoStray, ServersEndWithTheRun
<1>3. CASE Connect
  <2>1. run.pc = "connect" /\ run'.pc \in {"connect", "model"}
    BY <1>0, <1>3, SMT DEF Connect, Run
  <2>2. \A s \in Servers : server'[s] # "stray"
    BY <1>0, <1>3, <2>1 DEF Connect, NoStray
  <2> QED BY <2>1, <2>2 DEF NoStray, ServersEndWithTheRun
<1>4. \A s \in Servers : Closed[s] # "up" /\ (server[s] # "stray" => Closed[s] # "stray")
  BY DEF Closed
<1>5. CASE ConnectFails
  <2>1. run.pc = "connect" /\ run'.pc = "over" /\ run'.proposal = NoRevision
    <3>1. run.pc = "connect" /\ run'.pc = "over" /\ run'.proposal = run.proposal
      BY <1>0, <1>5, SMT DEF ConnectFails, Goto, Run
    <3> QED BY <3>1 DEF Proposing
  <2>2. PICK left \in {"closed", "stray"} : server' = [Closed EXCEPT ![Joining] = left]
    BY <1>5 DEF ConnectFails
  <2>3. \A s \in Servers : server[s] # "stray"
    BY <2>1 DEF NoStray
  <2>4. \A s \in Servers : server'[s] = IF s = Joining THEN left ELSE Closed[s]
    BY <2>2 DEF Closed
  <2> QED BY <1>4, <2>1, <2>3, <2>4 DEF NoStray, ServersEndWithTheRun
<1>6. CASE CloseAll
  <2>1. run.pc = "close" /\ run'.pc = "over" /\ server' = Closed
    BY <1>6, SMT DEF CloseAll, Idle
  <2>2. \A s \in Servers : server'[s] # "up" /\ server'[s] # "stray"
    BY <1>4, <2>1 DEF NoStray
  <2> QED BY <2>1, <2>2 DEF NoStray, ServersEndWithTheRun
<1>7. CASE Respond \/ Collect
  <2>1. run.pc = "over" /\ run'.pc = "idle" /\ run'.proposal = NoRevision /\ server' = server
    BY <1>7 DEF Respond, Collect, Idle
  <2> QED BY <2>1 DEF NoStray, ServersEndWithTheRun
<1>8. ASSUME run.pc \notin {"idle", "over"}, run'.pc \notin {"idle", "over"}, server' = server
      PROVE  NoStray' /\ ServersEndWithTheRun'
  BY <1>8 DEF NoStray, ServersEndWithTheRun
<1>9. CASE ModelFails \/ Persist \/ PersistFails \/ Finish
  <2> DEFINE Goes == run.pc \notin {"idle", "over"} /\ run'.pc \notin {"idle", "over"} /\ server' = server
  <2>1. ModelFails \/ Persist => Goes
    BY <1>0, SMT DEF ModelFails, Persist, Goto, Run
  <2>2. PersistFails => Goes
    BY <1>0, SMT DEF PersistFails, Run
  <2>3. Finish => Goes
    BY <1>0, SMT DEF Finish, Run
  <2> QED BY <1>8, <1>9, <2>1, <2>2, <2>3
<1>10. ASSUME NEW uses, UseTools(uses) PROVE NoStray' /\ ServersEndWithTheRun'
  <2>1. run.pc = "model" /\ run'.pc = "tools" /\ server' = server
    BY <1>0, <1>10, SMT DEF UseTools, Run
  <2> QED BY <1>8, <2>1
<1>11. ASSUME NEW answer, NEW recorded, run.pc = "tools", NextUse(answer, recorded), server' = server
       PROVE  NoStray' /\ ServersEndWithTheRun'
  <2>1. run'.pc \in {"tools", "model"}
    BY <1>0, <1>11, SMT DEF NextUse, Run
  <2> QED BY <1>8, <1>11, <2>1
<1>12. CASE UnknownTool \/ MalformedArguments \/ \E succeeded \in BOOLEAN : CallTool(succeeded)
  BY <1>11, <1>12 DEF UnknownTool, MalformedArguments, CallTool
<1> QED
  BY <1>1, <1>2, <1>3, <1>5, <1>6, <1>7, <1>9, <1>10, <1>12, Kinds
  DEF RunAlone, Invoke, Dispatch, Flush, FlushFails, runVars

-----------------------------------------------------------------------------
(* The theorems.                                                           *)

LEMMA TeamInitInv == TeamInit => TeamInv
<1> SUFFICES ASSUME TeamInit PROVE TeamInv
  OBVIOUS
<1>1. IInv
  BY InitIInv DEF TeamInit
<1>2. Existing = {}
  BY DEF TeamInit, Init, Existing
<1>3. RunTypeOK
  <2>1. 0 \in 0 .. MaxOutages /\ << >> \in Seq(Call)
    BY RunConstantsOK, EmptySeq, SMT
  <2> QED BY <2>1, IdleIsRun DEF TeamInit, RunInit, RunTypeOK
<1>4. JobTypeOK
  <2>1. 0 \in 0 .. MaxHandoffs /\ 0 \in Nat
    BY JobConstantsOK, SMT
  <2> QED BY <2>1 DEF TeamInit, NoJob, JobTypeOK, Job
<1>5. /\ run.pc = "idle" /\ run.proposal = NoRevision /\ made = {}
      /\ \A s \in Servers : server[s] = "off"
  BY DEF TeamInit, RunInit, Idle
<1>6. /\ job.pc = "off" /\ job.sync = 0 /\ job.async = 0 /\ job.asked = 0 /\ job.told = 0
      /\ job.named = {} /\ job.buffer = {}
  BY DEF TeamInit, NoJob
<1>7. Proposing /\ Whose /\ Answering /\ NoStray
  BY <1>2, <1>5, <1>6 DEF Proposing, Whose, Answering, NoStray
<1>8. Books
  BY <1>6, SMT DEF Books
<1>9. ToolUseIsAccountedFor /\ ServersEndWithTheRun /\ ReportIsStored
  BY <1>2, <1>5, <1>6 DEF ToolUseIsAccountedFor, ServersEndWithTheRun, ReportIsStored
<1> QED BY <1>1, <1>3, <1>4, <1>7, <1>8, <1>9 DEF TeamInv

\* The steps of all of them keep the invariant.
LEMMA TeamNextInv == TeamInv /\ [TeamNext]_allVars => TeamInv'
<1> SUFFICES ASSUME TeamInv, [TeamNext]_allVars PROVE TeamInv'
  OBVIOUS
<1>1. IInv'
  BY StepsReview, NextIInv DEF TeamInv
<1>2. CASE TeamNext
  BY <1>1, <1>2, RunTypeStep, JobTypeStep, ProposingStep, WhoseStep, BooksStep, AnsweringStep, ServersStep
  DEF TeamInv
<1>3. CASE UNCHANGED allVars
  <2>1. UNCHANGED <<run, server, made, calls, outages, job>> /\ Existing' = Existing
    BY <1>3 DEF allVars, runVars, vars, Existing
  <2>2. RunTypeOK' /\ JobTypeOK' /\ Whose' /\ Books' /\ Answering' /\ NoStray'
    BY <2>1 DEF TeamInv, RunTypeOK, JobTypeOK, Whose, Books, Answering, NoStray
  <2>3. Proposing' /\ ToolUseIsAccountedFor' /\ ServersEndWithTheRun' /\ ReportIsStored'
    BY <2>1 DEF TeamInv, Proposing, Fresh, ToolUseIsAccountedFor, ServersEndWithTheRun, ReportIsStored
  <2> QED BY <1>1, <2>2, <2>3 DEF TeamInv
<1> QED BY <1>2, <1>3

\* The invariant of the runs, the coordinator and the reviews.
THEOREM TeamInvariance == TeamSpec => []TeamInv
BY TeamInitInv, TeamNextInv, PTL DEF TeamSpec

\* Agents and their coordinator, whenever they save and whatever fails, do nothing to
\* the revisions that the review's own specification does not allow: each batch that
\* they save is one it could have been given, all of it new.
THEOREM TeamImplementsReview == TeamSpec => Spec
<1>1. TeamInit => Init
  BY DEF TeamInit
<1>2. TeamInv /\ [TeamNext]_allVars => [Next]_vars
  BY StepsReview
<1> QED BY <1>1, <1>2, TeamInvariance, PTL DEF TeamSpec, Spec

\* Runs, servers, ids and the coordinator's books have their types: indices stay in
\* the lists they index, and counts of handoffs never drop below zero.
THEOREM TeamTypes == TeamSpec => [](RunTypeOK /\ JobTypeOK)
<1>1. TeamInv => RunTypeOK /\ JobTypeOK
  BY DEF TeamInv
<1> QED BY <1>1, TeamInvariance, PTL

\* Every tool use of a message is answered, in its order, before the model is asked
\* again, and a proposal's provenance has the calls that the servers got.
THEOREM ToolUses == TeamSpec => []ToolUseIsAccountedFor
<1>1. TeamInv => ToolUseIsAccountedFor
  BY DEF TeamInv
<1> QED BY <1>1, TeamInvariance, PTL

\* No server outlives its run, except one whose tools could not be listed.
THEOREM ServersEnd == TeamSpec => []ServersEndWithTheRun
<1>1. TeamInv => ServersEndWithTheRun
  BY DEF TeamInv
<1> QED BY <1>1, TeamInvariance, PTL

\* What a coordinator reports is stored, once, unless the loop has thrown.
THEOREM Reports == TeamSpec => []ReportIsStored
<1>1. TeamInv => ReportIsStored
  BY DEF TeamInv
<1> QED BY <1>1, TeamInvariance, PTL

\* While agents propose, the chains of the revisions have an entry for each answered
\* decision and no other, ...
THEOREM TeamChains == TeamSpec => []ChainIsWhole
BY TeamImplementsReview, ChainsAreWhole, PTL

\* ... and a decision is overturned only by one that began before it was committed.
THEOREM TeamRaces == TeamSpec => []OverturnedOnlyByRace
BY TeamImplementsReview, OnlyRacesOverturn, PTL

=============================================================================
