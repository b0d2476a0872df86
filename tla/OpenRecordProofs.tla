--------------------------- MODULE OpenRecordProofs ---------------------------
(***************************************************************************)
(* First what the publish routes guarantee of the log for any number of    *)
(* publishers, principals and keys: an invariant in two halves that do not *)
(* meet, the order of sequence numbers, commits and reads (Order), and who *)
(* may store a principal's first key (Held, Verified, Stored).             *)
(*                                                                         *)
(* Then what is said of published records: readers leave the log as        *)
(* MerkleLog has it, and what they find of a record - its row, and the     *)
(* stored key of its signer - does not change any more once the record is  *)
(* there (Fetches), nor does, therefore, a verdict (Verdicts).  A feed is  *)
(* current since what a record names was stamped before it (Stamps), and   *)
(* a SELECT cuts rows off for newer ones only (Reading).                   *)
(***************************************************************************)
EXTENDS OpenRecord, TLAPS, FiniteSetTheorems

-----------------------------------------------------------------------------
(* The log.                                                                *)

\* The requests whose row has its sequence number and is not rolled back.
Numbered == {p \in Publishers : pub[p].pc \in {"inserted", "checked", "committed"}}

\* Those whose signature was accepted and whose transaction did not fail.
Accepted == {p \in Publishers : pub[p].pc \in {"valid", "tx", "inserted", "checked", "committed"}}

InTx == {p \in Publishers : pub[p].pc \in {"tx", "inserted", "checked"}}

\* Sequence numbers are handed out once.
Distinct ==
    /\ \A p \in Numbered : pub[p].seq < nextSeq
    /\ \A p, q \in Numbered : pub[p].seq = pub[q].seq => p = q

\* What a request saw is still there, and a document's request points to the
\* last of it, which is older than its own row.
Order ==
    /\ \A p \in Publishers : pub[p].seen \subseteq Rows
    /\ \A p \in Publishers : Request[p].route = "latest" =>
          /\ pub[p].prev \in Rows \cup {NoRow}
          /\ p \in Numbered /\ pub[p].prev # NoRow => pub[pub[p].prev].seq < pub[p].seq
          /\ \A r \in pub[p].seen : pub[p].prev # NoRow /\ pub[r].seq <= pub[pub[p].prev].seq

\* A request that holds a principal's row is the one to store its key.
Held ==
    \A s \in Signers : lock[s] # NoRow =>
        /\ lock[s] \in InTx /\ Signer(lock[s]) = s /\ pub[lock[s]].persist # NoKey
        /\ stored[s] = NoKey

\* An accepted request was verified with the key that is stored, or with the one
\* it sent when there was none, and then no row of its signer.
Verified ==
    \A p \in Accepted :
        /\ pub[p].persist = NoKey => stored[Signer(p)] = Request[p].signs
        /\ pub[p].persist # NoKey => /\ pub[p].persist = Request[p].signs
                                     /\ \A q \in pub[p].seen : Signer(q) # Signer(p)

\* Every row's signer has a stored key, which a row of its was signed with.
Stored ==
    /\ \A p \in InTx : pub[p].persist # NoKey => lock[Signer(p)] = p \/ stored[Signer(p)] # NoKey
    /\ \A p \in Rows : stored[Signer(p)] # NoKey
    /\ \A s \in Signers : stored[s] # NoKey =>
          \E q \in Rows : Signer(q) = s /\ Request[q].signs = stored[s]

IInv == TypeOK /\ Distinct /\ Order /\ Held /\ Verified /\ Stored

-----------------------------------------------------------------------------
(* What a step of p leaves alone, and what it does to p.                   *)

\* The empty log, with no key stored.
LEMMA InitIInv == Init => IInv
<1> SUFFICES ASSUME Init PROVE IInv
  OBVIOUS
<1>1. \A p \in Publishers : pub[p].pc = "start" /\ pub[p].prev = NoRow /\ pub[p].seen = {}
  BY SMT DEF Init
<1>2. TypeOK
  <2>1. [pc |-> "start", prev |-> NoRow, seq |-> 0, persist |-> NoKey, seen |-> {}] \in Publisher
    BY SMT DEF Publisher
  <2> QED BY <2>1, SMT DEF TypeOK, Init
<1>3. Distinct /\ Verified
  BY <1>1, SMT DEF Distinct, Verified, Numbered, Accepted
<1>4. Order
  BY <1>1, SMT DEF Order, Numbered
<1>5. Held /\ Stored
  BY <1>1, SMT DEF Held, Stored, InTx, Rows, Init
<1> QED BY <1>2, <1>3, <1>4, <1>5 DEF IInv

\* The shape all steps of p have.
LEMMA Effect ==
    ASSUME TypeOK, NEW p \in Publishers, Publish(p)
    PROVE  /\ pub' \in [Publishers -> Publisher]
           /\ \A q \in Publishers \ {p} : pub'[q] = pub[q]
           /\ pub[p].pc # "committed"
           /\ pub[p].pc # "start" => pub'[p].prev = pub[p].prev /\ pub'[p].seen = pub[p].seen
           /\ pub[p].pc # "start" => pub'[p].pc # "start"
           /\ pub[p].pc \notin {"start", "tx"} => pub'[p].seq = pub[p].seq
           /\ pub[p].pc \notin {"start", "prev"} => pub'[p].persist = pub[p].persist
           /\ nextSeq' \in Nat /\ nextSeq' >= nextSeq
<1>1. pub \in [Publishers -> Publisher] /\ nextSeq \in Nat
  BY DEF TypeOK
<1>2. Rows \subseteq Publishers
  BY DEF Rows
<1>3. Submitted(p) \in Keys \cup {NoKey}
  BY ConstantsOK, SMT DEF Submitted
<1>4. CASE ReadPrev(p)
  <2>1. PICK r \in Publishers \cup {NoRow} :
           pub' = [pub EXCEPT ![p] = [pc |-> "prev", prev |-> r, seq |-> 0,
                                      persist |-> NoKey, seen |-> Rows]]
    BY <1>4 DEF ReadPrev
  <2>2. [pc |-> "prev", prev |-> r, seq |-> 0, persist |-> NoKey, seen |-> Rows] \in Publisher
    BY <1>2, SMT DEF Publisher
  <2>3. pub[p].pc = "start" /\ nextSeq' = nextSeq
    BY <1>4 DEF ReadPrev
  <2> QED BY <1>1, <2>1, <2>2, <2>3, SMT
<1>5. CASE ReadKey(p)
  BY <1>1, <1>3, <1>5, SMT DEF ReadKey, Publisher
<1>6. CASE Begin(p)
  BY <1>1, <1>6, SMT DEF Begin, Publisher
<1>7. CASE Insert(p)
  BY <1>1, <1>7, SMT DEF Insert, Publisher
<1>8. CASE CheckPrev(p)
  BY <1>1, <1>8, SMT DEF CheckPrev, Publisher
<1>9. CASE Commit(p)
  BY <1>1, <1>9, SMT DEF Commit, Publisher
<1>10. CASE Fail(p)
  BY <1>1, <1>10, SMT DEF Fail, Publisher
<1> QED BY <1>4, <1>5, <1>6, <1>7, <1>8, <1>9, <1>10 DEF Publish

\* A row, once there, stays and does not change.
LEMMA RowsGrow ==
    ASSUME TypeOK, NEW p \in Publishers, Publish(p)
    PROVE  /\ Rows \subseteq Rows' /\ Rows' \subseteq Rows \cup {p} /\ p \notin Rows
           /\ \A q \in Rows : pub'[q] = pub[q]
           /\ pub'[p].pc = "committed" => pub[p].pc = "checked" /\ Commit(p)
<1>1. \A q \in Publishers \ {p} : pub'[q] = pub[q]
  BY Effect
<1>2. pub[p].pc # "committed"
  BY Effect
<1>3. Rows \subseteq Rows' /\ Rows' \subseteq Rows \cup {p} /\ p \notin Rows
  BY <1>1, <1>2, SMT DEF Rows
<1>4. \A q \in Rows : pub'[q] = pub[q]
  BY <1>1, <1>3, SMT DEF Rows
<1>5. pub'[p].pc = "committed" => pub[p].pc = "checked" /\ Commit(p)
  <2>1. pub \in [Publishers -> Publisher]
    BY DEF TypeOK
  <2>2. ReadPrev(p) \/ ReadKey(p) \/ Begin(p) \/ Insert(p) \/ CheckPrev(p) \/ Fail(p)
          => pub'[p].pc # "committed"
    BY <2>1, SMT DEF ReadPrev, ReadKey, Begin, Insert, CheckPrev, Fail, Publisher
  <2>3. Commit(p) => pub[p].pc = "checked"
    BY DEF Commit
  <2> QED BY <2>2, <2>3 DEF Publish
<1> QED BY <1>3, <1>4, <1>5

-----------------------------------------------------------------------------
(* Types.                                                                  *)

\* A statement of a publish route keeps the types.
LEMMA TypeStep ==
    ASSUME TypeOK, NEW p \in Publishers, Publish(p)
    PROVE  TypeOK'
<1>1. pub' \in [Publishers -> Publisher] /\ nextSeq' \in Nat
  BY Effect
<1>2. Unlocked(p) \in [Signers -> Publishers \cup {NoRow}]
  BY SMT DEF Unlocked, TypeOK
<1>3. lock' \in [Signers -> Publishers \cup {NoRow}]
  <2>1. CASE Begin(p)
    BY <2>1, SMT DEF Begin, TypeOK
  <2>2. CASE Commit(p) \/ Fail(p)
    BY <1>2, <2>2 DEF Commit, Fail
  <2>3. CASE ReadPrev(p) \/ ReadKey(p) \/ Insert(p) \/ CheckPrev(p)
    BY <2>3, SMT DEF ReadPrev, ReadKey, Insert, CheckPrev, TypeOK
  <2> QED BY <2>1, <2>2, <2>3 DEF Publish
<1>4. stored' \in [Signers -> Keys \cup {NoKey}]
  <2>1. CASE Commit(p)
    <3>1. pub[p].persist \in Keys \cup {NoKey}
      BY SMT DEF TypeOK, Publisher
    <3> QED BY <2>1, <3>1, SMT DEF Commit, TypeOK
  <2>2. CASE ReadPrev(p) \/ ReadKey(p) \/ Begin(p) \/ Insert(p) \/ CheckPrev(p) \/ Fail(p)
    BY <2>2, SMT DEF ReadPrev, ReadKey, Begin, Insert, CheckPrev, Fail, TypeOK
  <2> QED BY <2>1, <2>2 DEF Publish
<1> QED BY <1>1, <1>3, <1>4 DEF TypeOK

-----------------------------------------------------------------------------
(* Sequence numbers.                                                       *)

\* A request gets its sequence number by its INSERT and from the counter.
LEMMA NumberedGrow ==
    ASSUME TypeOK, NEW p \in Publishers, Publish(p)
    PROVE  /\ Numbered' \subseteq Numbered \cup {p}
           /\ p \in Numbered' =>
                 \/ p \in Numbered /\ pub'[p].seq = pub[p].seq
                 \/ p \notin Numbered /\ pub'[p].seq = nextSeq /\ nextSeq' = nextSeq + 1
<1>1. \A q \in Publishers \ {p} : pub'[q] = pub[q]
  BY Effect
<1>2. pub \in [Publishers -> Publisher]
  BY DEF TypeOK
<1>3. Numbered' \subseteq Numbered \cup {p}
  BY <1>1, SMT DEF Numbered
<1>4. ASSUME p \in Numbered'
      PROVE  \/ p \in Numbered /\ pub'[p].seq = pub[p].seq
             \/ p \notin Numbered /\ pub'[p].seq = nextSeq /\ nextSeq' = nextSeq + 1
  <2>1. CASE Insert(p)
    BY <1>2, <2>1, SMT DEF Insert, Numbered, Publisher
  <2>2. CASE CheckPrev(p) \/ Commit(p)
    BY <1>2, <2>2, SMT DEF CheckPrev, Commit, Numbered, Publisher
  <2>3. CASE ReadPrev(p) \/ ReadKey(p) \/ Begin(p) \/ Fail(p)
    BY <1>2, <1>4, <2>3, SMT DEF ReadPrev, ReadKey, Begin, Fail, Numbered, Publisher
  <2> QED BY <2>1, <2>2, <2>3 DEF Publish
<1> QED BY <1>3, <1>4

\* The counter is never handed out twice.
LEMMA DistinctStep ==
    ASSUME TypeOK, Distinct, NEW p \in Publishers, Publish(p)
    PROVE  Distinct'
<1>1. \A q \in Publishers : pub[q].seq \in Nat /\ pub'[q].seq \in Nat
  BY Effect, SMT DEF TypeOK, Publisher
<1>2. nextSeq \in Nat /\ nextSeq' \in Nat /\ nextSeq' >= nextSeq
  BY Effect DEF TypeOK
<1>3. \A q \in Numbered' \ {p} : q \in Numbered /\ pub'[q].seq = pub[q].seq
  BY Effect, NumberedGrow, SMT DEF Numbered
<1>4. p \in Numbered' => \/ p \in Numbered /\ pub'[p].seq = pub[p].seq
                         \/ p \notin Numbered /\ pub'[p].seq = nextSeq /\ nextSeq' = nextSeq + 1
  BY NumberedGrow
<1>5. Numbered' \subseteq Publishers
  BY DEF Numbered
<1>6. \A q \in Numbered' : pub'[q].seq < nextSeq'
  BY <1>1, <1>2, <1>3, <1>4, <1>5, SMT DEF Distinct
<1>7. ASSUME NEW q \in Numbered', NEW r \in Numbered', pub'[q].seq = pub'[r].seq
      PROVE  q = r
  <2>1. CASE p \notin Numbered /\ p \in Numbered'
    <3>1. \A x \in Numbered' \ {p} : pub'[x].seq < pub'[p].seq
      BY <1>1, <1>2, <1>3, <1>4, <1>5, <2>1, SMT DEF Distinct
    <3>2. CASE q = p \/ r = p
      BY <1>1, <1>5, <1>7, <3>1, <3>2, SMT
    <3>3. CASE q # p /\ r # p
      BY <1>3, <1>7, <3>3, SMT DEF Distinct
    <3> QED BY <3>2, <3>3
  <2>2. CASE ~(p \notin Numbered /\ p \in Numbered')
    <3>1. q \in Numbered /\ r \in Numbered /\ pub[q].seq = pub'[q].seq /\ pub[r].seq = pub'[r].seq
      BY <1>3, <1>4, <2>2, SMT
    <3> QED BY <1>7, <3>1, SMT DEF Distinct
  <2> QED BY <2>1, <2>2
<1> QED BY <1>6, <1>7 DEF Distinct

\* A document's request links to what was committed before its read, and its
\* own number is later than that.
LEMMA OrderStep ==
    ASSUME TypeOK, Distinct, Order, NEW p \in Publishers, Publish(p)
    PROVE  Order'
<1>1. /\ Rows \subseteq Rows' /\ p \notin Rows /\ Rows \subseteq Publishers
      /\ \A q \in Rows : pub'[q] = pub[q]
  BY RowsGrow DEF Rows
<1>2. \A q \in Publishers \ {p} : pub'[q] = pub[q]
  BY Effect
<1>3. CASE ReadPrev(p)
  <2>1. /\ pub'[p].seen = Rows /\ p \notin Numbered'
        /\ Request[p].route = "latest" => IsLatest(pub'[p].prev)
    BY <1>3, SMT DEF ReadPrev, TypeOK, Publisher, Numbered
  <2>2. \A q \in Publishers : pub'[q].seen \subseteq Rows'
    BY <1>1, <1>2, <2>1, SMT DEF Order
  <2>3. ASSUME Request[p].route = "latest"
        PROVE  /\ pub'[p].prev \in Rows' \cup {NoRow}
               /\ \A r \in pub'[p].seen : /\ pub'[p].prev # NoRow
                                          /\ pub'[r].seq <= pub'[pub'[p].prev].seq
    <3>1. IsLatest(pub'[p].prev)
      BY <2>1, <2>3
    <3>2. pub'[p].prev \in Rows \cup {NoRow}
      BY <3>1 DEF IsLatest
    <3>3. ASSUME NEW r \in Rows
          PROVE  pub'[p].prev \in Rows /\ pub[r].seq <= pub[pub'[p].prev].seq
      BY <3>1, <3>3 DEF IsLatest
    <3> QED BY <1>1, <2>1, <3>2, <3>3, ConstantsOK, SMT
  <2>4. ASSUME NEW q \in Publishers \ {p}, Request[q].route = "latest"
        PROVE  /\ pub'[q].prev \in Rows' \cup {NoRow}
               /\ q \in Numbered' /\ pub'[q].prev # NoRow => pub'[pub'[q].prev].seq < pub'[q].seq
               /\ \A r \in pub'[q].seen : /\ pub'[q].prev # NoRow
                                          /\ pub'[r].seq <= pub'[pub'[q].prev].seq
    <3>1. pub'[q] = pub[q] /\ (q \in Numbered' <=> q \in Numbered)
      BY <1>2 DEF Numbered
    <3>2. pub[q].seen \subseteq Rows /\ pub[q].prev \in Rows \cup {NoRow}
      BY <2>4 DEF Order
    <3> QED BY <1>1, <2>4, <3>1, <3>2, SMT DEF Order
  <2> QED BY <2>1, <2>2, <2>3, <2>4, Zenon DEF Order
<1>4. CASE ~ReadPrev(p)
  <2>0. pub[p].pc # "start"
    BY <1>4, SMT DEF Publish, ReadKey, Begin, Insert, CheckPrev, Commit, Fail
  <2>1. \A q \in Publishers : pub'[q].prev = pub[q].prev /\ pub'[q].seen = pub[q].seen
    BY <1>2, <2>0, Effect
  <2>2. \A q \in Publishers : pub'[q].seen \subseteq Rows'
    BY <1>1, <2>1, SMT DEF Order
  <2>3. ASSUME NEW q \in Publishers, Request[q].route = "latest"
        PROVE  /\ pub'[q].prev \in Rows' \cup {NoRow}
               /\ q \in Numbered' /\ pub'[q].prev # NoRow => pub'[pub'[q].prev].seq < pub'[q].seq
               /\ \A r \in pub'[q].seen : /\ pub'[q].prev # NoRow
                                          /\ pub'[r].seq <= pub'[pub'[q].prev].seq
    <3>1. pub[q].seen \subseteq Rows /\ pub[q].prev \in Rows \cup {NoRow}
      BY <2>3 DEF Order
    <3>2. \A r \in pub'[q].seen : /\ pub'[q].prev # NoRow
                                  /\ pub'[r].seq <= pub'[pub'[q].prev].seq
      BY <1>1, <2>1, <2>3, <3>1, SMT DEF Order
    <3>3. ASSUME q \in Numbered', pub'[q].prev # NoRow
          PROVE  pub'[pub'[q].prev].seq < pub'[q].seq
      <4>1. pub[q].prev \in Rows /\ pub'[pub[q].prev] = pub[pub[q].prev]
        BY <1>1, <2>1, <3>1, <3>3
      <4>2. CASE q \in Numbered /\ pub'[q].seq = pub[q].seq
        BY <2>1, <2>3, <3>3, <4>1, <4>2, SMT DEF Order
      <4>3. CASE ~(q \in Numbered /\ pub'[q].seq = pub[q].seq)
        <5>1. q = p /\ pub'[q].seq = nextSeq
          BY <1>2, <3>3, <4>3, NumberedGrow, SMT DEF Numbered
        <5>2. pub[q].prev \in Numbered
          BY <4>1 DEF Rows, Numbered
        <5> QED BY <2>1, <4>1, <5>1, <5>2, SMT DEF Distinct
      <4> QED BY <4>2, <4>3
    <3> QED BY <1>1, <2>1, <3>1, <3>2, <3>3, SMT
  <2> QED BY <2>2, <2>3, Zenon DEF Order
<1> QED BY <1>3, <1>4

-----------------------------------------------------------------------------
(* A principal's first key.                                                *)

\* A request has a signer.
LEMMA SignerType == \A p \in Publishers : Signer(p) \in Signers
BY ConstantsOK, SMT DEF Signer

\* Only one transaction at a time is about to store the first key of a signer.
LEMMA HeldStep ==
    ASSUME TypeOK, Held, NEW p \in Publishers, Publish(p)
    PROVE  Held'
<1> SUFFICES ASSUME NEW s \in Signers, lock'[s] # NoRow
             PROVE  /\ lock'[s] \in InTx' /\ Signer(lock'[s]) = s
                    /\ pub'[lock'[s]].persist # NoKey /\ stored'[s] = NoKey
  BY DEF Held, Signer
<1>1. \A q \in Publishers \ {p} : pub'[q] = pub[q] /\ (q \in InTx' <=> q \in InTx)
  BY Effect DEF InTx
<1>2. lock[s] # NoRow => /\ lock[s] \in InTx /\ Signer(lock[s]) = s
                         /\ pub[lock[s]].persist # NoKey /\ stored[s] = NoKey
  BY DEF Held
<1>3. InTx \subseteq Publishers
  BY DEF InTx
<1>4. pub \in [Publishers -> Publisher] /\ lock \in [Signers -> Publishers \cup {NoRow}]
  BY DEF TypeOK
<1>5. CASE ReadPrev(p) \/ ReadKey(p)
  <2>1. lock' = lock /\ stored' = stored /\ p \notin InTx
    BY <1>5, SMT DEF ReadPrev, ReadKey, InTx
  <2> QED BY <1>1, <1>2, <1>3, <2>1, SMT
<1>6. CASE Begin(p)
  <2>1. p \notin InTx /\ p \in InTx' /\ pub'[p].persist = pub[p].persist /\ stored' = stored
    BY <1>4, <1>6, SMT DEF Begin, InTx, Publisher
  <2>2. CASE lock' = lock
    BY <1>1, <1>2, <1>3, <2>1, <2>2, SMT
  <2>3. CASE lock' # lock
    <3>1. /\ pub[p].persist # NoKey /\ stored[Signer(p)] = NoKey
          /\ lock' = [lock EXCEPT ![Signer(p)] = p]
      BY <1>6, <2>3 DEF Begin
    <3>2. CASE s = Signer(p)
      BY <1>4, <2>1, <3>1, <3>2, SMT
    <3>3. CASE s # Signer(p)
      BY <1>1, <1>2, <1>3, <1>4, <2>1, <3>1, <3>3, SMT
    <3> QED BY <3>2, <3>3
  <2> QED BY <2>2, <2>3
<1>7. CASE Insert(p) \/ CheckPrev(p)
  <2>1. /\ lock' = lock /\ stored' = stored
        /\ p \in InTx /\ p \in InTx' /\ pub'[p].persist = pub[p].persist
    BY <1>4, <1>7, SMT DEF Insert, CheckPrev, InTx, Publisher
  <2> QED BY <1>1, <1>2, <1>3, <2>1, SMT
<1>8. CASE Commit(p) \/ Fail(p)
  <2>1. lock[s] # p /\ lock'[s] = lock[s]
    BY <1>4, <1>8, SMT DEF Commit, Fail, Unlocked
  <2>2. stored'[s] = stored[s]
    BY <1>8, <2>1, SMT DEF Commit, Fail
  <2> QED BY <1>1, <1>2, <1>3, <2>1, <2>2, SMT
<1> QED BY <1>5, <1>6, <1>7, <1>8 DEF Publish

\* A key that is stored stays, and only the holder of a principal's row stores one.
LEMMA StoredStays ==
    ASSUME TypeOK, Held, Verified, NEW p \in Publishers, Publish(p)
    PROVE  \A s \in Signers :
             /\ stored[s] # NoKey => stored'[s] = stored[s]
             /\ stored'[s] # stored[s] => /\ Commit(p) /\ lock[s] = p /\ Signer(p) = s
                                          /\ stored'[s] = Request[p].signs
<1> SUFFICES ASSUME NEW s \in Signers, stored'[s] # stored[s]
             PROVE  /\ stored[s] = NoKey /\ Commit(p) /\ lock[s] = p /\ Signer(p) = s
                    /\ stored'[s] = Request[p].signs
  OBVIOUS
<1>1. Commit(p)
  BY SMT DEF Publish, ReadPrev, ReadKey, Begin, Insert, CheckPrev, Fail
<1>2. lock[s] = p /\ stored'[s] = pub[p].persist
  BY <1>1, SMT DEF Commit
<1>3. lock[s] # NoRow
  BY <1>2, ConstantsOK
<1>4. Signer(p) = s /\ pub[p].persist # NoKey /\ stored[s] = NoKey
  BY <1>2, <1>3 DEF Held
<1>5. p \in Accepted
  BY <1>1 DEF Commit, Accepted
<1> QED BY <1>1, <1>2, <1>4, <1>5 DEF Verified

\* The key a request was verified with stays the stored one unless a first
\* publish of the same signer overtakes it.
LEMMA VerifiedStep ==
    ASSUME TypeOK, Order, Held, Verified, Stored, NEW p \in Publishers, Publish(p)
    PROVE  Verified'
<1> SUFFICES ASSUME NEW q \in Accepted'
             PROVE  /\ pub'[q].persist = NoKey => stored'[Signer(q)] = Request[q].signs
                    /\ pub'[q].persist # NoKey => /\ pub'[q].persist = Request[q].signs
                                                  /\ \A r \in pub'[q].seen : Signer(r) # Signer(q)
  BY DEF Verified, Signer
<1>0. q \in Publishers /\ Signer(q) \in Signers /\ Request[q].signs \in Keys
  BY SignerType, ConstantsOK, SMT DEF Accepted
<1>1. pub \in [Publishers -> Publisher]
  BY DEF TypeOK
<1>2. CASE q \in Accepted
  <2>1. pub'[q].persist = pub[q].persist /\ pub'[q].seen = pub[q].seen
    <3>1. q # p => pub'[q] = pub[q]
      BY <1>0, Effect
    <3>2. pub[q].pc \notin {"start", "prev"}
      BY <1>2 DEF Accepted
    <3> QED BY <3>1, <3>2, Effect
  <2>2. stored[Signer(q)] = Request[q].signs => stored'[Signer(q)] = Request[q].signs
    BY <1>0, StoredStays, ConstantsOK
  <2> QED BY <1>2, <2>1, <2>2 DEF Verified
<1>3. CASE q \notin Accepted
  <2>1. q = p
    BY <1>0, <1>3, Effect DEF Accepted
  <2>2. ReadKey(p)
    BY <1>1, <1>3, <2>1, SMT DEF Publish, ReadPrev, Begin, Insert, CheckPrev, Commit, Fail,
                              Accepted, Publisher
  <2>3. /\ Accepts(p) /\ stored' = stored /\ pub'[p].seen = pub[p].seen
        /\ pub'[p].persist = IF stored[Signer(p)] = NoKey THEN Submitted(p) ELSE NoKey
    BY <1>1, <2>1, <2>2, SMT DEF ReadKey, Accepted, Publisher
  <2>4. CASE stored[Signer(p)] = NoKey
    <3>1. pub'[p].persist = Request[p].signs /\ Request[p].signs # NoKey
      BY <1>0, <2>1, <2>3, <2>4, ConstantsOK DEF Accepts, VerifyKey
    <3>2. \A r \in pub[p].seen : Signer(r) # Signer(p)
      BY <1>0, <2>1, <2>4, SMT DEF Order, Stored
    <3> QED BY <2>1, <2>3, <3>1, <3>2
  <2>5. CASE stored[Signer(p)] # NoKey
    BY <2>1, <2>3, <2>5 DEF Accepts, VerifyKey
  <2> QED BY <2>4, <2>5
<1> QED BY <1>2, <1>3

\* A committed row's signer has a key, and one of its rows verifies with it.
LEMMA StoredStep ==
    ASSUME TypeOK, Held, Verified, Stored, NEW p \in Publishers, Publish(p)
    PROVE  Stored'
<1>1. pub \in [Publishers -> Publisher] /\ lock \in [Signers -> Publishers \cup {NoRow}]
  BY DEF TypeOK
<1>2. \A q \in Publishers \ {p} : pub'[q] = pub[q] /\ (q \in InTx' <=> q \in InTx)
  BY Effect DEF InTx
<1>3. ASSUME NEW q \in InTx', pub'[q].persist # NoKey
      PROVE  lock'[Signer(q)] = q \/ stored'[Signer(q)] # NoKey
  <2>0. q \in Publishers /\ Signer(q) \in Signers
    BY SignerType DEF InTx
  <2>1. stored[Signer(q)] # NoKey => stored'[Signer(q)] # NoKey
    BY <2>0, StoredStays
  <2>2. CASE q # p
    <3>1. lock[Signer(q)] = q \/ stored[Signer(q)] # NoKey
      BY <1>2, <1>3, <2>0, <2>2 DEF Stored
    <3>2. lock[Signer(q)] = q => lock'[Signer(q)] = q
      <4>1. CASE Begin(p)
        BY <1>1, <2>0, <2>2, <4>1, ConstantsOK, SMT DEF Begin
      <4>2. CASE Commit(p) \/ Fail(p)
        BY <2>0, <2>2, <4>2, SMT DEF Commit, Fail, Unlocked
      <4>3. CASE ReadPrev(p) \/ ReadKey(p) \/ Insert(p) \/ CheckPrev(p)
        BY <4>3 DEF ReadPrev, ReadKey, Insert, CheckPrev
      <4> QED BY <4>1, <4>2, <4>3 DEF Publish
    <3> QED BY <2>1, <3>1, <3>2
  <2>3. CASE q = p
    <3>1. Begin(p) \/ Insert(p) \/ CheckPrev(p)
      BY <1>1, <1>3, <2>3, SMT DEF Publish, ReadPrev, ReadKey, Commit, Fail, InTx, Publisher
    <3>2. pub'[p].persist = pub[p].persist
      BY <3>1, Effect DEF Begin, Insert, CheckPrev
    <3>3. CASE Begin(p)
      BY <1>1, <1>3, <2>0, <2>3, <3>2, <3>3, SMT DEF Begin
    <3>4. CASE Insert(p) \/ CheckPrev(p)
      BY <1>3, <2>1, <2>3, <3>2, <3>4 DEF Insert, CheckPrev, InTx, Stored
    <3> QED BY <3>1, <3>3, <3>4
  <2> QED BY <2>2, <2>3
<1>4. ASSUME NEW q \in Rows' PROVE stored'[Signer(q)] # NoKey
  <2>0. q \in Publishers /\ Signer(q) \in Signers
    BY SignerType DEF Rows
  <2>1. CASE q \in Rows
    BY <2>0, <2>1, StoredStays DEF Stored
  <2>2. CASE q \notin Rows
    <3>1. q = p /\ Commit(p)
      BY <2>2, RowsGrow DEF Rows
    <3>2. q \in InTx /\ q \in Accepted
      BY <3>1 DEF Commit, InTx, Accepted
    <3>3. CASE pub[q].persist = NoKey
      <4>1. stored[Signer(q)] = Request[q].signs /\ Request[q].signs \in Keys
        BY <2>0, <3>2, <3>3, ConstantsOK, SMT DEF Verified
      <4> QED BY <2>0, <4>1, StoredStays, ConstantsOK
    <3>4. CASE pub[q].persist # NoKey
      <4>1. lock[Signer(q)] = q \/ stored[Signer(q)] # NoKey
        BY <3>2, <3>4 DEF Stored
      <4>2. CASE lock[Signer(q)] = q
        BY <2>0, <3>1, <3>4, <4>2, SMT DEF Commit
      <4>3. CASE stored[Signer(q)] # NoKey
        BY <2>0, <4>3, StoredStays
      <4> QED BY <4>1, <4>2, <4>3
    <3> QED BY <3>3, <3>4
  <2> QED BY <2>1, <2>2
<1>5. ASSUME NEW s \in Signers, stored'[s] # NoKey
      PROVE  \E q \in Rows' : Signer(q) = s /\ Request[q].signs = stored'[s]
  <2>1. CASE stored'[s] = stored[s]
    BY <1>5, <2>1, RowsGrow DEF Stored
  <2>2. CASE stored'[s] # stored[s]
    <3>1. Commit(p) /\ Signer(p) = s /\ stored'[s] = Request[p].signs
      BY <2>2, StoredStays
    <3>2. p \in Rows'
      BY <1>1, <3>1, SMT DEF Commit, Rows
    <3> QED BY <3>1, <3>2
  <2> QED BY <2>1, <2>2
<1>6. \A q \in InTx' : pub'[q].persist # NoKey => lock'[Signer(q)] = q \/ stored'[Signer(q)] # NoKey
  BY <1>3
<1>7. \A q \in Rows' : stored'[Signer(q)] # NoKey
  BY <1>4
<1>8. \A s \in Signers : stored'[s] # NoKey =>
         \E q \in Rows' : Signer(q) = s /\ Request[q].signs = stored'[s]
  BY <1>5
<1> QED BY <1>6, <1>7, <1>8 DEF Stored, Signer

-----------------------------------------------------------------------------
LEMMA Invariance == Spec => []IInv
<1>1. IInv /\ [Next]_vars => IInv'
  <2> SUFFICES ASSUME IInv, [Next]_vars PROVE IInv'
    OBVIOUS
  <2>1. CASE Next
    <3>1. PICK p \in Publishers : Publish(p)
      BY <2>1 DEF Next
    <3>2. TypeOK' /\ Distinct' /\ Order' /\ Held' /\ Verified' /\ Stored'
      BY <3>1, TypeStep, DistinctStep, OrderStep, HeldStep, VerifiedStep, StoredStep DEF IInv
    <3> QED BY <3>2 DEF IInv
  <2>2. CASE UNCHANGED vars
    <3>1. pub' = pub /\ nextSeq' = nextSeq /\ stored' = stored /\ lock' = lock
      BY <2>2 DEF vars
    <3> QED BY <3>1 DEF IInv, TypeOK, Distinct, Order, Held, Verified, Stored, Rows, Numbered,
                         Accepted, InTx, Signer
  <2> QED BY <2>1, <2>2
<1> QED BY <1>1, InitIInv, PTL DEF Spec

\* The types of the requests, the sequence, the keys and the row locks.
THEOREM TypeCorrect == Spec => []TypeOK
<1>1. IInv => TypeOK
  BY DEF IInv
<1> QED BY <1>1, Invariance, PTL

\* A row a document published points to a row that is there and older than it,
\* so that of the verifier's complaints only those of a fork can concern it.
THEOREM LinksGoBack == Spec => []AtWorstForks
<1>1. IInv => AtWorstForks
  <2> SUFFICES ASSUME IInv, NEW r \in FromDocument
               PROVE  /\ r \notin Anomalies(Rows).noGenesis /\ r \notin Anomalies(Rows).notMonotonic
                      /\ r \notin Anomalies(Rows).nonExistent
                      /\ r \notin Anomalies(Rows).laterOrEqual
    BY DEF AtWorstForks
  <2>1. r \in Rows /\ r \in Publishers /\ r \in Numbered /\ Request[r].route = "latest"
    BY DEF FromDocument, Rows, Numbered
  <2>2. pub[r].prev # NoRow => pub[r].prev \in Rows /\ pub[pub[r].prev].seq < pub[r].seq
    BY <2>1 DEF IInv, Order
  <2>3. \A q \in Rows : pub[q].seq = pub[r].seq => q = r
    BY <2>1 DEF IInv, Distinct, Rows, Numbered
  <2>4. r \notin Anomalies(Rows).noGenesis
    <3> SUFFICES ASSUME Genesis(Rows) = {}, \A q \in Rows : ~(pub[q].seq < pub[r].seq) PROVE FALSE
      BY DEF Anomalies
    <3>1. pub[r].prev # NoRow
      BY <2>1 DEF Genesis
    <3> QED BY <2>2, <3>1
  <2>5. r \notin Anomalies(Rows).notMonotonic
    BY <2>3 DEF Anomalies
  <2>6. r \notin Anomalies(Rows).nonExistent /\ r \notin Anomalies(Rows).laterOrEqual
    BY <2>1, <2>2 DEF Anomalies, Genesis
  <2> QED BY <2>4, <2>5, <2>6
<1> QED BY <1>1, Invariance, PTL

\* Two document publishes that did not overlap point to different rows.
THEOREM NoForkInSequence == Spec => []SequentialPublishesDoNotFork
<1>1. IInv => SequentialPublishesDoNotFork
  <2> SUFFICES ASSUME IInv, NEW p \in FromDocument, NEW q \in FromDocument, p \in pub[q].seen,
                      pub[p].prev = pub[q].prev
               PROVE  FALSE
    BY DEF SequentialPublishesDoNotFork
  <2>1. p \in Publishers /\ q \in Publishers /\ p \in Numbered
    BY DEF FromDocument, Rows, Numbered
  <2>2. pub[q].prev # NoRow /\ pub[p].seq <= pub[pub[q].prev].seq
    BY <2>1 DEF IInv, Order, FromDocument
  <2>3. pub[pub[p].prev].seq < pub[p].seq
    BY <2>1, <2>2 DEF IInv, Order, FromDocument
  <2>4. pub[q].prev \in Publishers
    BY <2>1, <2>2, SMT DEF IInv, TypeOK, Publisher
  <2>5. pub[p].seq \in Nat /\ pub[pub[q].prev].seq \in Nat
    BY <2>1, <2>4, SMT DEF IInv, TypeOK, Publisher
  <2> QED BY <2>2, <2>3, <2>5, SMT
<1> QED BY <1>1, Invariance, PTL

\* A row that does not verify with its signer's stored key was published while
\* the row whose key was stored was not there yet.
THEOREM FirstKeyRace == Spec => []UnverifiableOnlyByRace
<1>1. IInv => UnverifiableOnlyByRace
  <2> SUFFICES ASSUME IInv, NEW p \in Rows, stored[Signer(p)] # Request[p].signs
               PROVE  \E q \in Rows \ pub[p].seen :
                         Signer(q) = Signer(p) /\ Request[q].signs = stored[Signer(p)]
    BY DEF UnverifiableOnlyByRace
  <2>1. p \in Accepted /\ p \in Publishers /\ Signer(p) \in Signers
    BY SignerType DEF Rows, Accepted
  <2>2. \A q \in pub[p].seen : Signer(q) # Signer(p)
    BY <2>1 DEF IInv, Verified
  <2>3. PICK q \in Rows : Signer(q) = Signer(p) /\ Request[q].signs = stored[Signer(p)]
    BY <2>1 DEF IInv, Stored
  <2> QED BY <2>2, <2>3
<1> QED BY <1>1, Invariance, PTL

-----------------------------------------------------------------------------
(* Its readers.                                                            *)

\* What a load has read of a record is so.
Fetches ==
    \A x \in Publishers :
        /\ page.at[x] # "missing"
        /\ page.at[x] \in {"log", "key", "done"} => x \in Rows
        /\ page.at[x] = "done" => page.key[x] = stored[Signer(x)]

Opened == page.pc # "idle" => page.of \in Publishers

\* What was said of a record is what would be said of it now.
Verdicts ==
    \A x \in Publishers : shown[x] # {} =>
        x \in Rows /\ shown[x] = {Assess(x, stored[Signer(x)])}

PublicTypes ==
    /\ made \in [Publishers -> Nat]
    /\ feed \in Feed
    /\ page \in Page
    /\ shown \in [Publishers -> SUBSET Status]

PInv == PublicTypes /\ Fetches /\ Opened /\ Verdicts

\* The steps that load something.
Loads ==
    \/ \E k \in Kinds \ {"review"} : LoadFeed(k)
    \/ \E t \in Kinds : Select(t)
    \/ FeedFails
    \/ LoadPage

-----------------------------------------------------------------------------
(* The log under it.                                                       *)

\* A load changes neither the log nor the keys.
LEMMA LoadsReadOnly == Loads => UNCHANGED vars /\ made' = made
BY DEF Loads, LoadFeed, Select, FeedFails, LoadPage, OpenPage, ReadReviews, PageFails, ReadEntity,
       ReadLog, ReadSigner, BundleFails

\* A statement of a publish route is a step of MerkleLog, but for its BEGIN.
LEMMA PublishSteps ==
    ASSUME NEW p \in Publishers, PublishRecord(p)
    PROVE  /\ Publish(p) \/ UNCHANGED vars
           /\ page' = page /\ feed' = feed /\ shown' = shown
           /\ made' = made \/ Stamp(p)
BY DEF PublishRecord, Compose, Stamp, Publish, public

\* Every behaviour of publishers and readers is one of MerkleLog's: what is proved of
\* the log holds of the log that the public reads.
THEOREM RecordsArePublishes == RecordSpec => Spec
<1>1. RecordInit => Init
  BY DEF RecordInit
<1>2. [RecordNext]_records => [Next]_vars
  <2>1. CASE \E p \in Publishers : PublishRecord(p)
    BY <2>1, PublishSteps DEF Next
  <2>2. CASE Loads
    BY <2>2, LoadsReadOnly
  <2>3. CASE UNCHANGED records
    BY <2>3 DEF records
  <2> QED BY <2>1, <2>2, <2>3 DEF RecordNext, Loads
<1> QED BY <1>1, <1>2, PTL DEF RecordSpec, Spec

\* Whatever happens, rows and stored keys stay.
LEMMA KeysStay ==
    ASSUME IInv, [RecordNext]_records
    PROVE  /\ Rows \subseteq Rows'
           /\ \A s \in Signers : stored[s] # NoKey => stored'[s] = stored[s]
<1>1. CASE \E p \in Publishers : Publish(p)
  <2>1. PICK p \in Publishers : Publish(p)
    BY <1>1
  <2>2. TypeOK /\ Held /\ Verified
    BY DEF IInv
  <2> QED BY <2>1, <2>2, RowsGrow, StoredStays
<1>2. CASE UNCHANGED vars
  BY <1>2 DEF vars, Rows
<1>3. (\E p \in Publishers : Publish(p)) \/ UNCHANGED vars
  BY PublishSteps, LoadsReadOnly DEF RecordNext, Loads, records
<1> QED BY <1>1, <1>2, <1>3

\* A row's signer has a key.
LEMMA RowsHaveKeys ==
    ASSUME IInv, NEW x \in Rows
    PROVE  x \in Publishers /\ Signer(x) \in Signers /\ stored[Signer(x)] # NoKey
BY SignerType DEF IInv, Stored, Rows

-----------------------------------------------------------------------------
(* Types.                                                                  *)

\* A new stamp is a number.
LEMMA StampType ==
    ASSUME NEW p \in Publishers, Stamp(p), PublicTypes
    PROVE  made' \in [Publishers -> Nat]
<1>1. Cardinality({q \in Publishers : made[q] > 0}) \in Nat
  BY ContentOK, FS_Subset, FS_CardinalityType
<1> QED BY <1>1 DEF Stamp, PublicTypes

\* The types of the stamps, the feed, the page and the verdicts.
LEMMA TypesStep ==
    ASSUME TypeOK, PublicTypes, [RecordNext]_records
    PROVE  PublicTypes'
<1>1. CASE \E p \in Publishers : PublishRecord(p)
  BY <1>1, PublishSteps, StampType DEF PublicTypes
<1>2. CASE UNCHANGED records
  BY <1>2 DEF records, public, PublicTypes
<1>3. CASE Loads
  <2>1. made' = made
    BY <1>3, LoadsReadOnly
  <2>2. NoFeed \in Feed /\ NoPage \in Page
    BY SMT DEF NoFeed, NoPage, Feed, Page, Stage
  <2>3. ASSUME NEW k \in Kinds \ {"review"}, LoadFeed(k) PROVE PublicTypes'
    <3>1. [kind |-> k, need |-> {k, "review"}, fetched |-> {}, before |-> Rows] \in Feed
      BY SMT DEF Feed, Kinds, Rows
    <3> QED BY <2>1, <2>2, <2>3, <3>1 DEF LoadFeed, PublicTypes
  <2>4. ASSUME NEW t \in Kinds, Select(t) PROVE PublicTypes'
    <3>1. \A n : Newest(Table(t), n) \subseteq Publishers
      BY DEF Newest, Table, Entities, Rows
    <3>2. PICK n : feed' = [feed EXCEPT !.need = @ \ {t}, !.fetched = @ \cup Newest(Table(t), n)]
      BY <2>4 DEF Select
    <3> DEFINE rows == Newest(Table(t), n)
    <3>3. rows \subseteq Publishers
      BY <3>1
    <3>4. feed.need \ {t} \in SUBSET Kinds /\ feed.fetched \cup rows \in SUBSET Publishers
      BY <3>3, SMT DEF PublicTypes, Feed
    <3>5. feed \in Feed
      BY DEF PublicTypes
    <3>6. feed' = [feed EXCEPT !.need = @ \ {t}, !.fetched = @ \cup rows]
      BY <3>2
    <3> HIDE DEF rows
    <3>7. feed' \in Feed
      BY <3>4, <3>5, <3>6, Zenon DEF PublicTypes, Feed
    <3> QED BY <2>1, <2>4, <3>7 DEF Select, PublicTypes
  <2>5. CASE FeedFails
    BY <2>1, <2>2, <2>5 DEF FeedFails, PublicTypes
  <2>6. ASSUME NEW p \in Publishers, OpenPage(p) PROVE PublicTypes'
    <3>1. page' = [NoPage EXCEPT !.pc = "reviews", !.of = p]
      BY <2>6 DEF OpenPage
    <3>2. page' \in Page
      BY <2>2, <2>6, <3>1, Zenon DEF Page
    <3> QED BY <2>1, <2>2, <2>6, <3>2 DEF OpenPage, PublicTypes
  <2>7. CASE ReadReviews
    <3>1. ReviewsOf(Entities, page.of) \subseteq Publishers
      BY DEF ReviewsOf, Entities, Rows
    <3> DEFINE rows == ReviewsOf(Entities, page.of)
    <3>2. page' = [page EXCEPT !.pc = "bundles", !.reviews = rows]
      BY <2>7 DEF ReadReviews
    <3>3. rows \subseteq Publishers
      BY <3>1
    <3> HIDE DEF rows
    <3>4. page' \in Page
      BY <3>2, <3>3, Zenon DEF PublicTypes, Page
    <3> QED BY <2>1, <2>7, <3>4 DEF ReadReviews, PublicTypes
  <2>8. CASE PageFails
    BY <2>1, <2>2, <2>8 DEF PageFails, PublicTypes
  <2>9. ASSUME NEW x \in Publishers, ReadEntity(x) \/ ReadLog(x) \/ BundleFails(x)
        PROVE  PublicTypes'
    <3>1. page' \in Page
      BY <2>9, SMT DEF ReadEntity, ReadLog, BundleFails, PublicTypes, Page, Stage, Done
    <3> QED BY <2>1, <2>9, <3>1 DEF ReadEntity, ReadLog, BundleFails, PublicTypes
  <2>10. ASSUME NEW x \in Publishers, ReadSigner(x) PROVE PublicTypes'
    <3>1. stored[Signer(x)] \in Keys \cup {NoKey}
      BY <2>10, SignerType DEF TypeOK
    <3> DEFINE at  == [page.at EXCEPT ![x] = "done"]
               key == [page.key EXCEPT ![x] = stored[Signer(x)]]
    <3>5. page' = [page EXCEPT !.at = at, !.key = key]
      BY <2>10 DEF ReadSigner
    <3>6. at \in [Publishers -> Stage] /\ key \in [Publishers -> Keys \cup {NoKey}]
      BY <3>1, SMT DEF PublicTypes, Page, Stage, Done
    <3> HIDE DEF at, key
    <3>2. page' \in Page
      BY <3>5, <3>6, Zenon DEF PublicTypes, Page
    <3>3. Assess(x, stored[Signer(x)]) \in Status
      BY DEF Assess, Status
    <3>4. shown' \in [Publishers -> SUBSET Status]
      BY <2>10, <3>3 DEF ReadSigner, PublicTypes
    <3> QED BY <2>1, <2>10, <3>2, <3>4 DEF ReadSigner, PublicTypes
  <2> QED BY <1>3, <2>3, <2>4, <2>5, <2>6, <2>7, <2>8, <2>9, <2>10 DEF Loads, LoadPage
<1> QED BY <1>1, <1>2, <1>3 DEF RecordNext, Loads

-----------------------------------------------------------------------------
(* What a load found.                                                      *)

\* What was read of a record stays so, and what is read next is so.
LEMMA FetchesStep ==
    ASSUME IInv, PublicTypes, Fetches, [RecordNext]_records
    PROVE  Fetches'
<1> SUFFICES ASSUME NEW y \in Publishers
             PROVE  /\ page'.at[y] # "missing"
                    /\ page'.at[y] \in {"log", "key", "done"} => y \in Rows'
                    /\ page'.at[y] = "done" => page'.key[y] = stored'[Signer(y)]
  BY DEF Fetches, Signer
<1>1. y \in Rows => y \in Rows' /\ stored'[Signer(y)] = stored[Signer(y)]
  BY KeysStay, RowsHaveKeys
<1>2. CASE page'.at[y] = page.at[y] /\ page'.key[y] = page.key[y]
  BY <1>1, <1>2 DEF Fetches
<1>3. CASE page'.at[y] = "none" \/ page'.at[y] = "unavailable"
  BY <1>3
<1>4. page.at \in [Publishers -> Stage] /\ page.key \in [Publishers -> Keys \cup {NoKey}]
  BY SMT DEF PublicTypes, Page
<1>5. CASE \E p \in Publishers : PublishRecord(p)
  BY <1>2, <1>5, PublishSteps
<1>6. CASE UNCHANGED records
  BY <1>2, <1>6 DEF records, public
<1>7. CASE Loads
  <2>1. ASSUME page' = NoPage \/ \E p \in Publishers : OpenPage(p)
        PROVE  page'.at[y] = "none"
    <3>1. page'.at = NoPage.at
      BY <2>1, Zenon DEF NoPage, OpenPage
    <3> QED BY <3>1 DEF NoPage
  <2>2. ASSUME page' = page \/ ReadReviews
        PROVE  page'.at[y] = page.at[y] /\ page'.key[y] = page.key[y]
    <3>1. page'.at = page.at /\ page'.key = page.key
      BY <2>2, Zenon DEF ReadReviews, PublicTypes, Page
    <3> QED BY <3>1
  <2>3. ASSUME NEW x \in Publishers, x # y,
               ReadEntity(x) \/ ReadLog(x) \/ ReadSigner(x) \/ BundleFails(x)
        PROVE  page'.at[y] = page.at[y] /\ page'.key[y] = page.key[y]
    <3>1. CASE ReadEntity(x) \/ ReadLog(x) \/ BundleFails(x)
      BY <1>4, <2>3, <3>1, SMT DEF ReadEntity, ReadLog, BundleFails, PublicTypes, Page
    <3>2. CASE ReadSigner(x)
      <4>1. /\ page'.at = [page.at EXCEPT ![x] = "done"]
            /\ page'.key = [page.key EXCEPT ![x] = stored[Signer(x)]]
        BY <3>2, Zenon DEF ReadSigner, PublicTypes, Page
      <4> QED BY <1>4, <2>3, <4>1, SMT
    <3> QED BY <2>3, <3>1, <3>2
  <2>4. CASE ReadEntity(y)
    <3>1. page'.at[y] = IF y \in Rows THEN "log" ELSE "unavailable"
      BY <1>4, <2>4, SMT DEF ReadEntity, Entities, PublicTypes, Page
    <3> QED BY <1>1, <3>1
  <2>5. CASE ReadLog(y)
    <3>1. y \in Rows
      BY <2>5 DEF ReadLog, Fetches
    <3>2. page'.at[y] = "key"
      BY <1>4, <2>5, <3>1, SMT DEF ReadLog, PublicTypes, Page
    <3> QED BY <1>1, <3>1, <3>2
  <2>6. CASE ReadSigner(y)
    <3>1. y \in Rows
      BY <2>6 DEF ReadSigner, Fetches
    <3>2. page'.at[y] = "done" /\ page'.key[y] = stored[Signer(y)]
      BY <1>4, <2>6, SMT DEF ReadSigner, PublicTypes, Page
    <3> QED BY <1>1, <3>1, <3>2
  <2>7. CASE BundleFails(y)
    BY <1>3, <1>4, <2>7, SMT DEF BundleFails, PublicTypes, Page
  <2>8. ASSUME NEW t \in Kinds, Select(t) PROVE page' = page
    BY <2>8 DEF Select
  <2>9. ASSUME NEW k \in Kinds, LoadFeed(k) PROVE page' = NoPage
    BY <2>9 DEF LoadFeed
  <2>10. FeedFails => page' = page
    BY DEF FeedFails
  <2>11. PageFails => page' = NoPage
    BY DEF PageFails
  <2> QED BY <1>2, <1>3, <1>7, <2>1, <2>2, <2>3, <2>4, <2>5, <2>6, <2>7, <2>8, <2>9, <2>10, <2>11
          DEF Loads, LoadPage
<1> QED BY <1>5, <1>6, <1>7 DEF RecordNext, Loads

\* A page that is open is some record's.
LEMMA OpenedStep ==
    ASSUME PublicTypes, Opened, [RecordNext]_records
    PROVE  Opened'
<1>1. CASE \E p \in Publishers : PublishRecord(p)
  BY <1>1, PublishSteps DEF Opened
<1>2. CASE UNCHANGED records
  BY <1>2 DEF records, public, Opened
<1>3. CASE Loads
  <2>1. ASSUME page' = NoPage \/ \E p \in Publishers : OpenPage(p) PROVE Opened'
    <3>1. NoPage.pc = "idle"
      BY DEF NoPage
    <3>2. ASSUME NEW p \in Publishers, OpenPage(p) PROVE page'.of = p
      BY <3>2, Zenon DEF OpenPage, NoPage
    <3> QED BY <2>1, <3>1, <3>2 DEF Opened
  <2>2. ASSUME page' = page PROVE Opened'
    BY <2>2 DEF Opened
  <2>3. ASSUME \/ ReadReviews
               \/ \E x \in Publishers :
                     ReadEntity(x) \/ ReadLog(x) \/ ReadSigner(x) \/ BundleFails(x)
        PROVE  Opened'
    <3>1. page'.of = page.of
      BY <2>3, Zenon DEF ReadReviews, ReadEntity, ReadLog, ReadSigner, BundleFails, PublicTypes, Page
    <3>2. page.pc # "idle" \/ page'.pc = page.pc
      BY <2>3, Zenon DEF ReadReviews, ReadEntity, ReadLog, ReadSigner, BundleFails, PublicTypes, Page
    <3> QED BY <3>1, <3>2 DEF Opened
  <2> QED BY <1>3, <2>1, <2>2, <2>3 DEF Loads, LoadPage, LoadFeed, Select, FeedFails, PageFails
<1> QED BY <1>1, <1>2, <1>3 DEF RecordNext, Loads

\* A verdict is of what stays as it was read.
LEMMA VerdictsStep ==
    ASSUME IInv, PublicTypes, Fetches, Verdicts, [RecordNext]_records
    PROVE  Verdicts'
<1> SUFFICES ASSUME NEW y \in Publishers, shown'[y] # {}
             PROVE  y \in Rows' /\ shown'[y] = {Assess(y, stored'[Signer(y)])}
  BY DEF Verdicts, Signer, Assess
<1>1. y \in Rows => y \in Rows' /\ stored'[Signer(y)] = stored[Signer(y)]
  BY KeysStay, RowsHaveKeys
<1>2. CASE shown'[y] = shown[y]
  BY <1>1, <1>2 DEF Verdicts
<1>3. CASE shown'[y] # shown[y]
  <2>1. ReadSigner(y)
    <3>1. ASSUME NEW x \in Publishers, ReadSigner(x), x # y PROVE FALSE
      BY <1>3, <3>1 DEF ReadSigner, PublicTypes
    <3>2. shown' = shown \/ \E x \in Publishers : ReadSigner(x)
      <4>1. CASE \E p \in Publishers : PublishRecord(p)
        BY <4>1, PublishSteps
      <4>2. CASE UNCHANGED records
        BY <4>2 DEF records, public
      <4>3. CASE Loads
        BY <4>3 DEF Loads, LoadFeed, Select, FeedFails, LoadPage, OpenPage, ReadReviews, PageFails,
                    ReadEntity, ReadLog, BundleFails
      <4> QED BY <4>1, <4>2, <4>3 DEF RecordNext, Loads
    <3> QED BY <1>3, <3>1, <3>2
  <2>2. y \in Rows
    BY <2>1 DEF ReadSigner, Fetches
  <2>3. shown'[y] = shown[y] \cup {Assess(y, stored[Signer(y)])}
    BY <2>1 DEF ReadSigner, PublicTypes
  <2>4. shown[y] = {} \/ shown[y] = {Assess(y, stored[Signer(y)])}
    BY DEF Verdicts
  <2> QED BY <1>1, <2>2, <2>3, <2>4
<1> QED BY <1>2, <1>3

-----------------------------------------------------------------------------
\* The invariant of MerkleLog, as a state of the log that is read.
LEMMA LogInvariance == RecordSpec => []IInv
BY RecordsArePublishes, Invariance, PTL

LEMMA PublicInvariance == RecordSpec => []PInv
<1>1. RecordInit => PInv
  <2> SUFFICES ASSUME RecordInit PROVE PInv
    OBVIOUS
  <2>1. NoFeed \in Feed /\ NoPage \in Page
    BY SMT DEF NoFeed, NoPage, Feed, Page, Stage
  <2>2. PublicTypes
    BY <2>1 DEF RecordInit, PublicTypes
  <2>3. Fetches /\ Opened
    BY SMT DEF RecordInit, Fetches, Opened, NoPage
  <2>4. Verdicts
    BY DEF RecordInit, Verdicts
  <2> QED BY <2>2, <2>3, <2>4 DEF PInv
<1>2. IInv /\ PInv /\ [RecordNext]_records => PInv'
  BY TypesStep, FetchesStep, OpenedStep, VerdictsStep DEF PInv, IInv
<1> QED BY <1>1, <1>2, LogInvariance, PTL DEF RecordSpec

\* The types of the log, the stamps, what is loaded and what was said.
THEOREM RecordTypes == RecordSpec => []RecordTypeOK
<1>1. IInv /\ PInv => RecordTypeOK
  BY DEF IInv, PInv, PublicTypes, RecordTypeOK
<1> QED BY <1>1, LogInvariance, PublicInvariance, PTL

\* No page contradicts an earlier one in what it says of a record: its row is there
\* with its signer's first key, and no publish changes either.
THEOREM VerdictsAreFinal == RecordSpec => []VerdictIsFinal
<1>1. PInv => VerdictIsFinal
  <2> SUFFICES ASSUME PInv, NEW x \in Publishers PROVE Cardinality(shown[x]) <= 1
    BY DEF VerdictIsFinal
  <2>1. CASE shown[x] = {}
    <3>1. Cardinality(shown[x]) = 0
      BY <2>1, FS_EmptySet
    <3> QED BY <3>1, SMT
  <2>2. CASE shown[x] # {}
    <3>1. shown[x] = {Assess(x, stored[Signer(x)])}
      BY <2>2 DEF PInv, Verdicts
    <3>2. Cardinality(shown[x]) = 1
      BY <3>1, FS_Singleton
    <3> QED BY <3>2, SMT
  <2> QED BY <2>1, <2>2
<1> QED BY <1>1, PublicInvariance, PTL

\* A page that loads beside publishes shows every record as what it is, and the tool
\* agrees: the exceptions are content no column keeps, and rows that lost the race of
\* first keys.
THEOREM PagesVerify == RecordSpec => []ServedRecordsVerify
<1>1. IInv /\ PInv /\ UnverifiableOnlyByRace => ServedRecordsVerify
  <2> SUFFICES ASSUME IInv, PInv, UnverifiableOnlyByRace, Served, NEW x \in Bundled
               PROVE  \/ page.at[x] = "unavailable"
                      \/ /\ page.at[x] = "done" /\ Assess(x, page.key[x]) = "verified"
                         /\ Tool(x) = IF Replayable(x) THEN "verified" ELSE "server-summary-only"
                      \/ /\ page.at[x] = "done"
                         /\ Replayable(x) => Tool(x) = "invalid"
                         /\ \/ ~Content[x].kept /\ Assess(x, page.key[x]) = "hash-mismatch"
                            \/ LostTheRace(x) /\ Assess(x, page.key[x]) = "invalid-signature"
    BY DEF ServedRecordsVerify
  <2>1. x \in Publishers
    <3>1. page.of \in Publishers /\ page.reviews \subseteq Publishers
      BY SMT DEF PInv, Opened, Served, PublicTypes, Page
    <3> QED BY <3>1 DEF Bundled
  <2>2. page.at[x] = "done" \/ page.at[x] = "unavailable"
    BY <2>1 DEF Served, Done, PInv, Fetches
  <2>3. ASSUME page.at[x] = "done"
        PROVE  x \in Rows /\ page.key[x] = stored[Signer(x)] /\ page.key[x] # NoKey
    BY <2>1, <2>3, RowsHaveKeys DEF PInv, Fetches
  <2>4. CASE page.at[x] = "done" /\ ~Content[x].kept
    <3>1. Assess(x, page.key[x]) = "hash-mismatch"
      BY <2>4 DEF Assess
    <3>2. ASSUME Replayable(x) PROVE Tool(x) = "invalid"
      <4> DEFINE bad == \/ page.at[x] \in {"missing", "unavailable"}
                        \/ Replayable(x) /\ (~Content[x].kept \/ page.key[x] # Request[x].signs)
      <4>1. bad
        BY <2>4, <3>2
      <4>2. Tool(x) = IF bad THEN "invalid"
                      ELSE IF Replayable(x) THEN "verified" ELSE "server-summary-only"
        BY DEF Tool
      <4> HIDE DEF bad
      <4> QED BY <4>1, <4>2
    <3> QED BY <2>4, <3>1, <3>2
  <2>5. CASE page.at[x] = "done" /\ Content[x].kept /\ page.key[x] = Request[x].signs
    BY <2>3, <2>5 DEF Assess, Tool
  <2>6. CASE page.at[x] = "done" /\ Content[x].kept /\ page.key[x] # Request[x].signs
    <3>1. LostTheRace(x)
      BY <2>3, <2>6 DEF LostTheRace, UnverifiableOnlyByRace
    <3> QED BY <2>3, <2>6, <3>1 DEF Assess, Tool
  <2> QED BY <2>2, <2>4, <2>5, <2>6
<1>2. RecordSpec => []UnverifiableOnlyByRace
  BY RecordsArePublishes, FirstKeyRace, PTL
<1> QED BY <1>1, <1>2, LogInvariance, PublicInvariance, PTL
-----------------------------------------------------------------------------
(* The feed.                                                               *)

\* Stamps are taken one after another, and what a record names was there when it was
\* composed: so its stamp is the later one.
Stamps ==
    /\ \A p \in Publishers : pub[p].pc \in {"start", "prev"} => made[p] = 0
    /\ \A p \in Publishers : pub[p].pc \in {"tx", "inserted", "checked", "committed"} => made[p] > 0
    /\ \A p \in Publishers : pub[p].pc # "start" => Names(p) \subseteq Rows
    /\ \A p, q \in Publishers : made[p] > 0 /\ made[p] = made[q] => p = q
    /\ \A p \in Publishers : made[p] <= Cardinality({q \in Publishers : made[q] > 0})
    /\ \A p \in Publishers : made[p] > 0 => \A x \in Names(p) : made[x] < made[p]

Cut(t) == IF t = "review" THEN ReviewLimit ELSE EntityLimit

\* Of one kind a SELECT finds with a row all newer ones that were there before, and
\* cuts off a row only for as many newer ones.
Reading ==
    /\ feed.fetched \subseteq Rows /\ feed.before \subseteq Rows /\ feed.kind # "review"
    /\ \A p \in feed.fetched, q \in feed.before :
          Content[p].kind = Content[q].kind /\ made[p] < made[q] => q \in feed.fetched
    /\ \A q \in feed.before \ feed.fetched :
          Content[q].kind \in {feed.kind, "review"} \ feed.need =>
             Cardinality(Newer(Table(Content[q].kind), q)) >= Cut(Content[q].kind)

FeedInv == Stamps /\ Reading

\* Newer rows are rows.
LEMMA NewerFinite ==
    ASSUME NEW S \in SUBSET Publishers, NEW x
    PROVE  /\ IsFiniteSet(S) /\ IsFiniteSet(Newer(S, x))
           /\ Newer(S, x) \subseteq S /\ Cardinality(Newer(S, x)) \in Nat
<1>1. Newer(S, x) \in SUBSET S
  BY DEF Newer
<1>2. IsFiniteSet(S)
  BY ContentOK, FS_Subset
<1>3. IsFiniteSet(Newer(S, x))
  BY <1>1, <1>2, FS_Subset
<1> QED BY <1>1, <1>2, <1>3, FS_CardinalityType

\* With more rows there are not fewer newer ones.
LEMMA NewerGrow ==
    ASSUME NEW S \in SUBSET Publishers, NEW T \in SUBSET Publishers, S \subseteq T, NEW x
    PROVE  Cardinality(Newer(S, x)) <= Cardinality(Newer(T, x))
<1>1. Newer(S, x) \in SUBSET Newer(T, x)
  BY DEF Newer
<1> QED BY <1>1, NewerFinite, FS_Subset

\* If there are n rows at all, n of them are the newest: the number of newer rows
\* maps the rows one to one on the numbers below theirs.
LEMMA NewestFill ==
    ASSUME made \in [Publishers -> Nat],
           NEW S \in SUBSET Publishers, \A x, y \in S : made[x] = made[y] => x = y,
           NEW n \in Nat, n <= Cardinality(S)
    PROVE  n <= Cardinality(Newest(S, n))
<1> DEFINE N == Cardinality(S)
           f == [x \in S |-> Cardinality(Newer(S, x))]
<1>1. IsFiniteSet(S) /\ N \in Nat
  BY NewerFinite, FS_CardinalityType
<1>2. ASSUME NEW x \in S PROVE f[x] \in 0 .. N - 1
  <2>1. Newer(S, x) \in SUBSET (S \ {x})
    BY <1>2 DEF Newer
  <2>2. IsFiniteSet(S \ {x}) /\ Cardinality(S \ {x}) = N - 1
    BY <1>1, <1>2, FS_RemoveElement
  <2>3. Cardinality(Newer(S, x)) <= N - 1
    BY <2>1, <2>2, FS_Subset
  <2> QED BY <1>1, <1>2, <2>3, NewerFinite
<1>3. ASSUME NEW x \in S, NEW y \in S, made[x] > made[y] PROVE f[x] # f[y]
  <2>1. Newer(S, x) \in SUBSET Newer(S, y) /\ x \in Newer(S, y) /\ x \notin Newer(S, x)
    BY <1>3 DEF Newer
  <2>2. Newer(S, x) # Newer(S, y) /\ IsFiniteSet(Newer(S, y))
    BY <2>1, NewerFinite
  <2> QED BY <1>3, <2>1, <2>2, FS_Subset
<1>4. \A x, y \in S : x # y => f[x] # f[y]
  <2> SUFFICES ASSUME NEW x \in S, NEW y \in S, x # y PROVE f[x] # f[y]
    OBVIOUS
  <2>1. made[x] > made[y] \/ made[y] > made[x]
    BY SMT
  <2> QED BY <1>3, <2>1
<1>5. f \in Injection(S, 0 .. N - 1)
  <2>1. f \in [S -> 0 .. N - 1]
    BY <1>2
  <2> HIDE DEF f, N
  <2> QED BY <1>4, <2>1 DEF Injection, IsInjective
<1>6. IsFiniteSet(0 .. N - 1) /\ Cardinality(0 .. N - 1) = N
  <2> HIDE DEF N
  <2>1. 0 \in Int /\ N - 1 \in Int
    BY <1>1
  <2> QED BY <1>1, <2>1, FS_Interval
<1>7. f \in Surjection(S, 0 .. N - 1)
  <2> DEFINE I == 0 .. N - 1
  <2>1. f \in Injection(S, I) /\ IsFiniteSet(I) /\ Cardinality(S) = Cardinality(I)
    BY <1>5, <1>6
  <2> HIDE DEF f, I
  <2>2. f \in Surjection(S, I)
    BY <2>1, FS_Injection
  <2> QED BY <2>2 DEF I
<1> DEFINE T == Newest(S, n)
           g == [x \in T |-> Cardinality(Newer(S, x))]
<1>8. T \in SUBSET S /\ \A x \in S : x \in T <=> f[x] < n
  BY DEF Newest
<1>9. g \in Surjection(T, 0 .. n - 1)
  <2>1. ASSUME NEW x \in T PROVE g[x] \in 0 .. n - 1
    BY <1>2, <1>8, <2>1
  <2>2. ASSUME NEW i \in 0 .. n - 1 PROVE \E x \in T : g[x] = i
    <3>1. i \in 0 .. N - 1
      BY <1>1
    <3>2. PICK x \in S : f[x] = i
      BY <1>7, <3>1 DEF Surjection
    <3>3. x \in T
      BY <1>8, <3>2
    <3> QED BY <3>2, <3>3
  <2> QED BY <2>1, <2>2 DEF Surjection
<1>10. IsFiniteSet(T)
  BY <1>1, <1>8, FS_Subset
<1>11. Cardinality(0 .. n - 1) <= Cardinality(T)
  <2> HIDE DEF g, T
  <2> QED BY <1>9, <1>10, FS_Surjection
<1>12. Cardinality(0 .. n - 1) = n
  BY FS_Interval
<1> QED BY <1>11, <1>12
\* What a statement of a publish route does about the order of stamps.
LEMMA Composing ==
    ASSUME TypeOK, NEW p \in Publishers, PublishRecord(p), ~Stamp(p)
    PROVE  /\ \A q \in Publishers \ {p} : pub'[q] = pub[q]
           /\ pub'[p].pc \in {"start", "prev"} => pub[p].pc = "start"
           /\ pub[p].pc = "start" => Names(p) \subseteq Rows
           /\ pub'[p].pc \in {"tx", "inserted", "checked", "committed"} =>
                 made[p] > 0 \/ pub[p].pc \in {"tx", "inserted", "checked"}
<1>1. pub \in [Publishers -> Publisher]
  BY DEF TypeOK
<1>2. CASE Compose(p)
  <2>1. PICK r : pub' = [pub EXCEPT ![p] = [pc |-> "prev", prev |-> r, seq |-> 0,
                                            persist |-> NoKey, seen |-> Rows]]
    BY <1>2 DEF Compose, ReadPrev
  <2>2. pub[p].pc = "start" /\ Names(p) \subseteq Rows
    BY <1>2 DEF Compose, ReadPrev
  <2> QED BY <1>1, <2>1, <2>2, SMT
<1>3. CASE ReadKey(p)
  BY <1>1, <1>3, SMT DEF ReadKey
<1>4. CASE made[p] > 0 /\ Begin(p)
  BY <1>1, <1>4, SMT DEF Begin, Publisher
<1>5. CASE Insert(p) \/ CheckPrev(p) \/ Commit(p) \/ Fail(p)
  BY <1>1, <1>5, SMT DEF Insert, CheckPrev, Commit, Fail, Publisher
<1> QED BY <1>2, <1>3, <1>4, <1>5 DEF PublishRecord

\* A new stamp is the latest.
LEMMA StampIsLatest ==
    ASSUME TypeOK, PublicTypes, Stamps, NEW p \in Publishers, Stamp(p)
    PROVE  Stamps'
<1> DEFINE old == {q \in Publishers : made[q] > 0}
<1>1. made \in [Publishers -> Nat] /\ vars' = vars /\ pub[p].pc = "valid" /\ made[p] = 0
  BY DEF Stamp, PublicTypes
<1>2. pub' = pub /\ Rows' = Rows
  BY <1>1 DEF vars, Rows
<1>3. IsFiniteSet(old) /\ Cardinality(old) \in Nat
  BY ContentOK, FS_Subset, FS_CardinalityType
<1>4. made'[p] = 1 + Cardinality(old) /\ \A q \in Publishers : q # p => made'[q] = made[q]
  BY <1>1 DEF Stamp
<1>5. {q \in Publishers : made'[q] > 0} = old \cup {p} /\ p \notin old
  <2> HIDE DEF old
  <2>1. made'[p] > 0
    BY <1>3, <1>4
  <2> QED BY <1>1, <1>4, <2>1 DEF old
<1>6. Cardinality({q \in Publishers : made'[q] > 0}) = Cardinality(old) + 1
  BY <1>3, <1>5, FS_AddElement
<1>7. \A q \in Publishers : made[q] <= Cardinality(old)
  BY DEF Stamps
<1> DEFINE new == {q \in Publishers : made'[q] > 0}
<1>8. \A q \in Publishers : made'[q] <= Cardinality(new)
  <2> HIDE DEF old, new
  <2> QED BY <1>1, <1>3, <1>4, <1>6, <1>7 DEF new
<1>9. \A q, r \in Publishers : made'[q] > 0 /\ made'[q] = made'[r] => q = r
  <2> HIDE DEF old, new
  <2> QED BY <1>1, <1>3, <1>4, <1>7 DEF Stamps
<1>10. ASSUME NEW q \in Publishers, made'[q] > 0, NEW x \in Names(q)
       PROVE  made'[x] < made'[q]
  <2>1. pub[q].pc # "start"
    BY <1>1, <1>4, <1>10 DEF Stamps
  <2>2. x \in Rows /\ x \in Publishers
    BY <1>10, <2>1 DEF Stamps, Rows
  <2>3. x # p /\ made'[x] = made[x]
    BY <1>1, <1>4, <2>2 DEF Rows
  <2>4. CASE q = p
    <3> HIDE DEF old
    <3> QED BY <1>1, <1>3, <1>4, <1>7, <2>2, <2>3, <2>4
  <2>5. CASE q # p
    BY <1>4, <1>10, <2>3, <2>5 DEF Stamps
  <2> QED BY <2>4, <2>5
<1>11. /\ \A q \in Publishers : pub'[q].pc \in {"start", "prev"} => made'[q] = 0
       /\ \A q \in Publishers : pub'[q].pc \in {"tx", "inserted", "checked", "committed"} => made'[q] > 0
       /\ \A q \in Publishers : pub'[q].pc # "start" => Names(q) \subseteq Rows'
  BY <1>1, <1>2, <1>4 DEF Stamps
<1> QED BY <1>8, <1>9, <1>10, <1>11 DEF Stamps, Names

\* The order of stamps stays.
LEMMA StampsStep ==
    ASSUME IInv, PublicTypes, Stamps, [RecordNext]_records
    PROVE  Stamps'
<1>0. TypeOK /\ Rows \subseteq Rows'
  BY KeysStay DEF IInv
<1>1. CASE \E p \in Publishers : Stamp(p)
  BY <1>0, <1>1, StampIsLatest
<1>2. ASSUME NEW p \in Publishers, PublishRecord(p), ~Stamp(p) PROVE Stamps'
  <2>1. made' = made
    BY <1>2, PublishSteps
  <2>2. /\ \A q \in Publishers \ {p} : pub'[q] = pub[q]
        /\ pub'[p].pc \in {"start", "prev"} => pub[p].pc = "start"
        /\ pub[p].pc = "start" => Names(p) \subseteq Rows
        /\ pub'[p].pc \in {"tx", "inserted", "checked", "committed"} =>
              made[p] > 0 \/ pub[p].pc \in {"tx", "inserted", "checked"}
    BY <1>0, <1>2, Composing
  <2>3. \A q \in Publishers : Names(q)' = Names(q)
    BY DEF Names
  <2> QED BY <1>0, <2>1, <2>2, <2>3 DEF Stamps
<1>3. CASE pub' = pub /\ made' = made
  BY <1>3 DEF Stamps, Rows, Names
<1>4. \/ \E p \in Publishers : PublishRecord(p)
      \/ pub' = pub /\ made' = made
  BY LoadsReadOnly DEF RecordNext, Loads, records, vars, public
<1> QED BY <1>1, <1>2, <1>3, <1>4
\* A publish neither takes back what was read nor what it was cut off for.
LEMMA ReadingStays ==
    ASSUME IInv, PublicTypes, Stamps, Reading, [RecordNext]_records, feed' = feed
    PROVE  Reading'
<1>1. Rows \subseteq Rows' /\ Rows' \subseteq Publishers /\ feed.fetched \cup feed.before \subseteq Rows
  BY KeysStay DEF Rows, Reading
<1>2. \A x \in Rows : made'[x] = made[x]
  <2>1. ASSUME NEW p \in Publishers, Stamp(p), NEW x \in Rows PROVE made'[x] = made[x]
    BY <2>1 DEF Stamp, Rows, PublicTypes
  <2>2. made' = made \/ \E p \in Publishers : Stamp(p)
    BY PublishSteps, LoadsReadOnly DEF RecordNext, Loads, records, public
  <2> QED BY <2>1, <2>2
<1>3. ASSUME NEW q \in feed.before \ feed.fetched,
             Content[q].kind \in {feed.kind, "review"} \ feed.need
      PROVE  Cardinality(Newer(Table(Content[q].kind), q)') >= Cut(Content[q].kind)
  <2> DEFINE t == Content[q].kind
             old == Newer(Table(t), q)
             new == Newer(Table(t), q)'
  <2>1. old \in SUBSET new /\ new \subseteq Publishers
    BY <1>1, <1>2 DEF Newer, Table, Entities
  <2>2. Cardinality(old) >= Cut(t)
    BY <1>3 DEF Reading
  <2>3. Cut(t) \in Nat
    BY ContentOK DEF Cut
  <2> HIDE DEF old, new
  <2>4. IsFiniteSet(new) /\ IsFiniteSet(old)
    BY <2>1, ContentOK, FS_Subset
  <2>5. Cardinality(old) <= Cardinality(new) /\ Cardinality(old) \in Nat /\ Cardinality(new) \in Nat
    BY <2>1, <2>4, FS_Subset, FS_CardinalityType
  <2>6. Cardinality(new) >= Cut(t)
    BY <2>2, <2>3, <2>5
  <2> QED BY <2>6 DEF new
<1>4. /\ feed'.fetched \subseteq Rows' /\ feed'.before \subseteq Rows' /\ feed'.kind # "review"
      /\ \A p \in feed'.fetched, q \in feed'.before :
            Content[p].kind = Content[q].kind /\ made'[p] < made'[q] => q \in feed'.fetched
  <2>1. \A p \in feed.fetched : made'[p] = made[p] /\ p \in Rows
    BY <1>1, <1>2
  <2>2. \A q \in feed.before : made'[q] = made[q] /\ q \in Rows
    BY <1>1, <1>2
  <2> QED BY <1>1, <2>1, <2>2 DEF Reading
<1> QED BY <1>3, <1>4 DEF Reading, Newer

\* A SELECT takes of its table the newest rows that are there by then.
LEMMA ReadingSelect ==
    ASSUME PublicTypes, Reading, NEW t \in Kinds, Select(t)
    PROVE  Reading'
<1> DEFINE n == Cut(t)
           rows == Newest(Table(t), n)
<1>1. /\ made' = made /\ Rows' = Rows /\ t \in feed.need
      /\ feed' = [feed EXCEPT !.need = @ \ {t}, !.fetched = @ \cup rows]
  BY DEF Select, Cut, vars, Rows
<1>2. feed \in Feed /\ made \in [Publishers -> Nat] /\ Rows \subseteq Publishers /\ n \in Nat
  BY ContentOK DEF PublicTypes, Rows, Cut
<1>3. /\ Table(t) \subseteq Rows
      /\ \A k : Table(k)' = Table(k)
      /\ \A S, x : Newer(S, x)' = Newer(S, x)
  BY <1>1 DEF Table, Entities, Newer
<1>4. /\ \A x \in rows : x \in Table(t) /\ Cardinality(Newer(Table(t), x)) < n
      /\ \A x \in Table(t) : x \in rows \/ ~(Cardinality(Newer(Table(t), x)) < n)
  BY DEF Newest
<1> HIDE DEF rows, n
<1>5. /\ feed'.fetched = feed.fetched \cup rows /\ feed'.need = feed.need \ {t}
      /\ feed'.before = feed.before /\ feed'.kind = feed.kind
  BY <1>1, <1>2, Zenon DEF Feed
<1>6. feed'.fetched \subseteq Rows' /\ feed'.before \subseteq Rows' /\ feed'.kind # "review"
  BY <1>1, <1>3, <1>4, <1>5 DEF Reading
<1>7. ASSUME NEW p \in rows, NEW q \in feed.before,
             Content[p].kind = Content[q].kind, made[p] < made[q]
      PROVE  q \in rows
  <2>1. p \in Table(t) /\ q \in Table(t)
    BY <1>4, <1>7 DEF Reading, Table, Entities
  <2>2. p \in Rows /\ q \in Rows /\ made[p] \in Nat /\ made[q] \in Nat
    BY <1>2, <1>3, <2>1
  <2>3. Newer(Table(t), q) \in SUBSET Newer(Table(t), p)
    <3>1. \A y \in Table(t) : made[y] \in Nat
      BY <1>2, <1>3
    <3> QED BY <1>7, <2>2, <3>1 DEF Newer
  <2>4. Table(t) \in SUBSET Publishers
    BY <1>2, <1>3
  <2>5. IsFiniteSet(Newer(Table(t), p)) /\ Cardinality(Newer(Table(t), p)) \in Nat
    BY <2>4, NewerFinite
  <2>6. Cardinality(Newer(Table(t), q)) <= Cardinality(Newer(Table(t), p))
        /\ Cardinality(Newer(Table(t), q)) \in Nat
    BY <2>3, <2>4, <2>5, NewerFinite, FS_Subset
  <2>7. Cardinality(Newer(Table(t), q)) < n
    BY <1>2, <1>4, <1>7, <2>5, <2>6
  <2> QED BY <1>4, <2>1, <2>7
<1>8. \A p \in feed'.fetched, q \in feed'.before :
         Content[p].kind = Content[q].kind /\ made'[p] < made'[q] => q \in feed'.fetched
  BY <1>1, <1>5, <1>7 DEF Reading
<1>9. ASSUME NEW q \in feed'.before \ feed'.fetched,
             Content[q].kind \in {feed'.kind, "review"} \ feed'.need
      PROVE  Cardinality(Newer(Table(Content[q].kind), q)) >= Cut(Content[q].kind)
  <2>0. q \in feed.before \ feed.fetched /\ q \notin rows /\ q \in Rows
    BY <1>5, <1>9 DEF Reading
  <2>1. CASE Content[q].kind = t
    <3>1. q \in Table(t)
      BY <2>0, <2>1 DEF Table, Entities
    <3>2. ~(Cardinality(Newer(Table(t), q)) < n)
      BY <1>4, <2>0, <3>1
    <3>3. Table(t) \in SUBSET Publishers
      BY <1>2, <1>3
    <3>4. Cardinality(Newer(Table(t), q)) \in Nat
      BY <3>3, NewerFinite
    <3>5. Cardinality(Newer(Table(t), q)) >= n
      BY <1>2, <3>2, <3>4
    <3> QED BY <2>1, <3>5 DEF n
  <2>2. CASE Content[q].kind # t
    BY <1>5, <1>9, <2>0, <2>2 DEF Reading
  <2> QED BY <2>1, <2>2
<1> QED BY <1>3, <1>6, <1>8, <1>9 DEF Reading

\* What a feed has read stays so.
LEMMA ReadingStep ==
    ASSUME IInv, PublicTypes, Stamps, Reading, [RecordNext]_records
    PROVE  Reading'
<1>1. ASSUME NEW t \in Kinds, Select(t) PROVE Reading'
  BY <1>1, ReadingSelect
<1>2. CASE feed' = feed
  BY <1>2, ReadingStays
<1>3. CASE feed' = NoFeed
  BY <1>3 DEF Reading, NoFeed
<1>4. ASSUME NEW k \in Kinds \ {"review"}, LoadFeed(k) PROVE Reading'
  <2>1. /\ feed' = [kind |-> k, need |-> {k, "review"}, fetched |-> {}, before |-> Rows]
        /\ Rows' = Rows
    BY <1>4 DEF LoadFeed, vars, Rows
  <2> QED BY <2>1 DEF Reading
<1>5. LoadPage => feed' = feed \/ feed' = NoFeed
  BY DEF LoadPage, OpenPage, ReadReviews, PageFails, ReadEntity, ReadLog, ReadSigner, BundleFails
<1>6. FeedFails => feed' = NoFeed
  BY DEF FeedFails
<1>7. (\E p \in Publishers : PublishRecord(p)) \/ UNCHANGED records => feed' = feed
  BY PublishSteps DEF records, public
<1> QED BY <1>1, <1>2, <1>3, <1>4, <1>5, <1>6, <1>7 DEF RecordNext

LEMMA FeedInvariance == RecordSpec => []FeedInv
<1>1. RecordInit => FeedInv
  <2> SUFFICES ASSUME RecordInit PROVE FeedInv
    OBVIOUS
  <2>1. Cardinality({q \in Publishers : made[q] > 0}) \in Nat
    BY ContentOK, FS_Subset, FS_CardinalityType
  <2>2. Stamps
    <3>1. \A p \in Publishers : made[p] = 0 /\ pub[p].pc = "start"
      BY DEF RecordInit, Init
    <3>2. \A n \in Nat : \A p \in Publishers : made[p] <= n
      BY <3>1
    <3>3. \A p \in Publishers : made[p] <= Cardinality({q \in Publishers : made[q] > 0})
      BY <2>1, <3>2
    <3>4. \A p \in Publishers : ~(made[p] > 0)
      BY <3>1
    <3>5. /\ \A p \in Publishers : pub[p].pc \in {"start", "prev"} => made[p] = 0
          /\ \A p \in Publishers : pub[p].pc \notin {"tx", "inserted", "checked", "committed"}
          /\ \A p \in Publishers : ~(pub[p].pc # "start")
      BY <3>1
    <3> QED BY <3>3, <3>4, <3>5, Zenon DEF Stamps
  <2>3. Reading
    BY DEF RecordInit, Reading, NoFeed, Kinds
  <2> QED BY <2>2, <2>3 DEF FeedInv
<1>2. IInv /\ PInv /\ FeedInv /\ [RecordNext]_records => FeedInv'
  BY StampsStep, ReadingStep DEF PInv, FeedInv
<1> QED BY <1>1, <1>2, LogInvariance, PublicInvariance, PTL DEF RecordSpec

\* A feed is put together of SELECTs of different moments, each cut off before
\* superseded rows are taken out, and yet it lists no snapshot that was superseded when
\* it began, drops for want of room only what newer rows displace, and counts the
\* reviews there were.
THEOREM FeedsAreCurrent == RecordSpec => []FeedIsCurrent
<1>1. IInv /\ PInv /\ FeedInv => FeedIsCurrent
  <2> SUFFICES ASSUME IInv, PInv, FeedInv, feed.kind # "none", feed.need = {}
               PROVE  FeedIsCurrent
    BY DEF FeedIsCurrent
  <2>0. /\ made \in [Publishers -> Nat] /\ feed.fetched \subseteq Rows /\ feed.before \subseteq Rows
        /\ Rows \subseteq Publishers /\ \A p \in Rows : made[p] > 0
        /\ PageLimit \in Nat
    BY ContentOK DEF PInv, PublicTypes, FeedInv, Reading, Rows, Stamps
  <2> DEFINE left == Fetched(feed.kind) \ Superseded
  <2>1. Listed \subseteq left /\ left \subseteq Rows
    BY <2>0 DEF Listed, Newest, Fetched
  <2>2. ASSUME NEW p \in Listed \cap Table("snapshot"), NEW q \in feed.before \cap Table("snapshot"),
               p \in Names(q)
        PROVE  FALSE
    <3>1. p \in feed.fetched /\ Content[p].kind = "snapshot" /\ Content[q].kind = "snapshot"
      BY <2>1, <2>2 DEF Fetched, Table
    <3>2. q \in Publishers /\ made[q] > 0
      BY <2>0, <2>2
    <3>3. made[p] < made[q]
      BY <2>2, <3>2 DEF FeedInv, Stamps
    <3>4. q \in Fetched("snapshot")
      BY <2>2, <3>1, <3>3 DEF FeedInv, Reading, Fetched
    <3> QED BY <2>1, <2>2, <3>4 DEF Superseded
  <2>3. ASSUME NEW p \in feed.before \ Listed, Content[p].kind = feed.kind, p \notin Superseded
        PROVE  \/ Cardinality(Newer(Listed, p)) >= PageLimit
               \/ Cardinality(Newer(Table(feed.kind), p)) >= EntityLimit
    <3>0. p \in Publishers
      BY <2>0, <2>3
    <3>1. CASE p \notin feed.fetched
      <4>1. Content[p].kind # "review" => Cut(Content[p].kind) = EntityLimit
        BY DEF Cut
      <4>2. Content[p].kind # "review"
        BY <2>3 DEF FeedInv, Reading
      <4> QED BY <2>3, <3>1, <4>1, <4>2 DEF FeedInv, Reading
    <3>2. CASE p \in feed.fetched
      <4> DEFINE over == Newer(left, p)
      <4>1. p \in left
        BY <2>3, <3>2 DEF Fetched
      <4>2. left \in SUBSET Publishers /\ over \in SUBSET Publishers /\ over \subseteq left
        BY <2>0, <2>1 DEF Newer
      <4>3. Cardinality(over) \in Nat
        BY <4>2, NewerFinite
      <4>4. PageLimit <= Cardinality(over)
        <5>1. ~(Cardinality(over) < PageLimit)
          BY <2>3, <4>1 DEF Listed, Newest
        <5> HIDE DEF over
        <5> QED BY <2>0, <4>3, <5>1
      <4>5. \A x, y \in over : made[x] = made[y] => x = y
        <5> HIDE DEF left, over
        <5> QED BY <2>0, <2>1, <4>2 DEF FeedInv, Stamps
      <4>6. \A x \in over : Newer(over, x) = Newer(left, x)
        <5>1. ASSUME NEW x \in over PROVE Newer(over, x) = Newer(left, x)
          <6>1. made[x] > made[p] /\ x \in Publishers /\ made[x] \in Nat /\ made[p] \in Nat
            BY <2>0, <3>0, <4>2, <5>1 DEF Newer
          <6>2. \A y \in left : made[y] \in Nat
            BY <2>0, <4>2
          <6> HIDE DEF left
          <6> QED BY <6>1, <6>2 DEF Newer
        <5> QED BY <5>1
      <4>7. Newest(over, PageLimit) = Newer(Listed, p)
        <5>1. Listed = {x \in left : Cardinality(Newer(left, x)) < PageLimit}
          BY DEF Listed, Newest
        <5>2. \A x : x \in Newest(over, PageLimit)
                       <=> x \in over /\ Cardinality(Newer(left, x)) < PageLimit
          <6> HIDE DEF over, left
          <6> QED BY <4>6 DEF Newest
        <5>3. \A x : x \in Newer(Listed, p) <=> x \in Listed /\ made[x] > made[p]
          BY DEF Newer
        <5>4. \A x : x \in over <=> x \in left /\ made[x] > made[p]
          BY DEF Newer
        <5>5. \A x : x \in Newest(over, PageLimit) <=> x \in Newer(Listed, p)
          <6> HIDE DEF over, left
          <6> QED BY <5>1, <5>2, <5>3, <5>4
        <5>6. Newest(over, PageLimit) \subseteq over /\ Newer(Listed, p) \subseteq Listed
          BY DEF Newest, Newer
        <5> QED BY <5>5, <5>6, Zenon
      <4>8. PageLimit <= Cardinality(Newest(over, PageLimit))
        <5> HIDE DEF over
        <5> QED BY <2>0, <4>2, <4>4, <4>5, NewestFill
      <4>9. Cardinality(Newer(Listed, p)) \in Nat
        <5>1. Listed \in SUBSET Publishers
          BY <2>0, <2>1
        <5> QED BY <5>1, NewerFinite
      <4> QED BY <2>0, <4>7, <4>8, <4>9
    <3> QED BY <3>1, <3>2
  <2>4. ASSUME NEW p \in Listed
        PROVE  /\ ReviewsOf(feed.fetched, p) \subseteq ReviewsOf(Rows, p)
               /\ \A r \in ReviewsOf(feed.before, p) \ feed.fetched :
                     Cardinality(Newer(Table("review"), r)) >= ReviewLimit
    <3>1. ReviewsOf(feed.fetched, p) \subseteq ReviewsOf(Rows, p)
      BY <2>0 DEF ReviewsOf
    <3>2. ASSUME NEW r \in ReviewsOf(feed.before, p) \ feed.fetched
          PROVE  Cardinality(Newer(Table("review"), r)) >= ReviewLimit
      <4>1. Content[r].kind = "review" /\ r \in feed.before \ feed.fetched
        BY <3>2 DEF ReviewsOf
      <4> QED BY <4>1 DEF FeedInv, Reading, Cut
    <3> QED BY <3>1, <3>2
  <2> QED BY <2>2, <2>3, <2>4 DEF FeedIsCurrent
<1> QED BY <1>1, LogInvariance, PublicInvariance, FeedInvariance, PTL
===============================================================================
