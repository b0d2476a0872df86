--------------------------- MODULE InvitationProofs ---------------------------
(***************************************************************************)
(* What inviting and accepting keep true, for any people, addresses, roles *)
(* and number of requests.  The invariant ties a request to the row it     *)
(* holds (Granting, HeldOnce): what acceptInvitation judged is still so    *)
(* when it commits, because nobody else holds the row.                     *)
(***************************************************************************)
EXTENDS Invitation, TLAPS

Holds(q, i) == request[q].inv = i /\ request[q].pc \in {"grant", "expire"}

\* A request that has not inserted its invitation has none.
Fresh == \A q \in Requests :
    request[q].pc \in {"idle", "insert"} => invitation[q].status = "absent"

\* Only an acceptance names an invitation, and it names one.
Unbound == \A q \in Requests :
    request[q].pc \in {"idle", "insert", "heal"} => request[q].inv = NoRequest

\* A row is held by one request.
HeldOnce == \A q1, q2 \in Requests :
    \A i \in Requests : Holds(q1, i) /\ Holds(q2, i) => q1 = q2

Acceptable(i, p) ==
    /\ i \in Requests /\ p \in Principals
    /\ invitation[i].status = "pending"
    /\ invitation[i].email = EmailOf[p] /\ invitation[i].inviter # p

\* What a request that is to grant has judged is so.
Granting == \A q \in Requests :
    At(q, "grant") => Acceptable(request[q].inv, request[q].by)

\* Who succeeded is in the row, once.
Taken == \A q \in Requests :
    At(q, "200") /\ request[q].inv # NoRequest =>
        /\ invitation[request[q].inv].status = "accepted"
        /\ invitation[request[q].inv].acceptedBy = request[q].by

TakenOnce == \A q1, q2 \in Requests :
    /\ At(q1, "200") /\ At(q2, "200") /\ request[q1].inv # NoRequest
    /\ request[q1].inv = request[q2].inv
    => q1 = q2

\* Nothing records that an invitation has expired: the write is rolled back.
NeverExpired == \A i \in Requests : invitation[i].status # "expired"

Inv == Fresh /\ Unbound /\ HeldOnce /\ Granting /\ Taken /\ TakenOnce
       /\ NeverExpired /\ RolesWereOffered

-----------------------------------------------------------------------------
(* Types.                                                                  *)

\* The rows and the calls have their types in the initial states.
LEMMA InitType == Init => TypeOK
<1> SUFFICES ASSUME Init PROVE TypeOK
  OBVIOUS
<1>1. NoRow \in Row
  BY SMT DEF NoRow, Row
<1>2. NewCall \in Call
  BY SMT DEF NewCall, Call
<1>3. acl \in [Principals -> Roles \cup {NoRole}]
  <2>1. {NoRole, Author} \subseteq Roles \cup {NoRole}
    BY ConstantsOK
  <2> QED BY <2>1, SMT DEF Init
<1> QED BY <1>1, <1>2, <1>3, SMT DEF Init, TypeOK

\* A request that goes to another place of its handler is still a call.
LEMMA GotoType ==
    ASSUME TypeOK, NEW q \in Requests,
           NEW pc \in {"idle", "insert", "grant", "expire", "heal", "200", "4xx", "410", "500"},
           Goto(q, pc)
    PROVE  /\ request' \in [Requests -> Call]
           /\ request'[q] = [pc |-> pc, by |-> request[q].by, inv |-> request[q].inv,
                             email |-> request[q].email, role |-> request[q].role]
           /\ \A q2 \in Requests \ {q} : request'[q2] = request[q2]
           /\ request'[q].pc = pc /\ request'[q].inv = request[q].inv
           /\ request'[q].by = request[q].by
<1>1. request[q] \in Call
  BY SMT DEF TypeOK
<1>2. request' = [request EXCEPT ![q] = [request[q] EXCEPT !.pc = pc]]
  BY SMT DEF Goto
<1>3. [request[q] EXCEPT !.pc = pc] =
        [pc |-> pc, by |-> request[q].by, inv |-> request[q].inv,
         email |-> request[q].email, role |-> request[q].role]
  BY <1>1, SMT DEF Call
<1>4. [pc |-> pc, by |-> request[q].by, inv |-> request[q].inv,
       email |-> request[q].email, role |-> request[q].role] \in Call
  BY <1>1, SMT DEF Call
<1>5. /\ request' \in [Requests -> Call]
      /\ request'[q] = [pc |-> pc, by |-> request[q].by, inv |-> request[q].inv,
                       email |-> request[q].email, role |-> request[q].role]
      /\ \A q2 \in Requests \ {q} : request'[q2] = request[q2]
  BY <1>2, <1>3, <1>4, SMT DEF TypeOK
<1> QED BY <1>5

\* A function keeps its type when a value of its range replaces another.
LEMMA ExceptType ==
    ASSUME NEW S, NEW T, NEW f \in [S -> T], NEW x, NEW v \in T
    PROVE  [f EXCEPT ![x] = v] \in [S -> T]
<1>1. [f EXCEPT ![x] = v] = [y \in S |-> IF y = x THEN v ELSE f[y]]
  OBVIOUS
<1>2. \A y \in S : (IF y = x THEN v ELSE f[y]) \in T
  OBVIOUS
<1> QED BY <1>1, <1>2

\* Every step keeps the types.
LEMMA StepType == TypeOK /\ Granting /\ [Next]_vars => TypeOK'
<1> SUFFICES ASSUME TypeOK, Granting, [Next]_vars PROVE TypeOK'
  OBVIOUS
<1>1. ASSUME NEW q \in Requests, NEW p \in Principals, NEW e \in Emails, NEW r \in Roles,
             Invite(q, p, e, r)
      PROVE  TypeOK'
  <2>1. [pc |-> IF acl[p] = Author THEN "insert" ELSE "4xx",
         by |-> p, inv |-> NoRequest, email |-> e, role |-> r] \in Call
    BY SMT DEF Call
  <2> QED BY <1>1, <2>1, SMT DEF Invite, TypeOK
<1>2. ASSUME NEW q \in Requests, NEW p \in Principals, NEW i \in Requests, Accept(q, p, i)
      PROVE  TypeOK'
  <2>1. Verdict(p, i) \in {"4xx", "expire", "grant"}
    BY DEF Verdict
  <2>2. [pc |-> Verdict(p, i), by |-> p, inv |-> i,
         email |-> NoEmail, role |-> NoRole] \in Call
    BY <2>1, SMT DEF Call
  <2> QED BY <1>2, <2>2, SMT DEF Accept, TypeOK
<1>3. ASSUME NEW q \in Requests, Insert(q)
      PROVE  TypeOK'
  <2>1. Goto(q, "200") \/ Goto(q, "4xx")
    BY <1>3, SMT DEF Insert
  <2>2. request' \in [Requests -> Call]
    BY <2>1, GotoType
  <2>3. request[q] \in Call
    BY SMT DEF TypeOK
  <2>4. Invited(q) \in Row
    BY <2>3, SMT DEF Invited, Call, Row
  <2> QED BY <1>3, <2>2, <2>4, SMT DEF Insert, TypeOK
<1>4. ASSUME NEW q \in Requests, Grant(q)
      PROVE  TypeOK'
  <2>1. At(q, "grant") /\ Goto(q, "200")
    BY <1>4 DEF Grant
  <2>2. request' \in [Requests -> Call]
    BY <2>1, GotoType
  <2>3. request[q].inv \in Requests /\ request[q].by \in Principals
    BY <2>1 DEF Granting, Acceptable
  <2>4. invitation[request[q].inv] \in Row
    BY <2>3, SMT DEF TypeOK
  <2>5. /\ Accepted(request[q].inv, request[q].by) \in Row
        /\ invitation[request[q].inv].role \in Roles \cup {NoRole}
    BY <2>3, <2>4, SMT DEF Accepted, Row
  <2>6. /\ acl' = [acl EXCEPT ![request[q].by] = invitation[request[q].inv].role]
        /\ invitation' = [invitation EXCEPT ![request[q].inv] =
                            Accepted(request[q].inv, request[q].by)]
        /\ overdue' = overdue
    BY <1>4 DEF Grant
  <2>7. invitation' \in [Requests -> Row]
    <3>1. invitation \in [Requests -> Row]
      BY DEF TypeOK
    <3> QED BY <2>5, <2>6, <3>1, ExceptType
  <2>8. acl' \in [Principals -> Roles \cup {NoRole}]
    <3>1. acl \in [Principals -> Roles \cup {NoRole}]
      BY DEF TypeOK
    <3> QED BY <2>5, <2>6, <3>1, ExceptType
  <2> QED BY <2>2, <2>6, <2>7, <2>8 DEF TypeOK
<1>5. ASSUME NEW q \in Requests, Expire(q)
      PROVE  TypeOK'
  <2>1. Goto(q, "410")
    BY <1>5 DEF Expire
  <2>2. request' \in [Requests -> Call]
    BY <2>1, GotoType
  <2> QED BY <1>5, <2>2 DEF Expire, TypeOK
<1>6. ASSUME NEW q \in Requests, Visit(q)
      PROVE  TypeOK'
  <2>1. [pc |-> IF acl[Owner] = NoRole THEN "heal" ELSE "200", by |-> Owner,
         inv |-> NoRequest, email |-> NoEmail, role |-> NoRole] \in Call
    BY ConstantsOK, SMT DEF Call
  <2> QED BY <1>6, <2>1, SMT DEF Visit, TypeOK
<1>7. ASSUME NEW q \in Requests, Heal(q)
      PROVE  TypeOK'
  <2>1. Goto(q, "200")
    BY <1>7 DEF Heal
  <2>2. request' \in [Requests -> Call]
    BY <2>1, GotoType
  <2> QED BY <1>7, <2>2, ConstantsOK, SMT DEF Heal, TypeOK
<1>8. ASSUME NEW q \in Requests, Pass(q)
      PROVE  TypeOK'
  BY <1>8, SMT DEF Pass, TypeOK
<1>9. ASSUME NEW q \in Requests, Fail(q)
      PROVE  TypeOK'
  <2>1. Goto(q, "500")
    BY <1>9 DEF Fail
  <2>2. request' \in [Requests -> Call]
    BY <2>1, GotoType
  <2> QED BY <1>9, <2>2 DEF Fail, TypeOK
<1>10. CASE UNCHANGED vars
  BY <1>10 DEF vars, TypeOK
<1> QED BY <1>1, <1>2, <1>3, <1>4, <1>5, <1>6, <1>7, <1>8, <1>9, <1>10 DEF Next

-----------------------------------------------------------------------------
(* Steps that change only one request.                                     *)

\* At first there are no invitations and every request is idle.
LEMMA InitInv == Init => Inv
<1> SUFFICES ASSUME Init PROVE Inv
  OBVIOUS
<1>1. \A q \in Requests : /\ invitation[q].status = "absent"
                          /\ request[q].pc = "idle" /\ request[q].inv = NoRequest
  BY SMT DEF Init, NoRow, NewCall
<1>2. Fresh /\ Unbound /\ HeldOnce /\ Granting /\ Taken /\ TakenOnce
  BY <1>1, SMT DEF Fresh, Unbound, HeldOnce, Holds, Granting, Taken, TakenOnce, At
<1>3. RolesWereOffered /\ NeverExpired
  BY <1>1 DEF RolesWereOffered, NeverExpired, Init
<1> QED BY <1>2, <1>3 DEF Inv

\* When no row changes, the invariant asks of the request that moves only
\* what its new place claims.
LEMMA OneRequest ==
    ASSUME Inv, NEW q \in Requests, UNCHANGED <<invitation, acl>>,
           \A q2 \in Requests \ {q} : request'[q2] = request[q2],
           request'[q].pc \in {"idle", "insert"} => invitation[q].status = "absent",
           request'[q].pc = "grant" => Acceptable(request'[q].inv, request'[q].by),
           request'[q].pc \in {"grant", "expire"} =>
               \A q2 \in Requests \ {q} : ~Holds(q2, request'[q].inv),
           request'[q].pc \in {"idle", "insert", "heal", "200"} => request'[q].inv = NoRequest
    PROVE  Inv'
<1>1. Fresh' /\ Unbound'
  BY SMT DEF Inv, Fresh, Unbound
<1>2. HeldOnce'
  BY SMT DEF Inv, HeldOnce, Holds
<1>3. Granting'
  BY SMT DEF Inv, Granting, Acceptable, At
<1>4. Taken' /\ TakenOnce'
  BY SMT DEF Inv, Taken, TakenOnce, At
<1>5. NeverExpired' /\ RolesWereOffered'
  BY SMT DEF Inv, NeverExpired, RolesWereOffered
<1> QED BY <1>1, <1>2, <1>3, <1>4, <1>5 DEF Inv

\* A creation that reads its caller's rights.
LEMMA InviteInv ==
    ASSUME TypeOK, Inv, NEW q \in Requests, NEW p \in Principals, NEW e \in Emails,
           NEW r \in Roles, Invite(q, p, e, r)
    PROVE  Inv'
<1>1. /\ \A q2 \in Requests \ {q} : request'[q2] = request[q2]
      /\ request'[q] = [pc |-> IF acl[p] = Author THEN "insert" ELSE "4xx",
                       by |-> p, inv |-> NoRequest, email |-> e, role |-> r]
  BY SMT DEF Invite, TypeOK
<1>2. invitation[q].status = "absent"
  BY DEF Inv, Fresh, Invite, At
<1>3. request'[q].pc = IF acl[p] = Author THEN "insert" ELSE "4xx"
  BY <1>1
<1>4. UNCHANGED <<invitation, acl>> /\ request'[q].inv = NoRequest
  BY <1>1 DEF Invite
<1> QED BY <1>1, <1>2, <1>3, <1>4, OneRequest

\* An acceptance that takes the row, or refuses.
LEMMA AcceptInv ==
    ASSUME TypeOK, Inv, NEW q \in Requests, NEW p \in Principals, NEW i \in Requests,
           Accept(q, p, i)
    PROVE  Inv'
<1>1. /\ \A q2 \in Requests \ {q} : request'[q2] = request[q2]
      /\ request'[q] = [pc |-> Verdict(p, i), by |-> p, inv |-> i,
                       email |-> NoEmail, role |-> NoRole]
  BY SMT DEF Accept, TypeOK
<1>2. \A q2 \in Requests : ~Holds(q2, i)
  BY DEF Accept, Held, Holds
<1>3. Verdict(p, i) \in {"4xx", "expire", "grant"}
  BY DEF Verdict
<1>4. Verdict(p, i) = "grant" => Acceptable(i, p)
  <2>1. invitation[i].status \in {"absent", "pending", "accepted", "expired"}
    BY SMT DEF TypeOK, Row
  <2>2. invitation[i].status # "expired"
    BY DEF Inv, NeverExpired
  <2> QED BY <2>1, <2>2 DEF Verdict, Acceptable
<1>5. UNCHANGED <<invitation, acl>>
  BY DEF Accept
<1>6. request'[q].pc = Verdict(p, i) /\ request'[q].by = p /\ request'[q].inv = i
  BY <1>1
<1> QED BY <1>1, <1>2, <1>3, <1>4, <1>5, <1>6, OneRequest

\* A page of the owner's that reads the owner's row.
LEMMA VisitInv ==
    ASSUME TypeOK, Inv, NEW q \in Requests, Visit(q)
    PROVE  Inv'
<1>1. /\ \A q2 \in Requests \ {q} : request'[q2] = request[q2]
      /\ request'[q] = [pc |-> IF acl[Owner] = NoRole THEN "heal" ELSE "200", by |-> Owner,
                       inv |-> NoRequest, email |-> NoEmail, role |-> NoRole]
  BY SMT DEF Visit, TypeOK
<1>2. /\ request'[q].pc = IF acl[Owner] = NoRole THEN "heal" ELSE "200"
      /\ request'[q].inv = NoRequest
  BY <1>1
<1>3. UNCHANGED <<invitation, acl>>
  BY DEF Visit
<1> QED BY <1>1, <1>2, <1>3, OneRequest

\* A request that ends without a success, whatever it was at.
LEMMA EndInv ==
    ASSUME TypeOK, Inv, NEW q \in Requests, NEW pc \in {"4xx", "410", "500"},
           Goto(q, pc), UNCHANGED <<invitation, acl>>
    PROVE  Inv'
<1>1. /\ \A q2 \in Requests \ {q} : request'[q2] = request[q2]
      /\ request'[q] = [pc |-> pc, by |-> request[q].by, inv |-> request[q].inv,
                       email |-> request[q].email, role |-> request[q].role]
  BY GotoType
<1>2. request'[q].pc = pc
  BY <1>1
<1> QED BY <1>1, <1>2, OneRequest

-----------------------------------------------------------------------------
(* Steps that write rows.                                                  *)

\* An insertion that finds no pending row for the address.
LEMMA InsertInv ==
    ASSUME TypeOK, Inv, NEW q \in Requests, Insert(q), Pending(request[q].email) = {}
    PROVE  Inv'
<1>1. /\ Goto(q, "200") /\ acl' = acl
      /\ invitation' = [invitation EXCEPT ![q] = Invited(q)]
      /\ request[q].pc = "insert"
  BY DEF Insert, At
<1>2. /\ \A q2 \in Requests \ {q} : request'[q2] = request[q2]
      /\ request'[q].pc = "200" /\ request'[q].inv = request[q].inv
  BY <1>1, GotoType
<1>3. /\ \A i \in Requests \ {q} : invitation'[i] = invitation[i]
      /\ invitation'[q].status = "pending" /\ invitation'[q].inviter = request[q].by
  BY <1>1, SMT DEF TypeOK, Invited
<1>4. invitation[q].status = "absent"
  BY <1>1 DEF Inv, Fresh
<1>5. request[q].inv = NoRequest
  BY <1>1 DEF Inv, Unbound
<1>6. Fresh'
  BY <1>2, <1>3, SMT DEF Inv, Fresh
<1>7. HeldOnce' /\ Unbound'
  BY <1>2, <1>5, SMT DEF Inv, HeldOnce, Holds, Unbound
<1>8. Granting'
  BY <1>2, <1>3, <1>4, SMT DEF Inv, Granting, Acceptable, At
<1>9. Taken'
  <2> SUFFICES ASSUME NEW q1 \in Requests, request'[q1].pc = "200", request'[q1].inv # NoRequest
               PROVE  /\ invitation'[request'[q1].inv].status = "accepted"
                      /\ invitation'[request'[q1].inv].acceptedBy = request'[q1].by
    BY DEF Taken, At
  <2>1. q1 # q
    BY <1>2, <1>5
  <2>2. /\ invitation[request[q1].inv].status = "accepted"
        /\ invitation[request[q1].inv].acceptedBy = request[q1].by
        /\ request'[q1] = request[q1] /\ request[q1].inv \in Requests
    BY <1>2, <2>1, SMT DEF Inv, Taken, At, TypeOK, Call
  <2> QED BY <1>3, <1>4, <2>2
<1>10. TakenOnce'
  BY <1>2, <1>5, SMT DEF Inv, TakenOnce, At
<1>11. NeverExpired'
  BY <1>3, SMT DEF Inv, NeverExpired
<1>12. RolesWereOffered'
  BY <1>1, <1>3, <1>4, SMT DEF Inv, RolesWereOffered
<1> QED BY <1>6, <1>7, <1>8, <1>9, <1>10, <1>11, <1>12 DEF Inv

\* An acceptance that commits what it judged.
LEMMA GrantInv ==
    ASSUME TypeOK, Inv, NEW q \in Requests, Grant(q)
    PROVE  Inv'
<1> DEFINE i == request[q].inv
           p == request[q].by
<1>1. /\ Goto(q, "200") /\ request[q].pc = "grant" /\ request[q].inv = i /\ request[q].by = p
      /\ acl' = [acl EXCEPT ![p] = invitation[i].role]
      /\ invitation' = [invitation EXCEPT ![i] = Accepted(i, p)]
  BY DEF Grant, At
<1>2. /\ \A q2 \in Requests \ {q} : request'[q2] = request[q2]
      /\ request'[q].pc = "200" /\ request'[q].inv = i /\ request'[q].by = p
  BY <1>1, GotoType
<1>3. /\ i \in Requests /\ p \in Principals
      /\ invitation[i].status = "pending"
      /\ invitation[i].email = EmailOf[p] /\ invitation[i].inviter # p
  BY <1>1 DEF Inv, Granting, Acceptable, At
<1>4. /\ \A j \in Requests \ {i} : invitation'[j] = invitation[j]
      /\ invitation'[i] = Accepted(i, p)
      /\ \A p2 \in Principals \ {p} : acl'[p2] = acl[p2]
      /\ acl'[p] = invitation[i].role
  BY <1>1, <1>3, SMT DEF TypeOK
<1>5. /\ invitation'[i].status = "accepted" /\ invitation'[i].acceptedBy = p
      /\ invitation'[i].inviter = invitation[i].inviter
      /\ invitation'[i].email = invitation[i].email
      /\ invitation'[i].role = invitation[i].role
  BY <1>4 DEF Accepted
<1> HIDE DEF i, p
<1>6. Fresh'
  BY <1>2, <1>3, <1>4, SMT DEF Inv, Fresh
<1>7. HeldOnce' /\ Unbound'
  BY <1>2, SMT DEF Inv, HeldOnce, Holds, Unbound
<1>8. Granting'
  <2> SUFFICES ASSUME NEW q2 \in Requests, request'[q2].pc = "grant"
               PROVE  /\ request'[q2].inv \in Requests /\ request'[q2].by \in Principals
                      /\ invitation'[request'[q2].inv].status = "pending"
                      /\ invitation'[request'[q2].inv].email = EmailOf[request'[q2].by]
                      /\ invitation'[request'[q2].inv].inviter # request'[q2].by
    BY DEF Granting, Acceptable, At
  <2>1. q2 # q /\ request'[q2] = request[q2]
    BY <1>2
  <2>2. request[q2].pc = "grant" /\ Acceptable(request[q2].inv, request[q2].by)
    BY <2>1 DEF Inv, Granting, At
  <2>3. request[q2].inv # i
    BY <1>1, <1>3, <2>1, <2>2 DEF Inv, HeldOnce, Holds
  <2> QED BY <1>4, <2>1, <2>2, <2>3 DEF Acceptable
<1>9. \A q2 \in Requests \ {q} :
        At(q2, "200") /\ request[q2].inv # NoRequest =>
           request[q2].inv # i /\ request[q2].inv \in Requests
  BY <1>3, SMT DEF Inv, Taken, TypeOK, Call
<1>10. Taken'
  <2> SUFFICES ASSUME NEW q2 \in Requests, request'[q2].pc = "200", request'[q2].inv # NoRequest
               PROVE  /\ invitation'[request'[q2].inv].status = "accepted"
                      /\ invitation'[request'[q2].inv].acceptedBy = request'[q2].by
    BY DEF Taken, At
  <2>1. CASE q2 = q
    BY <1>2, <1>5, <2>1
  <2>2. CASE q2 # q
    BY <1>2, <1>4, <1>9, <2>2 DEF Inv, Taken, At
  <2> QED BY <2>1, <2>2
<1>11. TakenOnce'
  BY <1>2, <1>9, SMT DEF Inv, TakenOnce, At
<1>12. NeverExpired'
  BY <1>3, <1>4, <1>5, SMT DEF Inv, NeverExpired
<1>13. \A j \in Requests : invitation[j].status = "accepted" => invitation'[j] = invitation[j]
  BY <1>3, <1>4
<1>14. RolesWereOffered'
  <2> SUFFICES ASSUME NEW p2 \in Principals, acl'[p2] # NoRole, ~(p2 = Owner /\ acl'[p2] = Author)
               PROVE  \E j \in Requests :
                        /\ invitation'[j].status = "accepted" /\ invitation'[j].acceptedBy = p2
                        /\ invitation'[j].role = acl'[p2] /\ invitation'[j].email = EmailOf[p2]
                        /\ invitation'[j].inviter # p2
    BY DEF RolesWereOffered
  <2>1. CASE p2 = p
    BY <1>3, <1>4, <1>5, <2>1
  <2>2. CASE p2 # p
    <3>1. acl'[p2] = acl[p2]
      BY <1>4, <2>2
    <3>2. PICK j \in Requests :
            /\ invitation[j].status = "accepted" /\ invitation[j].acceptedBy = p2
            /\ invitation[j].role = acl[p2] /\ invitation[j].email = EmailOf[p2]
            /\ invitation[j].inviter # p2
      BY <3>1 DEF Inv, RolesWereOffered
    <3>3. invitation'[j] = invitation[j]
      BY <1>13, <3>2
    <3> QED BY <3>1, <3>2, <3>3
  <2> QED BY <2>1, <2>2
<1> QED BY <1>6, <1>7, <1>8, <1>10, <1>11, <1>12, <1>14 DEF Inv

\* The owner's row, restored.
LEMMA HealInv ==
    ASSUME TypeOK, Inv, NEW q \in Requests, Heal(q)
    PROVE  Inv'
<1>1. /\ Goto(q, "200") /\ request[q].pc = "heal" /\ invitation' = invitation
      /\ acl' = [acl EXCEPT ![Owner] = Author]
  BY DEF Heal, At
<1>2. /\ \A q2 \in Requests \ {q} : request'[q2] = request[q2]
      /\ request'[q].pc = "200" /\ request'[q].inv = request[q].inv
  BY <1>1, GotoType
<1>3. request[q].inv = NoRequest
  BY <1>1 DEF Inv, Unbound
<1>4. \A p \in Principals : acl'[p] = IF p = Owner THEN Author ELSE acl[p]
  BY <1>1, SMT DEF TypeOK
<1>5. Fresh' /\ Unbound' /\ HeldOnce'
  BY <1>1, <1>2, <1>3, SMT DEF Inv, Fresh, Unbound, HeldOnce, Holds
<1>6. Granting'
  BY <1>1, <1>2, SMT DEF Inv, Granting, Acceptable, At
<1>7. Taken' /\ TakenOnce'
  BY <1>1, <1>2, <1>3, SMT DEF Inv, Taken, TakenOnce, At
<1>8. NeverExpired'
  BY <1>1 DEF Inv, NeverExpired
<1>9. RolesWereOffered'
  BY <1>1, <1>4 DEF Inv, RolesWereOffered
<1> QED BY <1>5, <1>6, <1>7, <1>8, <1>9 DEF Inv

\* Every step keeps the invariant.
LEMMA StepInv == TypeOK /\ Inv /\ [Next]_vars => Inv'
<1> SUFFICES ASSUME TypeOK, Inv, [Next]_vars PROVE Inv'
  OBVIOUS
<1>1. ASSUME NEW q \in Requests, Insert(q) PROVE Inv'
  <2>1. CASE Pending(request[q].email) = {}
    BY <1>1, <2>1, InsertInv
  <2>2. CASE Pending(request[q].email) # {}
    <3>1. Goto(q, "4xx") /\ UNCHANGED <<invitation, acl>>
      BY <1>1, <2>2 DEF Insert
    <3> QED BY <3>1, EndInv
  <2> QED BY <2>1, <2>2
<1>2. ASSUME NEW q \in Requests, Expire(q) \/ Fail(q) PROVE Inv'
  <2>1. \/ Goto(q, "410") /\ UNCHANGED <<invitation, acl>>
        \/ Goto(q, "500") /\ UNCHANGED <<invitation, acl>>
    BY <1>2 DEF Expire, Fail
  <2> QED BY <2>1, EndInv
<1>3. ASSUME UNCHANGED <<invitation, acl, request>> PROVE Inv'
  BY <1>3 DEF Inv, Fresh, Unbound, HeldOnce, Holds, Granting, Acceptable, Taken, TakenOnce,
              NeverExpired, RolesWereOffered, At
<1>4. ASSUME NEW q \in Requests, Pass(q) PROVE Inv'
  BY <1>3, <1>4 DEF Pass
<1>5. CASE UNCHANGED vars
  BY <1>3, <1>5 DEF vars
<1> QED BY <1>1, <1>2, <1>4, <1>5, InviteInv, AcceptInv, GrantInv, VisitInv, HealInv DEF Next

-----------------------------------------------------------------------------
(* The theorems.                                                           *)

\* The invariant holds in every reachable state.
THEOREM Invariant == Spec => [](TypeOK /\ Inv)
<1>1. Init => TypeOK /\ Inv
  BY InitType, InitInv
<1>2. TypeOK /\ Inv /\ [Next]_vars => TypeOK' /\ Inv'
  BY StepType, StepInv DEF Inv
<1> QED BY <1>1, <1>2, PTL DEF Spec

\* Rows and calls keep their types.
THEOREM TypeCorrect == Spec => []TypeOK
  BY Invariant, PTL

\* Of the acceptances of one invitation one succeeds, however they race.
THEOREM OneAcceptanceSucceeds == Spec => []AcceptedOnce
<1>1. TypeOK /\ Inv => AcceptedOnce
  <2> SUFFICES ASSUME TypeOK, Inv, NEW q1 \in Requests, NEW q2 \in Requests,
                      At(q1, "200"), request[q1].inv # NoRequest,
                      request[q2].inv = request[q1].inv
               PROVE  /\ invitation[request[q1].inv].acceptedBy = request[q1].by
                      /\ At(q2, "200") => q1 = q2
                      /\ ~At(q2, "grant")
    BY DEF AcceptedOnce
  <2>1. /\ invitation[request[q1].inv].status = "accepted"
        /\ invitation[request[q1].inv].acceptedBy = request[q1].by
    BY DEF Inv, Taken
  <2>2. At(q2, "200") => q1 = q2
    BY DEF Inv, TakenOnce
  <2>3. ~At(q2, "grant")
    BY <2>1 DEF Inv, Granting, Acceptable
  <2> QED BY <2>1, <2>2, <2>3
<1> QED BY <1>1, Invariant, PTL

\* Every role was offered to its holder, by another, and accepted.
THEOREM MembersWereInvited == Spec => []RolesWereOffered
<1>1. TypeOK /\ Inv => RolesWereOffered
  BY DEF Inv
<1> QED BY <1>1, Invariant, PTL

\* A role and the invitation that gives it change together.
THEOREM RoleAndRowChangeTogether == Spec => GrantIsOneAcceptance
<1> DEFINE RoleIsGiven ==
             \A p \in Principals : acl'[p] # acl[p] =>
               \/ p = Owner /\ acl'[p] = Author
               \/ \E i \in Requests :
                     /\ invitation[i].status = "pending"
                     /\ invitation'[i] = Accepted(i, p)
                     /\ acl'[p] = invitation[i].role
           RowGives ==
             \A i \in Requests :
               invitation[i].status = "pending" /\ invitation'[i] # invitation[i] =>
                 \E p \in Principals :
                    /\ invitation'[i] = Accepted(i, p)
                    /\ acl'[p] = invitation[i].role
<1>1. TypeOK /\ Inv /\ [Next]_vars => [RoleIsGiven /\ RowGives]_vars
  <2> SUFFICES ASSUME TypeOK, Inv, Next PROVE RoleIsGiven /\ RowGives
    OBVIOUS
  <2>1. ASSUME NEW q \in Requests, Grant(q) PROVE RoleIsGiven /\ RowGives
    <3>1. /\ request[q].inv \in Requests /\ request[q].by \in Principals
          /\ invitation[request[q].inv].status = "pending"
      BY <2>1 DEF Inv, Granting, Acceptable, Grant
    <3>2. /\ \A j \in Requests \ {request[q].inv} : invitation'[j] = invitation[j]
          /\ invitation'[request[q].inv] = Accepted(request[q].inv, request[q].by)
          /\ \A p \in Principals \ {request[q].by} : acl'[p] = acl[p]
          /\ acl'[request[q].by] = invitation[request[q].inv].role
      BY <2>1, <3>1, SMT DEF Grant, TypeOK
    <3> QED BY <3>1, <3>2
  <2>2. ASSUME NEW q \in Requests, Heal(q) PROVE RoleIsGiven /\ RowGives
    <3>1. invitation' = invitation
      BY <2>2 DEF Heal
    <3>2. \A p \in Principals : acl'[p] = IF p = Owner THEN Author ELSE acl[p]
      BY <2>2, SMT DEF Heal, TypeOK
    <3> QED BY <3>1, <3>2
  <2>3. ASSUME NEW q \in Requests, Insert(q) PROVE RoleIsGiven /\ RowGives
    <3>1. acl' = acl
      BY <2>3 DEF Insert
    <3>2. \/ invitation' = invitation
          \/ invitation' = [invitation EXCEPT ![q] = Invited(q)]
      BY <2>3 DEF Insert
    <3>3. invitation[q].status = "absent"
      BY <2>3 DEF Inv, Fresh, Insert, At
    <3>4. \A i \in Requests : i # q => invitation'[i] = invitation[i]
      BY <3>2, SMT DEF TypeOK
    <3> QED BY <3>1, <3>3, <3>4
  <2>4. ASSUME UNCHANGED <<invitation, acl>> PROVE RoleIsGiven /\ RowGives
    BY <2>4
  <2>5. ASSUME NEW q \in Requests,
               \/ Expire(q) \/ Visit(q) \/ Pass(q) \/ Fail(q)
               \/ \E p \in Principals, e \in Emails, r \in Roles : Invite(q, p, e, r)
               \/ \E p \in Principals, i \in Requests : Accept(q, p, i)
        PROVE  UNCHANGED <<invitation, acl>>
    BY <2>5 DEF Expire, Visit, Pass, Fail, Invite, Accept
  <2> QED BY <2>1, <2>2, <2>3, <2>4, <2>5 DEF Next
<1> QED BY <1>1, Invariant, PTL DEF Spec, GrantIsOneAcceptance

\* An invitation that lapsed with no acceptance under way stays as it is: acceptInvitation
\* refuses it, and takes back what it wrote.
THEOREM LapsedGivesNothing == Spec => LapsedIsFinal
<1>1. TypeOK /\ Inv /\ [Next]_vars => [\A i \in Requests : Lapsed(i) => Lapsed(i)']_vars
  <2> SUFFICES ASSUME TypeOK, Inv, Next, NEW i \in Requests, Lapsed(i) PROVE Lapsed(i)'
    OBVIOUS
  <2>1. /\ invitation[i].status = "pending" /\ i \in overdue
        /\ \A q \in Requests : ~(request[q].pc = "grant" /\ request[q].inv = i)
    BY DEF Lapsed, At
  <2>2. overdue \subseteq overdue'
    BY DEF Next, Invite, Accept, Insert, Grant, Expire, Visit, Heal, Pass, Fail
  <2>3. invitation'[i].status = "pending"
    <3>1. ASSUME NEW q \in Requests, Insert(q) PROVE invitation'[i] = invitation[i]
      <4>1. i # q
        BY <2>1, <3>1 DEF Inv, Fresh, Insert, At
      <4> QED BY <3>1, <4>1, SMT DEF Insert, TypeOK
    <3>2. ASSUME NEW q \in Requests, Grant(q) PROVE invitation'[i] = invitation[i]
      <4>1. i # request[q].inv
        BY <2>1, <3>2 DEF Grant, At
      <4> QED BY <3>2, <4>1, SMT DEF Grant, TypeOK
    <3>3. ASSUME invitation' = invitation PROVE invitation'[i] = invitation[i]
      BY <3>3
    <3> QED BY <2>1, <3>1, <3>2, <3>3 DEF Next, Invite, Accept, Expire, Visit, Heal, Pass, Fail
  <2>4. ASSUME NEW q \in Requests, request'[q].pc = "grant", request'[q].inv = i PROVE FALSE
    <3>1. ASSUME NEW q2 \in Requests, NEW pc, pc # "grant", Goto(q2, pc) PROVE FALSE
      BY <2>1, <2>4, <3>1, SMT DEF Goto, TypeOK, Call
    <3>2. ASSUME NEW q2 \in Requests, NEW p \in Principals, NEW e \in Emails, NEW r \in Roles,
                 Invite(q2, p, e, r)
          PROVE  FALSE
      BY <2>1, <2>4, <3>2, SMT DEF Invite, TypeOK
    <3>3. ASSUME NEW q2 \in Requests, NEW p \in Principals, NEW j \in Requests, Accept(q2, p, j)
          PROVE  FALSE
      <4>1. j = i => Verdict(p, j) # "grant"
        BY <2>1 DEF Verdict
      <4> QED BY <2>1, <2>4, <3>3, <4>1, SMT DEF Accept, TypeOK
    <3>4. ASSUME NEW q2 \in Requests, Visit(q2) PROVE FALSE
      BY <2>1, <2>4, <3>4, SMT DEF Visit, TypeOK
    <3>5. ASSUME NEW q2 \in Requests, Insert(q2) PROVE FALSE
      <4>1. Goto(q2, "200") \/ Goto(q2, "4xx")
        BY <3>5 DEF Insert
      <4> QED BY <3>1, <4>1
    <3>6. ASSUME request' = request PROVE FALSE
      BY <2>1, <2>4, <3>6
    <3> QED BY <3>1, <3>2, <3>3, <3>4, <3>5, <3>6 DEF Next, Grant, Expire, Heal, Pass, Fail
  <2> QED BY <2>1, <2>2, <2>3, <2>4 DEF Lapsed, At
<1> QED BY <1>1, Invariant, PTL DEF Spec, LapsedIsFinal
=============================================================================
