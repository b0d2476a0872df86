------------------------------ MODULE Invitation ------------------------------
(***************************************************************************)
(* How people get into a document: an author invites an e-mail address, the *)
(* person who signs in with it accepts, and acceptance writes the person's *)
(* row of document_acl.  The owner's row is written when the document is   *)
(* made, or by the first page the owner opens when there is none.          *)
(*                                                                         *)
(* One document.  A request stands for the invitation it makes.  Creating  *)
(* one is two statements with nothing held between them: the caller's row  *)
(* of document_acl is read, and the invitation is inserted later.          *)
(* Accepting is one transaction, which holds the invitation's row          *)
(* (SELECT ... FOR UPDATE) and whose writes are seen when it commits.      *)
(* Nothing in the code writes the status 'revoked', nor deletes a row of   *)
(* either table.                                                           *)
(*                                                                         *)
(* ADR-0002 and the comments of the route leave granting to the owner; the *)
(* code asks for capability.grant, which every author has (Invite).        *)
(***************************************************************************)
EXTENDS FiniteSets

CONSTANTS
    Principals,   \* the people with an account
    Owner,        \* document.owner_principal_id
    Emails,       \* addresses, trimmed and in lower case
    EmailOf,      \* each principal's session.user.email
    Roles,        \* DEFAULT_ROLE_IDS
    Author,       \* 'paper-author', the one role with capability.grant
    Requests      \* calls of the routes and page loads

NoRole    == "no role"
NoOne     == "no one"
NoEmail   == "no email"
NoRequest == "no request"

ASSUME ConstantsOK ==
    /\ Owner \in Principals /\ Author \in Roles
    /\ EmailOf \in [Principals -> Emails]
    /\ NoRole \notin Roles /\ NoOne \notin Principals
    /\ NoEmail \notin Emails /\ NoRequest \notin Requests

VARIABLES
    invitation,   \* the rows of doc_invitation
    acl,          \* role_id of the document's rows of document_acl
    overdue,      \* invitations whose expires_at has passed
    request       \* what each request is doing

vars == <<invitation, acl, overdue, request>>

Row == [status : {"absent", "pending", "accepted", "expired"},
        inviter : Principals \cup {NoOne},
        email : Emails \cup {NoEmail},
        role : Roles \cup {NoRole},
        acceptedBy : Principals \cup {NoOne}]

Call == [pc : {"idle", "insert", "grant", "expire", "heal", "200", "4xx", "410", "500"},
         by : Principals \cup {NoOne},
         inv : Requests \cup {NoRequest},          \* the invitation accepted
         email : Emails \cup {NoEmail},            \* what a creation asks for
         role : Roles \cup {NoRole}]

TypeOK ==
    /\ invitation \in [Requests -> Row]
    /\ acl \in [Principals -> Roles \cup {NoRole}]
    /\ overdue \in SUBSET Requests
    /\ request \in [Requests -> Call]

NoRow == [status |-> "absent", inviter |-> NoOne, email |-> NoEmail,
          role |-> NoRole, acceptedBy |-> NoOne]

NewCall == [pc |-> "idle", by |-> NoOne, inv |-> NoRequest,
            email |-> NoEmail, role |-> NoRole]

\* docs/new writes the owner's row with the document; seeds write none.
Init ==
    /\ invitation = [q \in Requests |-> NoRow]
    /\ acl \in [Principals -> {NoRole, Author}]
    /\ \A p \in Principals \ {Owner} : acl[p] = NoRole
    /\ overdue = {}
    /\ request = [q \in Requests |-> NewCall]

At(q, pc) == request[q].pc = pc

Goto(q, pc) == request' = [request EXCEPT ![q].pc = pc]

-----------------------------------------------------------------------------
(* Creating an invitation.                                                 *)

\* POST /api/document/<id>/invitation reads the caller's rights: a principal
\* without a row or without capability.grant is refused.  That the caller owns the
\* document is not asked, whatever requireOwnerCtx is called.
Invite(q, p, e, r) ==
    /\ At(q, "idle")
    /\ request' = [request EXCEPT ![q] =
                     [pc |-> IF acl[p] = Author THEN "insert" ELSE "4xx",
                      by |-> p, inv |-> NoRequest, email |-> e, role |-> r]]
    /\ UNCHANGED <<invitation, acl, overdue>>

\* The partial unique index: one pending row for an e-mail, overdue or not.
Pending(e) ==
    {i \in Requests : invitation[i].status = "pending" /\ invitation[i].email = e}

Invited(q) ==
    [status |-> "pending", inviter |-> request[q].by, email |-> request[q].email,
     role |-> request[q].role, acceptedBy |-> NoOne]

\* The mail that follows may fail; the answer is 200 all the same.
Insert(q) ==
    /\ At(q, "insert")
    /\ IF Pending(request[q].email) = {}
       THEN /\ invitation' = [invitation EXCEPT ![q] = Invited(q)]
            /\ Goto(q, "200")
       ELSE /\ Goto(q, "4xx")
            /\ UNCHANGED invitation
    /\ UNCHANGED <<acl, overdue>>

-----------------------------------------------------------------------------
(* Accepting one.                                                          *)

Held_Never(i) == FALSE

Held(i) == \E q \in Requests : request[q].inv = i /\ request[q].pc \in {"grant", "expire"}

\* What the checks of acceptInvitation, in their order, make of the row.
Verdict(p, i) ==
    IF invitation[i].status \in {"absent", "accepted"} THEN "4xx"
    ELSE IF i \in overdue                              THEN "expire"
    ELSE IF invitation[i].email # EmailOf[p]           THEN "4xx"
    ELSE IF invitation[i].inviter = p                  THEN "4xx"
    ELSE "grant"

\* The row is read and held, and judged at once; a refusal gives it back.
Accept(q, p, i) ==
    /\ At(q, "idle")
    /\ ~Held(i)
    /\ request' = [request EXCEPT ![q] =
                     [pc |-> Verdict(p, i), by |-> p, inv |-> i,
                      email |-> NoEmail, role |-> NoRole]]
    /\ UNCHANGED <<invitation, acl, overdue>>

Accepted(i, p) ==
    [status |-> "accepted", inviter |-> invitation[i].inviter, email |-> invitation[i].email,
     role |-> invitation[i].role, acceptedBy |-> p]

\* materialiseRoleBundle overwrites the row the principal has.
Grant(q) ==
    LET i == request[q].inv
        p == request[q].by
    IN  /\ At(q, "grant")
        /\ acl' = [acl EXCEPT ![p] = invitation[i].role]
        /\ invitation' = [invitation EXCEPT ![i] = Accepted(i, p)]
        /\ Goto(q, "200")
        /\ UNCHANGED overdue

\* The status 'expired' is written, and the error thrown next, inside the
\* transaction, takes it back.
Expire(q) ==
    /\ At(q, "expire")
    /\ Goto(q, "410")
    /\ UNCHANGED <<invitation, acl, overdue>>

-----------------------------------------------------------------------------
(* The owner's pages.                                                      *)

\* The editor, the evidence map and the publication routes read the owner's
\* row and write one only when there is none.
Visit(q) ==
    /\ At(q, "idle")
    /\ request' = [request EXCEPT ![q] =
                     [pc |-> IF acl[Owner] = NoRole THEN "heal" ELSE "200", by |-> Owner,
                      inv |-> NoRequest, email |-> NoEmail, role |-> NoRole]]
    /\ UNCHANGED <<invitation, acl, overdue>>

Heal(q) ==
    /\ At(q, "heal")
    /\ acl' = [acl EXCEPT ![Owner] = Author]
    /\ Goto(q, "200")
    /\ UNCHANGED <<invitation, overdue>>

-----------------------------------------------------------------------------

\* The seven days of an invitation pass.
Pass(i) ==
    /\ invitation[i].status # "absent" /\ i \notin overdue
    /\ overdue' = overdue \cup {i}
    /\ UNCHANGED <<invitation, acl, request>>

\* mutant: no transaction
Fail_HalfDone(q) ==
    LET i == request[q].inv
    IN  /\ request[q].pc \in {"insert", "grant", "expire", "heal"}
        /\ Goto(q, "500")
        /\ acl' = IF At(q, "grant") THEN [acl EXCEPT ![request[q].by] = invitation[i].role]
                                    ELSE acl
        /\ UNCHANGED <<invitation, overdue>>

\* A statement fails or the process dies: the statement, or the transaction
\* it is in, leaves nothing.
Fail(q) ==
    /\ request[q].pc \in {"insert", "grant", "expire", "heal"}
    /\ Goto(q, "500")
    /\ UNCHANGED <<invitation, acl, overdue>>

Next ==
    \E q \in Requests :
        \/ \E p \in Principals, e \in Emails, r \in Roles : Invite(q, p, e, r)
        \/ \E p \in Principals, i \in Requests : Accept(q, p, i)
        \/ Insert(q) \/ Grant(q) \/ Expire(q)
        \/ Visit(q) \/ Heal(q)
        \/ Pass(q) \/ Fail(q)

Spec == Init /\ [][Next]_vars

-----------------------------------------------------------------------------
(* Properties.                                                             *)

\* Two tabs, a double click, a retry after a lost answer: however acceptances
\* of one invitation interleave, one of them succeeds at most, and it is the
\* one the row names.
AcceptedOnce ==
    \A q1, q2 \in Requests :
        /\ At(q1, "200") /\ request[q1].inv # NoRequest
        /\ request[q2].inv = request[q1].inv
        => /\ invitation[request[q1].inv].acceptedBy = request[q1].by
           /\ At(q2, "200") => q1 = q2
           /\ ~At(q2, "grant")

\* Whatever is demoted, overtaken or fails half-way, a member's role is one that
\* somebody else offered at the member's own address, and the invitation that
\* offered it says that this member accepted it.
RolesWereOffered ==
    \A p \in Principals :
        acl[p] = NoRole \/ (p = Owner /\ acl[p] = Author) \/
            \E i \in Requests :
                /\ invitation[i].status = "accepted" /\ invitation[i].acceptedBy = p
                /\ invitation[i].role = acl[p] /\ invitation[i].email = EmailOf[p]
                /\ invitation[i].inviter # p

\* The role of a principal and the invitation that gives it change in one
\* step, whatever fails: a role that changes is that of the one invitation
\* which this principal accepts in this step (or the owner's, restored), and an
\* invitation that leaves 'pending' gives its role.
GrantIsOneAcceptance ==
    [][ /\ \A p \in Principals : acl'[p] # acl[p] =>
             \/ p = Owner /\ acl'[p] = Author
             \/ \E i \in Requests :
                   /\ invitation[i].status = "pending"
                   /\ invitation'[i] = Accepted(i, p)
                   /\ acl'[p] = invitation[i].role
        /\ \A i \in Requests :
             invitation[i].status = "pending" /\ invitation'[i] # invitation[i] =>
                \E p \in Principals :
                    /\ invitation'[i] = Accepted(i, p)
                    /\ acl'[p] = invitation[i].role ]_vars

\* Its time passed, and no acceptance that was judged before is under way.
Lapsed(i) ==
    /\ invitation[i].status = "pending" /\ i \in overdue
    /\ \A q \in Requests : ~(At(q, "grant") /\ request[q].inv = i)

\* An invitation that has lapsed gives no role any more, however late and however
\* often it is accepted.  It stays pending, so that its address is never invited
\* again: the status 'expired' that would free it is always rolled back.
LapsedIsFinal == [][\A i \in Requests : Lapsed(i) => Lapsed(i)']_vars
=============================================================================
