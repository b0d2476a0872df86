SPECIFICATION Spec
CONSTANTS
    o = o
    a = a
    b = b
    q1 = q1
    q2 = q2
    q3 = q3
    q4 = q4
    Principals = {o, a, b}
    Owner = o
    Emails = {o, a, b}
    EmailOf <- MCEmailOf
    author = author
    commenter = commenter
    Roles = {author, commenter}
    Author = author
    Requests = {q1, q2, q3, q4}
SYMMETRY RequestSymmetry
INVARIANTS
    AcceptedOnce
    RolesWereOffered
CHECK_DEADLOCK FALSE
