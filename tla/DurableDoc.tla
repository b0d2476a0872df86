------------------------------ MODULE DurableDoc ------------------------------
(***************************************************************************)
(* What a document of a vault promises to whoever edits it: a body in      *)
(* memory that only grows while it is open, and a saved copy that is       *)
(* always some earlier whole state of the body, never goes back, and is    *)
(* what the next opening starts from.                                      *)
(***************************************************************************)
CONSTANT Text          \* the pieces of text a body may have

VARIABLES
    open,      \* the document is open
    body,      \* the body in memory
    saved      \* the saved copies: none yet, or one

vars == <<open, body, saved>>

Init ==
    /\ open = FALSE /\ body = {}
    /\ saved = {}

Open ==
    /\ ~open /\ open' = TRUE
    /\ body' \in IF saved = {} THEN SUBSET Text ELSE saved
    /\ UNCHANGED saved

Edit ==
    /\ open
    /\ \E t \in Text \ body : body' = body \cup {t}
    /\ UNCHANGED <<open, saved>>

Save ==
    /\ open
    /\ \E new \in SUBSET body :
           (\A old \in saved : old \subseteq new) /\ saved' = {new}
    /\ UNCHANGED <<open, body>>

\* The document is closed, or its host dies: what was not saved is gone.
Close ==
    /\ open /\ open' = FALSE
    /\ body' = {}
    /\ UNCHANGED saved

Next == Open \/ Edit \/ Save \/ Close

Spec == Init /\ [][Next]_vars
=============================================================================
