--------------------------- MODULE MaintenanceScan ---------------------------
(***************************************************************************)
(* The maintenance scan over the claim ledger, and what becomes of what it *)
(* finds.  A scan is seven generators, one after the other, each with      *)
(* SELECTs of its own, and one INSERT of all findings at the end; people   *)
(* go on binding evidence and reviewing meanwhile.  (AgentJob models the   *)
(* job a scan runs in: its polls, its crashes and its redelivery.)         *)
(*                                                                         *)
(* A finding belongs to a vault, whose owner acknowledges, resolves or     *)
(* dismisses it: read, judge, and update by its id alone.                  *)
(***************************************************************************)
EXTENDS ClaimLedger

CONSTANTS
    Docs, Vaults,   \* documents, and the principals who own them
    DocOf,          \* the document each claim comes from
    OwnerOf,        \* the owner of each document
    Text,           \* the text of each claim
    Approved,       \* claims by status, and by what else no request changes
    Suggested,      \* 'ai-suggested'
    Retired,        \* 'deprecated' or 'superseded'
    Old,            \* older than the thresholds of the generators
    ByAgent,        \* created by an agent
    Synthesised,    \* a synthesis claim links to it
    Outdated,       \* sources nobody has looked at for long, not archived
    ImportedBy,     \* who imported each
    Batch,          \* brokenCitationBatchLimit
    Scopes,         \* the scopes that are asked for
    Scans,
    Clicks          \* POST .../transition, and the forms of the dashboard

ASSUME ScanConstants ==
    /\ DocOf \in [Claims -> Docs] /\ OwnerOf \in [Docs -> Vaults]
    /\ Vaults \subseteq People /\ Docs \cap Vaults = {}
    /\ Approved \cup Suggested \cup Retired \cup Old \cup ByAgent \cup Synthesised
         \subseteq Claims
    /\ Approved \cap Suggested = {} /\ Retired \cap (Approved \cup Suggested) = {}
    /\ ImportedBy \in [Outdated -> People]
    /\ Batch \in Nat /\ Scopes \subseteq Docs \cup Vaults

VARIABLES
    finding,    \* the rows of maintenance_finding: the status of each
    scan,       \* what each scan is doing
    click       \* what each click is doing

scanVars == <<finding, scan, click>>
vars == <<ledger, request, scanVars>>

Kind   == {"unsupported-claim", "outdated-source", "unverified-ai-block",
           "contradicted-conclusion", "duplicated-claim", "broken-citation",
           "unverified-claim"}
Status == {"open", "acknowledged", "resolved", "dismissed"}

Finding == [scan : Scans, kind : Kind, about : Claims \cup Requests \cup Outdated,
            vault : Vaults, severity : {"low", "medium", "high"}]

\* The statements of scanForFindings in their order, and the INSERT after them.
Stage == {"begin", "unsupported", "outdated", "ai-block", "contradicted", "duplicated",
          "broken", "unverified", "endorsements", "write", "written", "failed"}

Scan == [at : Stage,
         scope : Scopes,
         found : SUBSET Finding,
         candidates : SUBSET Claims,        \* of 'unverified-claim'
         evidence : SUBSET Evidence,        \* history: the ledger when it began
         endorsed : SUBSET Claims]

Click == [pc : {"idle", "update", "200", "409", "500"}, row : SUBSET Finding,      \* none or one
          read : Status, to : Status]

ScanTypeOK ==
    /\ DOMAIN finding \in SUBSET Finding
    /\ \A f \in DOMAIN finding : finding[f] \in Status
    /\ scan \in [Scans -> Scan]
    /\ click \in [Clicks -> Click]

Init ==
    /\ LedgerInit
    /\ finding = [f \in {} |-> "open"]
    /\ scan \in [Scans -> [at : {"begin"}, scope : Scopes, found : {{}},
                           candidates : {{}}, evidence : {{}}, endorsed : {{}}]]
    /\ click = [k \in Clicks |-> [pc |-> "idle", row |-> {}, read |-> "open",
                                  to |-> "open"]]

-----------------------------------------------------------------------------
(* What each generator reports, in the state its SELECT reads.             *)

Wide(s)  == scan[s].scope \in Vaults
Vault(s) == IF Wide(s) THEN scan[s].scope ELSE OwnerOf[scan[s].scope]

\* A document's scan takes its claims, a vault's scan takes all there are.
InScope(s)     == {c \in Claims : Wide(s) \/ DocOf[c] = scan[s].scope}
LiveInScope(s) == InScope(s) \ Retired

\* `severity` of each thing that is reported.
Reported(s, kind, severity) ==
    {[scan |-> s, kind |-> kind, about |-> x, vault |-> Vault(s),
      severity |-> severity[x]] : x \in DOMAIN severity}

ByApproval(c) == IF c \in Approved THEN "high" ELSE "medium"

Unsupported_BySupport(s) ==
    Reported(s, "unsupported-claim",
             [c \in {c \in LiveInScope(s) : ~\E e \in EvidenceOf(c) : e.relation = "supports"} |->
                ByApproval(c)])

Unsupported(s) ==
    Reported(s, "unsupported-claim",
             [c \in {c \in LiveInScope(s) : EvidenceOf(c) = {}} |-> ByApproval(c)])

\* A document's scan takes the sources of everybody.
OutdatedSources(s) ==
    Reported(s, "outdated-source",
             [x \in {x \in Outdated : Wide(s) => ImportedBy[x] = Vault(s)} |-> "low"])

\* Evidence bound in the application is 'human-reviewed', so of the two SELECTs
\* the one on claims is what reports.
AiBlocks(s) ==
    Reported(s, "unverified-ai-block",
             [c \in InScope(s) \cap Suggested \cap Old |-> "medium"])

Challenged(c) == \E e \in EvidenceOf(c) : e.relation = "challenges"

Contradicted(s) ==
    Reported(s, "contradicted-conclusion",
             [c \in {c \in LiveInScope(s) \ Synthesised : Challenged(c)} |-> ByApproval(c)])

Duplicated(s) ==
    Reported(s, "duplicated-claim",
             [c \in {c \in LiveInScope(s) : \E d \in LiveInScope(s) \ {c} : Text[d] = Text[c]} |->
                IF c \in Approved THEN "medium" ELSE "low"])

\* A vault's own citations, or those the evidence of the document refers to.
CitationsOf(s) ==
    {t.by : t \in {t \in citation :
        IF Wide(s) THEN t.creator = Vault(s)
        ELSE \E e \in evidence : e.citation = t.by /\ e.claim \in InScope(s)}}

Broken(s, unresolved) == Reported(s, "broken-citation", [x \in unresolved |-> "high"])

Endorsed == {c \in Claims : \E q \in ReviewsOf(c) :
               review[q].verdict = "endorses" /\ ~review[q].ai /\ ~review[q].withdrawn}

Unverified(s) ==
    Reported(s, "unverified-claim",
             [c \in (scan[s].candidates \ Endorsed) \ Retired |-> "medium"])

-----------------------------------------------------------------------------
(* The scan.                                                               *)

Then(s, from, to, more) ==
    /\ scan[s].at = from
    /\ scan' = [scan EXCEPT ![s].at = to, ![s].found = @ \cup more]
    /\ UNCHANGED <<ledger, request, finding, click>>

Begin(s) ==
    /\ scan[s].at = "begin"
    /\ scan' = [scan EXCEPT ![s].at = "unsupported", ![s].evidence = evidence,
                            ![s].endorsed = Endorsed]
    /\ UNCHANGED <<ledger, request, finding, click>>

\* Which of the citations it takes (there is no ORDER BY) and which of those do
\* not resolve, or not in time, is not for the program to say.
ScanCitations(s) ==
    \E unresolved \in SUBSET CitationsOf(s) :
        /\ Cardinality(unresolved) <= Batch
        /\ Then(s, "broken", "unverified", Broken(s, unresolved))

\* scanUnverifiedClaims: the candidates in one statement, the reviews in another.
ScanCandidates(s) ==
    LET old == InScope(s) \cap Old \cap ByAgent
    IN  /\ scan[s].at = "unverified"
        /\ scan' = [scan EXCEPT ![s].at = IF old = {} THEN "write" ELSE "endorsements",
                                ![s].candidates = old]
        /\ UNCHANGED <<ledger, request, finding, click>>

\* writeFindings: one INSERT of all that was found, as 'open'.
Write(s) ==
    /\ scan[s].at = "write"
    /\ finding' = [f \in DOMAIN finding \cup scan[s].found |->
                     IF f \in scan[s].found THEN "open" ELSE finding[f]]
    /\ scan' = [scan EXCEPT ![s].at = "written"]
    /\ UNCHANGED <<ledger, request, click>>

\* A statement fails, or the job is cancelled before the INSERT: nothing is written.
GiveUp(s) ==
    /\ scan[s].at \notin {"begin", "written", "failed"}
    /\ scan' = [scan EXCEPT ![s].at = "failed"]
    /\ UNCHANGED <<ledger, request, finding, click>>

ScanStep(s) ==
    \/ Begin(s)
    \/ Then(s, "unsupported", "outdated", Unsupported(s))
    \/ Then(s, "outdated", "ai-block", OutdatedSources(s))
    \/ Then(s, "ai-block", "contradicted", AiBlocks(s))
    \/ Then(s, "contradicted", "duplicated", Contradicted(s))
    \/ Then(s, "duplicated", "broken", Duplicated(s))
    \/ ScanCitations(s)
    \/ ScanCandidates(s)
    \/ Then(s, "endorsements", "write", Unverified(s))
    \/ Write(s) \/ GiveUp(s)

-----------------------------------------------------------------------------
(* The transitions of a finding, by the owner of its vault.                *)

Allowed_Anew(from) ==
    CASE from = "open"         -> {"acknowledged", "resolved", "dismissed"}
      [] OTHER                 -> {"resolved", "dismissed"}

\* ALLOWED_TRANSITIONS
Allowed(from) ==
    CASE from = "open"         -> {"acknowledged", "resolved", "dismissed"}
      [] from = "acknowledged" -> {"resolved", "dismissed"}
      [] OTHER                 -> {}

Read(k, f, to) ==
    /\ click[k].pc = "idle" /\ f \in DOMAIN finding
    /\ click' = [click EXCEPT ![k] =
         [pc |-> IF to \in Allowed(finding[f]) THEN "update" ELSE "409",
          row |-> {f}, read |-> finding[f], to |-> to]]
    /\ UNCHANGED <<ledger, request, finding, scan>>

\* UPDATE ... WHERE id = <finding>, whatever its status is by now.
Update(k) ==
    /\ click[k].pc = "update"
    /\ finding' = [f \in DOMAIN finding |-> IF f \in click[k].row THEN click[k].to ELSE finding[f]]
    /\ click' = [click EXCEPT ![k].pc = "200"]
    /\ UNCHANGED <<ledger, request, scan>>

FailClick(k) ==
    /\ click[k].pc = "update"
    /\ click' = [click EXCEPT ![k].pc = "500"]
    /\ UNCHANGED <<ledger, request, finding, scan>>

ClickStep(k) ==
    \/ \E f \in DOMAIN finding, to \in Status \ {"open"} : Read(k, f, to)
    \/ Update(k) \/ FailClick(k)

-----------------------------------------------------------------------------

Next ==
    \/ \E q \in Requests : LedgerStep(q) /\ UNCHANGED scanVars
    \/ \E s \in Scans : ScanStep(s)
    \/ \E k \in Clicks : ClickStep(k)

Spec == Init /\ [][Next]_vars

-----------------------------------------------------------------------------
(* Properties.                                                             *)

Found(s, kind) == {f.about : f \in {f \in scan[s].found : f.kind = kind}}

\* Beyond: the scan has left the generator of each kind behind.
Beyond(s, kind) ==
    CASE kind = "unsupported-claim" -> scan[s].at \notin {"begin", "unsupported", "failed"}
      [] kind = "contradicted-conclusion" ->
           scan[s].at \in {"duplicated", "broken", "unverified", "endorsements", "write",
                           "written"}
      [] kind = "unverified-claim" -> scan[s].at \in {"write", "written"}

\* No one state of the ledger is what a scan reports, since people go on while it
\* reads.  But what was lacking throughout is reported and what was there when
\* the scan began is not: for claims without evidence, for challenged claims, and
\* (a review can be withdrawn) for claims that no person ever endorsed.
ScanIsBracketed ==
    \A s \in Scans : \A c \in LiveInScope(s) :
        /\ Beyond(s, "unsupported-claim") =>
             /\ EvidenceOf(c) = {} => c \in Found(s, "unsupported-claim")
             /\ c \in Found(s, "unsupported-claim") =>
                  ~\E e \in scan[s].evidence : e.claim = c
        /\ Beyond(s, "contradicted-conclusion") =>
             /\ (c \notin Synthesised
                 /\ \E e \in scan[s].evidence : e.claim = c /\ e.relation = "challenges") =>
                  c \in Found(s, "contradicted-conclusion")
             /\ c \in Found(s, "contradicted-conclusion") => Challenged(c)
        /\ (Beyond(s, "unverified-claim") /\ c \in Old \cap ByAgent) =>
             /\ c \in Endorsed \cap scan[s].endorsed =>
                  \/ c \notin Found(s, "unverified-claim")
                  \/ \E q \in ReviewsOf(c) : review[q].withdrawn
             /\ c \notin Found(s, "unverified-claim") =>
                  \E q \in ReviewsOf(c) : review[q].verdict = "endorses" /\ ~review[q].ai

\* "resolved -> (terminal; no transition)", says the endpoint, and the same of
\* 'dismissed'.  What is true of it: a finding that is closed gets another status
\* only from a click that was already on its way, allowed by the status it read
\* before the finding was closed; and none is opened again.
ClosedButForStaleClicks ==
    [][\A f \in DOMAIN finding : finding'[f] # finding[f] =>
          /\ finding'[f] # "open"
          /\ \E k \in Clicks :
                /\ click[k].pc = "update" /\ f \in click[k].row
                /\ finding'[f] = click[k].to
                /\ click[k].read \notin {"resolved", "dismissed"}]_finding
=============================================================================
