------------------------------- MODULE OpenRecord -------------------------------
(***************************************************************************)
(* What the public is shown of open content: the feed of one kind of       *)
(* record, the page of a record with the provenance of it and of its       *)
(* reviews, and what the verifying tool of packages/open-content says of   *)
(* the same bundles.  Every SELECT is a step of its own, in no             *)
(* transaction, beside the publishes of MerkleLog.                         *)
(*                                                                         *)
(* created_at is now(), which PostgreSQL takes when the transaction begins.*)
(* A request that names a record, to review or to supersede it, has its id *)
(* from the 201 of the publish that made it.                               *)
(***************************************************************************)
EXTENDS MerkleLog

CONSTANTS
    Content,       \* of each request: its kind, the record it names, and whether the
                   \* tables give back what was signed
    PageLimit,     \* filter.limit
    EntityLimit,   \* of rows of one table: four pages, ENTITY_QUERY_LIMIT at most
    ReviewLimit    \* REVIEW_QUERY_LIMIT

Kinds == {"question", "dataset", "snapshot", "review"}

\* A question, a dataset and an answer that the document routes publish are made
\* of the columns that the page reads; the base64 of a snapshot and the content
\* that POST /api/publish takes as it comes may hold what no column keeps.  That route
\* does not store which snapshot a snapshot supersedes.
ASSUME ContentOK ==
    /\ Content \in [Publishers -> [kind : Kinds, of : Publishers \cup {NoRow}, kept : BOOLEAN]]
    /\ \A p \in Publishers :
          ~Content[p].kept => Content[p].kind = "snapshot" \/ Request[p].route = "caller"
    /\ \A p \in Publishers :
          Content[p].kind = "snapshot" /\ Request[p].route = "caller" => Content[p].of = NoRow
    /\ IsFiniteSet(Publishers)
    /\ PageLimit \in Nat /\ EntityLimit \in Nat /\ ReviewLimit \in Nat
    /\ PageLimit <= EntityLimit

VARIABLES
    made,          \* created_at
    feed,          \* a load of the feed
    page,          \* a load of a record's page or of its provenance
    shown          \* history: what was said of each record

public  == <<made, feed, page, shown>>
records == <<vars, public>>

Status == {"verified", "hash-mismatch", "missing-public-key", "invalid-signature"}
Done   == {"missing", "done", "unavailable"}
Stage  == {"none", "log", "key"} \cup Done

Feed == [kind : Kinds \cup {"none"}, need : SUBSET Kinds, fetched : SUBSET Publishers,
         before : SUBSET Publishers]
Page == [pc : {"idle", "reviews", "bundles"}, of : Publishers \cup {NoRow},
         reviews : SUBSET Publishers, at : [Publishers -> Stage],
         key : [Publishers -> Keys \cup {NoKey}]]

RecordTypeOK ==
    /\ TypeOK
    /\ made \in [Publishers -> Nat]
    /\ feed \in Feed
    /\ page \in Page
    /\ shown \in [Publishers -> SUBSET Status]

NoFeed == [kind |-> "none", need |-> {}, fetched |-> {}, before |-> {}]
NoPage == [pc |-> "idle", of |-> NoRow, reviews |-> {},
           at |-> [p \in Publishers |-> "none"], key |-> [p \in Publishers |-> NoKey]]

RecordInit ==
    /\ Init
    /\ made = [p \in Publishers |-> 0]
    /\ feed = NoFeed
    /\ page = NoPage
    /\ shown = [p \in Publishers |-> {}]

\* The rows of the four tables: the transaction that appends to the log inserts them.
Entities == Rows

Table(k) == {p \in Entities : Content[p].kind = k}

-----------------------------------------------------------------------------
(* Publishing, with what a record says.                                    *)

Names(p) == {Content[p].of} \ {NoRow}

Compose(p) ==
    /\ Names(p) \subseteq Rows
    /\ ReadPrev(p)
    /\ UNCHANGED public

\* BEGIN: the first statement of the transaction may wait, now() does not.
Stamp(p) ==
    /\ pub[p].pc = "valid" /\ made[p] = 0
    /\ made' = [made EXCEPT ![p] = 1 + Cardinality({q \in Publishers : made[q] > 0})]
    /\ UNCHANGED <<vars, feed, page, shown>>

PublishRecord(p) ==
    \/ Compose(p)
    \/ Stamp(p)
    \/ made[p] > 0 /\ Begin(p) /\ UNCHANGED public
    \/ (ReadKey(p) \/ Insert(p) \/ CheckPrev(p) \/ Commit(p) \/ Fail(p)) /\ UNCHANGED public

-----------------------------------------------------------------------------
(* The feed: loadOpenContentFeed.  Loads write nothing, so it is enough to *)
(* look at one at a time.                                                  *)

Bundled == {page.of} \cup page.reviews

Served == page.pc = "bundles" /\ \A x \in Bundled : page.at[x] \in Done

AtRest == feed.need = {} /\ (page.pc = "idle" \/ Served)

Newest_Oldest(rows, n) ==    \* mutant: ORDER BY created_at LIMIT n
    {x \in rows : Cardinality({y \in rows : made[y] < made[x]}) < n}

Newer(rows, x) == {y \in rows : made[y] > made[x]}

\* ORDER BY created_at DESC LIMIT n
Newest(rows, n) == {x \in rows : Cardinality(Newer(rows, x)) < n}

LoadFeed(k) ==
    /\ AtRest
    /\ feed' = [kind |-> k, need |-> {k, "review"}, fetched |-> {}, before |-> Rows]
    /\ page' = NoPage
    /\ UNCHANGED <<vars, made, shown>>

\* One of the SELECTs of Promise.all.  Those of the tables that the filter's kind
\* leaves out put nothing on the page.
Select(t) ==
    /\ t \in feed.need
    /\ feed' = [feed EXCEPT !.need = @ \ {t},
                  !.fetched = @ \cup Newest(Table(t), IF t = "review" THEN ReviewLimit
                                                                      ELSE EntityLimit)]
    /\ UNCHANGED <<vars, made, page, shown>>

\* loadOpenContentFeedSafely: one failing SELECT, and the page is empty.
FeedFails ==
    /\ feed.need # {}
    /\ feed' = NoFeed
    /\ UNCHANGED <<vars, made, page, shown>>

Fetched(k) == {p \in feed.fetched : Content[p].kind = k}

Superseded == UNION {Names(p) : p \in Fetched("snapshot")}

\* assembleOpenContentFeed: it filters what the SELECTs cut off, and cuts again.
Listed == Newest(Fetched(feed.kind) \ Superseded, PageLimit)

ReviewsOf(rows, p) == {r \in rows : Content[r].kind = "review" /\ Content[r].of = p}

-----------------------------------------------------------------------------
(* A record's page, and GET /api/open-content/provenance.                  *)

OpenPage(p) ==
    /\ AtRest
    /\ p \in Entities /\ Content[p].kind # "review"
    /\ page' = [NoPage EXCEPT !.pc = "reviews", !.of = p]
    /\ feed' = NoFeed
    /\ UNCHANGED <<vars, made, shown>>

\* loadReviewRows, without a limit
ReadReviews ==
    /\ page.pc = "reviews"
    /\ page' = [page EXCEPT !.pc = "bundles", !.reviews = ReviewsOf(Entities, page.of)]
    /\ UNCHANGED <<vars, made, feed, shown>>

PageFails ==
    /\ page.pc = "reviews"
    /\ page' = NoPage
    /\ UNCHANGED <<vars, made, feed, shown>>

\* The record's bundle is awaited first; those of the reviews are loaded at once.
InTurn(x) == x = page.of \/ page.at[page.of] \in Done

\* loadEntityVerificationBundle: the entity again, its log row, its signer's key.
ReadEntity(x) ==
    /\ page.pc = "bundles" /\ x \in Bundled /\ InTurn(x)
    /\ page.at[x] = "none"
    /\ page' = [page EXCEPT !.at[x] = IF x \in Entities THEN "log" ELSE "unavailable"]
    /\ UNCHANGED <<vars, made, feed, shown>>

ReadLog(x) ==
    /\ page.at[x] = "log"
    /\ page' = [page EXCEPT !.at[x] = IF x \in Rows THEN "key" ELSE "missing"]
    /\ UNCHANGED <<vars, made, feed, shown>>

\* assessOpenContentProvenance.  Row and entity hold one signature, which is not
\* empty, and a stored key has its normal form: those checks never fail.
Assess(x, key) ==
    IF ~Content[x].kept            THEN "hash-mismatch"
    ELSE IF key = NoKey            THEN "missing-public-key"
    ELSE IF key # Request[x].signs THEN "invalid-signature"
    ELSE "verified"

ReadSigner(x) ==
    /\ page.at[x] = "key"
    /\ page' = [page EXCEPT !.at[x] = "done", !.key[x] = stored[Signer(x)]]
    /\ shown' = [shown EXCEPT ![x] = @ \cup {Assess(x, stored[Signer(x)])}]
    /\ UNCHANGED <<vars, made, feed>>

\* loadBundleSafely: an answer all the same, without the record's provenance.
BundleFails(x) ==
    /\ page.pc = "bundles" /\ x \in Bundled /\ InTurn(x)
    /\ page.at[x] \notin Done
    /\ page' = [page EXCEPT !.at[x] = "unavailable"]
    /\ UNCHANGED <<vars, made, feed, shown>>

LoadPage ==
    \/ \E p \in Publishers : OpenPage(p)
    \/ ReadReviews
    \/ PageFails
    \/ \E x \in Publishers : ReadEntity(x) \/ ReadLog(x) \/ ReadSigner(x) \/ BundleFails(x)

-----------------------------------------------------------------------------
(* The tool, on the bundles that were served.                              *)

\* Questions and reviews are served whole; of the others the tool is told what the
\* server found, and does not look at it.
Replayable(x) == Content[x].kind \in {"question", "review"}

\* verifyPublicProvenanceBundle.  A bundle that could not be read lacks its Merkle
\* entry, and is "invalid" for that: the branch for "unavailable" is never reached.
Tool(x) ==
    IF \/ page.at[x] \in {"missing", "unavailable"}
       \/ Replayable(x) /\ (~Content[x].kept \/ page.key[x] # Request[x].signs)
    THEN "invalid"
    ELSE IF Replayable(x) THEN "verified" ELSE "server-summary-only"

-----------------------------------------------------------------------------
RecordNext ==
    \/ \E p \in Publishers : PublishRecord(p)
    \/ \E k \in Kinds \ {"review"} : LoadFeed(k)
    \/ \E t \in Kinds : Select(t)
    \/ FeedFails
    \/ LoadPage

RecordSpec == RecordInit /\ [][RecordNext]_records

-----------------------------------------------------------------------------
(* Properties.                                                             *)

\* Its signer's stored key does not verify x: it and the row whose key was stored
\* are first publishes of one principal that overlapped.
LostTheRace(x) ==
    \E q \in Rows \ pub[x].seen : Signer(q) = Signer(x) /\ Request[q].signs = stored[Signer(x)]

\* Whatever is published while a page is loaded, every part of it that could be read
\* verifies, for the server and for the tool, which know only bundles; but for content
\* the tables do not keep and for rows that lost the race of first keys.
ServedRecordsVerify ==
    Served => \A x \in Bundled :
        \/ page.at[x] = "unavailable"
        \/ /\ page.at[x] = "done" /\ Assess(x, page.key[x]) = "verified"
           /\ Tool(x) = IF Replayable(x) THEN "verified" ELSE "server-summary-only"
        \/ /\ page.at[x] = "done"
           /\ Replayable(x) => Tool(x) = "invalid"
           /\ \/ ~Content[x].kept /\ Assess(x, page.key[x]) = "hash-mismatch"
              \/ LostTheRace(x) /\ Assess(x, page.key[x]) = "invalid-signature"

\* What a page says of a record no later page takes back: a first key stored by
\* another publish meanwhile changes the verdict on none that was ever shown.
VerdictIsFinal == \A x \in Publishers : Cardinality(shown[x]) <= 1

\* A feed that loads beside publishes shows no snapshot that was superseded before it
\* began; a record that was there before is left out only if it is superseded or if
\* newer ones fill the page, or the rows of a SELECT; and no review is counted that is
\* not there, none missed that was there before.
FeedIsCurrent ==
    feed.kind # "none" /\ feed.need = {} =>
        /\ \A p \in Listed \cap Table("snapshot"), q \in feed.before \cap Table("snapshot") :
              p \notin Names(q)
        /\ \A p \in feed.before \ Listed : Content[p].kind = feed.kind =>
              \/ p \in Superseded
              \/ Cardinality(Newer(Listed, p)) >= PageLimit
              \/ Cardinality(Newer(Table(feed.kind), p)) >= EntityLimit
        /\ \A p \in Listed :
              /\ ReviewsOf(feed.fetched, p) \subseteq ReviewsOf(Rows, p)
              /\ \A r \in ReviewsOf(feed.before, p) \ feed.fetched :
                    Cardinality(Newer(Table("review"), r)) >= ReviewLimit
=============================================================================
