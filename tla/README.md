# Specifications of collaborationtool

TLA+ models of the parts of collaborationtool in which several actors change
shared state, from an agent's run to the file on a desktop's disk. TLC checks each
of them on small instances; TLAPS proves their safety properties for every value of their
constants.

Paths below are relative to the repository's root. `PROJECT.json` maps every
definition to the lines it stands for, lists the runs, the mutants that show that
each property can fail, the hazards the properties are for, and the theorems.

    tlc -workers 2 -config AgentJob.cfg MCAgentJob.tla
    tlapm AgentJobProofs.tla

## 1. The system

A monorepo in TypeScript (and a little Rust). Next.js routes (`apps/web`) read and
write PostgreSQL through Drizzle. Nearly all of them run statements one by one,
each its own transaction, at READ COMMITTED; the exceptions are named below. The
web server, the agent worker, the sync gateways and the snapshot worker are
separate processes that meet in the database, in pg-boss's queue (which is in the
database too) and in the y-sweet server. On the desktop a Tauri shell starts a vault
host, a child process that keeps documents in files.

| Component | State | Operations | Meets | What is hard | What makes it correct |
|---|---|---|---|---|---|
| Agent jobs (`apps/web` routes, `apps/agent-worker`) | `agent_job`, `agent_job_event`, `maintenance_finding`, pg-boss's rows | submit, cancel, deliver, run, report | quota, stream | redelivery; cancellation between any two statements; crash; a failed statement inside or outside the `try` | every job ends with a verdict; a verdict tells what was written; work is paid for |
| Event stream (`api/agent/job/[jobId]/stream`) | a cursor per connection | poll, send, time out, reconnect | jobs | ids are handed out before rows commit; dropped connections | the client is told the log, once, in order, to its end |
| Agent quota (`packages/ai-runtime`) | `agent_invocation_log` | count, log, reset time | invoke route, worker | count and log are two statements; a sliding window | bounded over-admission; a refusal is earned; the reset time is right |
| Sync gateway (`apps/sync-gateway`) | rooms, members, modes, bodies, drafts | authenticate, join, frames, heartbeat, build | permissions, y-sweet, transport in `editor-core` | awaits during join and heartbeat, revocation, crash | one room a document; members have its body; only writers change it; access follows the list |
| Editor (`packages/editor-core`, `apps/web` editor page) | a Y.Doc per tab, IndexedDB, the template's claim | load, seed, hydrate, type, connect, break | gateway, snapshots | several tabs open a new document; the socket opens after edits | one start of a document; nothing shown is lost |
| Snapshot worker (`apps/snapshot-worker`) | `document.yjs_snapshot`, stamps | select, fetch, copy | y-sweet, exports | a slice per tick; failures in it | what was written is copied |
| Open content (`packages/open-content`, publish routes, feed, pages, provenance API) | entities, signatures, keys, `provenance_merkle_log` | publish, review, supersede, verify, list, show | nightly verifier in the worker, the public's own verifying tool | the predecessor is read before the transaction; sequence and commit order differ; first keys; what is served is put together of SELECTs in no transaction | a log that verifies; what is shown verifies and goes on to; a current feed |
| Agent runtime (`packages/ai-runtime`) | a run: servers, conversation, proposal | load, connect, ask, call tools, persist, close | revisions, coordinator | whatever may throw between connecting and closing | no server outlives its run; the record of calls is true |
| Coordinator (`packages/ai-runtime/src/coordinator`) | steps, handoffs, a buffer of proposals | decide, hand off, flush | runs, revisions | the buffer is emptied before the save is awaited | the report is true and what it names is stored once |
| Revision approval (`packages/ai-runtime/src/provenance-writer.ts`) | `revision`, `contribution`, `provenance.approval_chain` | propose, accept, reject, modify | agents, inbox | read-modify-write of a JSON array by concurrent transactions; status checked on an unlocked read | the chain has every decision; what was decided stays decided |
| Invitations (`apps/web/src/lib/invitations.ts`) | `doc_invitation`, `document_acl` | invite, accept, expire, visit | permissions | acceptance under FOR UPDATE; an update rolled back by its own throw | one acceptance; a member's role was offered to the member and accepted |
| Claims (`lib/claim-review.ts`, `lib/evidence-map.ts`) | evidence, citations, reviews | bind, submit, sign, withdraw | scans, lineage | signature and withdrawal read, judge, then update by id | a signature that stands is its author's |
| Maintenance (`maintenance-scan.ts`, `lib/maintenance.ts`) | `maintenance_finding` | scan, acknowledge, resolve, dismiss | claims, jobs | seven SELECTs over a ledger that moves; stale clicks | findings lie between the ledger's beginning and end; closed is closed |
| Vaults (`doc-store`, `vault-fs`, `vault-host`) | a sidecar and a markdown file per document | open, update, flush, close, stop | shell | overlapping writes of one temporary name; death at any step | files are whole; what a flush covered stays |
| Desktop shell (`apps/desktop`, vault page) | the child process, pending answers | start, call, time out, stop | vault host | late answers, ids reused after a restart | each command its own answer; leaving a document saves and ends |
| Importers, renderers, typography, schema, identity, discovery graph, bridge layer, MCP servers, prompts, prototypes | none shared | pure functions, queries, rendering | - | - | - |

## 2. The plan

Order: first what users rely on and several processes change, then the rest.

1. (done) `AgentJob`, `JobStream`, `Quota`: jobs and what is seen and paid of them.
2. (done) `SyncGateway`, `EditorSession`, `SnapshotWorker`: live editing.
3. (done) `MerkleLog`, `RevisionApproval`: what may never be lost or forged;
   `OpenRecord`, what the public sees of the log, proved to refine it.
4. (done) `AgentRun`, `Coordinator`: who proposes the revisions, composed with their
   review and proved to refine it.
5. (done) `Invitation`; `ClaimLedger` and `MaintenanceScan`, composed.
6. (done) `DurableDoc`, `VaultFile`, `VaultHost`: an abstract document, its two files
   that implement it, and the shell above it.
7. (done) Theorems of the core: jobs, quota, log and record, reviews and coordinator,
   invitations, gateway, ledger and scans; that `VaultFile` implements `DurableDoc`.
8. (done) Theorems of the two ends that users see: `JobStream`, `EditorSession` with
   `SnapshotWorker`, `VaultHost`.
9. (next) A composition of `AgentJob`'s worker with `JobStream`'s log; plugin installation.

## 3. The modules

Each awaited statement of the code is an action (or a disjunct of one), since
other processes run between any two of them. Statements of one database
transaction stay separate actions where others can interleave with them; what the
transaction wrote is seen when it commits. Failed statements, crashes and lost
answers are actions bounded by `MaxFaults` (or `MaxOutages`). `MC*` modules
instantiate a module for TLC; `*Proofs` modules hold its theorems. A definition with
`mutant:` beside it is not used by the specification: it is how the definition after
it looks with a plausible bug.

### AgentJob

Submission (`api/document/[docId]/agent-job/route.ts`) inserts the row, sends it to
pg-boss and deletes it again if that throws: `InsertJob`, `EnqueueOk`,
`EnqueueNull`, `EnqueueThrows`, `RollBack`. The cancel route is `ReadForCancel` then
`ApplyCancel`. pg-boss (`Deliver`, `Complete`, `Expire`) is external: it delivers up
to `MaxAttempts` times, and gives a delivery up that threw, died or ran too long -
so two deliveries may run at once (`Overrun`). `handleOne` of the worker
(`apps/agent-worker/src/index.ts`) is the program counter `pc[j][a]` of delivery `a`,
one value per statement: the three polls for cancellation, `markRunning`, quota,
the scan and its writes or the agent, the verdict's row and its event, the catch
block. `Catch` and `Finish` say where a failed statement or the last one leads.

Properties: a job that the queue holds ends with a verdict in its log although one
delivery fails (`EveryJobGetsVerdict`); a verdict tells whether findings were written
(`VerdictTellsTheWrites`); work was paid for in the quota's log (`WorkIsPaid`); a
cancellation that arrives in time stops the job (`CancelInTimeStops`). Proved besides:
a delivery says nothing after its verdict, although its catch block speaks too
(`OneVerdictPerDelivery`); nothing is cancelled unasked (`CancelledIsRequested`).

### JobStream

One job's log, its deliveries that append to it, and a client that reads it over
connection after connection. `StartInsert` takes the id, `Commit` makes the row
visible. The server's loop is `Select`, `Send`, `Wake`, `TimeOut`; the client
(external; `EventSource` with a cursor) is `Connect`, `Read`, `ReadEnd`, `Disconnect`.
The loop learns that its client left only when it writes. `InOrder` is ORDER BY id.
`Overlap` says whether a delivery that pg-boss gave up may run on beside the next.

### Quota

`Count`, `Earliest`, `Log` are the statements of `checkAndConsumeQuota`; `Arrive`,
`Resolve`, `Invoke`, `Answer` the route around them (`api/agent/invoke/route.ts`).
`now` is read once, when the request arrives, and rows carry it. The clock ticks
between any two statements. Web and worker use disjoint kinds, hence partitions, so
one caller's module serves both.

### SyncGateway

One document. `Authenticate` and `Upgrade` stand for the HTTP upgrade and
`onConnection` up to the room; `BuildDone` / `BuildFails` for `getOrCreateRoom` with
its `pendingRooms`; joining, MODE_SET and backlog follow in one step, because with
the y-sweet backend nothing is awaited that yields to another event of the process
before them. `OnFrame` routes by the mode the gateway holds; `TickStart` and
`TickApply` are a heartbeat's read of the ACL and what it does with the answer, up
to `MaxLoads` of them at a time; `SyncOut`, `SyncIn` exchange updates with y-sweet;
`Crash` is the process ending. Documents are sets of updates, which is what Yjs
guarantees of them: merging is commutative, associative and idempotent.

### EditorSession and SnapshotWorker

`EditorSession` is the other end of that socket: tabs of browsers that load a
document (`ReadTemplate`, `ClaimTemplate`, whose UPDATE has the condition that makes it
a claim; `Bundle`, `ParseTemplate`), mount an editor that seeds an empty Y.Doc
(`Mount`), hear from IndexedDB (`Hydrate`), `Type`, `Connect`, `Enter` the room, and lose the
socket (`Break`, `Restart` of the gateway) or are closed and loaded again (`Leave`). A
Y.Doc is a set of updates with what each of them needs; it shows the closed part.
`SnapshotWorker` extends it by the worker's ticks: `Select` (never copied, or touched
since), `Fetch` from y-sweet, `Copy`, `Abort`. `Age` is the passing of a day.

### MerkleLog

Two kinds of publish: from a document (`share-snapshot`, `open-question`,
`open-dataset`, `answer`), which read the latest row first, and `POST /api/publish`,
whose caller names the predecessor. `ReadPrev`, `ReadKey` (verification with the
stored key or, if there is none, with the one submitted), `Begin`, `Insert`,
`CheckPrev` (the foreign key), `Commit`, `Fail`. `Begin` stores a first key behind the
condition that there is none, and `Unclaimed` is the unique index on the key. A row's
hash binds its content and predecessor and is not modelled; `Anomalies` is
`verifyMerkleChain`.

### OpenRecord

The log with what it is of (`Content`: a question, dataset, snapshot or review; which
record it reviews or supersedes; whether the tables give back what was signed) and
with its readers. `Stamp` is the BEGIN of a publish, where `created_at` is taken:
`Begin`, its first statement, may wait for a lock. `LoadFeed`, `Select` per table and
`FeedFails` are `loadOpenContentFeedSafely`, `Listed` what `assembleOpenContentFeed` makes
of the rows. `OpenPage`, `ReadReviews`, then per bundle `ReadEntity`, `ReadLog`,
`ReadSigner` or `BundleFails`, are the pages under `/open` and
`GET /api/open-content/provenance/[kind]/[id]`; that route reads what the page read and
then the bundles once more, which is one more load. `Assess` is the server's verdict,
`Tool` that of `verifyPublicProvenanceBundle`. `shown` is history: every verdict that was
ever given of a record.

Properties: whatever commits while a page is loaded, what could be read of it
verifies, for the server and for the tool, except content the tables do not keep and
rows that lost the race of first keys (`ServedRecordsVerify`); a verdict that was shown
stays (`VerdictIsFinal`); a feed lists nothing that was superseded before it began and
omits nothing that fits (`FeedIsCurrent`).

### RevisionApproval, AgentRun, Coordinator

`Propose` is `persistProposalBatch`. A request `Arrive`s, `Read`s the revision without
a lock, is refused or goes on to `Update` the row - from there it holds the row's
lock -, `ReadChain`, `Commit`. A request names the contribution or counter-proposal
that it makes. `contributions` and `chain` are history of who decided what, as the
code keeps it; `tx[q].saw` is history the code does not keep. That the chain loses no
entry although it is read, extended in memory and written back hangs on one thing:
the revision's row is updated before its chain is read, so that the row lock
serialises the read-modify-writes. The mutant `Update_NoLock` moves the update to the
end, and entries get lost.

`AgentRun` extends it by one agent's run (`invokeAgentViaPlugin`): `Start`, `Connect`
server by server, the provider's loop (`UseTools`, an answer to each use by
`UnknownTool`, `MalformedArguments` or `CallTool`, `Finish`, `ModelFails`), `Persist` and
`CloseAll`, which is the `finally`. The three providers differ in how they read a
message; the loop is one. `Coordinator` extends that by `runCoordinatorLoop`: `Decide`,
`Dispatch` and `Collect` for each synchronous handoff, `Enqueue` for the others, `Flush`,
`NextStep`; and by `Invoke`, a run outside any coordinator. So agents, coordinator and
reviewers run beside each other in one specification, `TeamSpec`.

### Invitation

`Invite` reads the caller's role, as the code does - any author's, not the owner's only
(section 6) - and `Insert` writes the invitation later; `Accept` takes the
row's lock and judges, `Grant` writes role and row and commits, `Expire` is the update
that its own throw rolls back; `Visit` and `Heal` are the owner's pages, which restore
the owner's role; `Fail` is a failed statement. Two requests by the same person, a
chain of invitations among three people and an acceptance of one's own address are
all in the instance.

### ClaimLedger and MaintenanceScan

`ClaimLedger`: `BeginBind`/`CommitBind` (evidence and its citation in a transaction, the
citation looked up before), `Submit`/`InsertReview`, `Sign`/`SignRow`, `Withdraw`/
`WithdrawRow`. `MaintenanceScan` extends it by scans - `Begin` to `Write`, a step per
generator and SELECT, each reading the ledger of its moment - and by the owner's
clicks on findings (`Read`, `Update`). It carries as history the ledgers a scan began
and passed, to say what a report that belongs to no single state still promises.

### DurableDoc, VaultFile, VaultHost

`DurableDoc` is what a document of a vault promises: a body that grows, a saved copy
that is an earlier whole state of it and never goes back. `VaultFile` is the handle
with its hooks: `Apply`, timers of two channels, `Flush`, `Stop`, and under them the
files step by step (`OpenTmp` truncates, `WriteBytes`, `Rename`, `Unlink`, `Fail`), with a
process that dies anywhere and another program that edits the markdown. Its sidecar
implements `DurableDoc` as long as writes do not overlap (`SidecarIsDurable`, with
`Durable == INSTANCE DurableDoc WITH ...`). `VaultHost` puts the page's pump, the
shell's pending answers and the host's serial queue over it and takes the document
from `DurableDoc` itself (`Document == INSTANCE DurableDoc WITH ...`).

## 4. The runs

| Run | Instance | Shows |
|---|---|---|
| `agent_job` | a scan and a stub agent, two deliveries each, one cancel request, one fault, quota 1, fairness | what work costs, what verdicts tell, that every job ends, that a timely cancel stops it |
| `quota_race` | two callers, two partitions of two slots, window 1 of 3 ticks, three requests each, one fault | the bound and reset times |
| `job_stream` | two deliveries of two events, two connections, fairness | replay, its end, and that every loop closes |
| `gateway` | a writer and a proposer, one edit, one change of the ACL or token expiry, two overlapping reads, one failed build or crash, fairness | rooms, bodies, access |
| `document_life` | three tabs of two browsers, an edit, a restart or broken socket, a tick, a document y-sweet knows nothing of | one template, nothing shown lost, what the body lacks |
| `snapshot_stale` | the same | *violated*: a document written after its first copy is not copied again |
| `open_content` | four publishes of two principals over both routes, each of which may fail: two snapshots, and two first publishes with two keys, one of which supersedes the second snapshot and one reviews the first; a load of the feed and of a page at a time | forks and unverifiable rows only by races, what is served verifies, verdicts stay, the feed is current |
| `revision` | a proposal of an agent (two servers that offer a tool of the same name, an unknown tool, two turns of two uses, two steps of two handoffs), two reviewers' requests, one fault, one failed save, fairness | chains, decisions, calls, servers, reports, and that everything ends |
| `invitation` | four requests of three people, two roles | one acceptance; roles and invitations agree whatever fails |
| `maintenance` | two claims, three requests (one of them a review that is there), a scan of a document or a vault, two clicks | signatures, brackets, closed findings |
| `vault_file` | two sidecar writers, one markdown writer, an update, another program's text, one failed operation, two lives | damage, promises, quiet, overwriting, the refinement |
| `vault_host` | two updates, two host processes, two timeouts or failed flushes | answers, gaps, saves |

Why these bounds are enough to meet the interesting cases: every race here is
between two actors, sometimes with a third that sees the result. Two deliveries are
the first redelivery; a third would start from what the second left. One fault is a
crash at any statement, and a redelivery repairs one; with more faults than
redeliveries `EveryJobGetsVerdict` is false of any such system. Two callers and a
window shorter than the horizon let rows leave the window between a count and a
log. Two clients and two reads of a heartbeat are the least for "the other one" and
for "the newer answer". Three tabs are one that seeds, one that hands on what
IndexedDB kept, one that sees it. Two requests on a proposal are a race, and a
decision on the counter-proposal that the first one made; a proposal by an agent
that is decided while the agent still closes its servers is in it too. Two servers
with one tool are the least for a name that resolves to the last. Four publishes are
two that fork, one that follows and one that fails. Loads write nothing, so that what
one sees does not depend on others: one at a time is enough. Two `created_at` are never
equal in the model; the code's order among equal ones is the database's. Two writers of one temporary name
are the least that overlap, and two lives of the host the least that reuse an id. For
the theorems these bounds do not matter.

Deadlock is not checked: all instances come to rest when their bounded requests
and faults are used up.

Each property has a mutant in `PROJECT.json` that violates it; among them are the
bugs one would most easily make (poll by a stale flag, log with the server's time,
dedupe rooms without `pendingRooms`, save after the `try` block that closes servers,
swallow what the flush hook throws, rename before the bytes are written).

### Fairness

Weak fairness of a process's next statement says that a running process goes on and
that a statement returns or throws: `Handle(j, a)`, `Serve(c)`, `Step(q)`, `Tick(c)`,
`Deliver(c)`, `ApplyCancel`, `EnqueueOk`, `RollBack`, `RunStep`, `JobStep`.
pg-boss polls its queue, so `Deliver` and `Expire` are weakly fair. `TimeOut` of the
stream is strongly fair, since the loop checks its fifteen minutes at each turn, and is
between turns elsewhere. The client's `Connect`, `Read`, `ReadEnd` are what a browser that keeps the page open does.
In `RevisionApproval` fairness is of *some* transaction's step: the database need not be
fair between those that wait for a row, and with finitely many requests that is
enough. The providers' `fetch` and the MCP servers' calls have no timeout of their own;
that they answer or fail is assumed of the network under them. Nothing that users do
is fair, nor any fault.

## 5. The proofs

All for any sets and bounds allowed by the assumption on the constants of the module, by an
inductive invariant that TLC checked before. The assumptions on constants say of the
marks that stand for "none" that they are no element of the sets beside them, of
bounds that they are natural numbers, and little more: `OpenRecord` that there are
finitely many publishes (it counts them), `VaultFile` that updates and the texts of
other programs are different things, as they are in the code.

**AgentJobProofs**: `TypeCorrect`, `PaidForWork`, `VerdictsAreTrue`, `VerdictIsLast`,
`NoSpuriousCancel`. `IInv` adds to the properties what pg-boss's row says of the
deliveries (`Queueing`), what the place of a handler says of rows it wrote (`Ledger`),
that a delivery that gave a verdict is past its last statement (`Said`), and that the
wish to cancel goes back to a request (`Asked`). Without `Said`, that a verdict is last
is not inductive: a state in which a handler spoke and is still running would speak
again.

Of the stream: `ReplayIsExactOneByOne`, under the premise that no two deliveries run at
once; with `Overlap` a lower id may commit after a higher one, and the property is false
(section 6). Everything is said by positions in one sequence, the rows in order (`Log`).
That it only grows at its end hangs on `OneAfterTheOther`: the insert under way has the
highest id. The client was told a first part of the log (`ToldFirst`); each loop has sent
a longer one, of which what the client has not heard is on the wire, with perhaps the
timeout behind it (`Sent`, `UnderWay`). That a query returns what `InOrder` says is the
lemma `OneEnumeration`: a set of rows has one enumeration by id.

What is left of it with overlapping deliveries: `ReplayStaysInOrder`, without a premise.
A row may be left out, but what is told are rows in the order of their ids, so none twice,
and nothing follows the verdict that ends the stream. Nobody's rows are now a first
part of the log; the invariant (`OverlapInv`) says of the told rows, of a batch and of the
wire that they rise, each from where the one before it ends. That a query
returns such a sequence at all needs that a set of rows with different ids has an
enumeration (`HasEnumeration`, from a smallest set that has none).

**QuotaProofs**: `TypeCorrect`, `BoundedOverAdmission`, `EarnedRejection`,
`ServedAndLogged`, `ExactReset`. The bound is not inductive on rows alone: a request
between count and log is as good as a row, and `Admitted` counts rows and such requests
together. For the reset time `Named` keeps the row that a refusal named: it and the rows
no earlier use up the partition, and since rows are only added they still do; that
one tick later too few are left follows from the property's own premise.

**OpenRecordProofs**, of the log: `TypeCorrect`, `LinksGoBack`, `NoForkInSequence`, `FirstKeyRace`.
The order of numbers, commits and reads (`Distinct`, `Order`) and who may store a
principal's key (`Held`, `Verified`, `Stored`) are independent halves.

Of what is shown of it: `RecordsArePublishes` - every behaviour of publishers and readers is
one of `MerkleLog`'s `Spec` - and with it the log's invariant; `RecordTypes`,
`VerdictsAreFinal`, `PagesVerify`, `FeedsAreCurrent`. That a verdict stays needs that rows and stored keys do
(`KeysStay`), and that a row is there only when its signer has a key (`RowsHaveKeys`, from
the log's `Verified`); `Fetches` says that the key a load holds is the one that is stored,
`Opened` that no bundle of a page misses its row, `Verdicts` that what was said of a record
is what would be said now. `PagesVerify` then takes the exceptions from `FirstKeyRace`.
For the feed, `Stamps` says that what a record names was stamped before it: so the SELECT
that finds a superseded snapshot finds its successor too, however the rows are cut off.
`Reading` says for what a row was cut off, and `NewestFill` that the newest n of at least
n rows are n: the number of newer ones maps rows one to one on numbers.

**CoordinatorProofs**, of the review: `TypeCorrect`, `ChainsAreWhole`, `StatusIsLastDecision`,
`OnlyRacesOverturn`, `ApprovedContributions`, `LinkedCounterProposals`. The key
conjunct is `Holding`: who updated a row holds it, and the chain it read is the chain
there is. `Begun` keeps what a transaction found true of the chain's prefix, which
only grows. `CommitKeeps`, the only step that changes what others see, has a step per
conjunct of `IInv`.

Of the team: `TeamImplementsReview` - every behaviour of agents, coordinator
and reviewers is one of `RevisionApproval`'s `Spec` - and by it `TeamChains`, `TeamRaces`
from the theorems above; `TeamTypes`, `ToolUses`, `ServersEnd`, `Reports`. `Propose` may
only be given what is new: `Proposing` says that what a run made is neither stored
nor in the buffer until its one save, `Whose` that a run saves itself exactly if no
coordinator runs it. `Books` counts handoffs and results, `Answering` compares the
answers with the uses position by position (`Greatest` supplies the last server that
offers a tool, for lists of any length), `NoStray` says that a server nobody knows of
exists only after the run that lost it.

**InvitationProofs**: `OneAcceptanceSucceeds`, `MembersWereInvited`,
`RoleAndRowChangeTogether`, `LapsedGivesNothing`, `TypeCorrect`. The lock is a relation between requests that
hold a row; `Granting` keeps what the holder judged true until it commits.

**SyncGatewayProofs**: `TypeCorrect`, `RoomIsOne`, `NoLag`, `BodiesAreWritersWork`.
`Membership` says that the members of a room are the live connections and that its room
is the one in the registry, or is still built by the build the registry has: without the
second half a late build could make another. That only writers change the body is not
inductive by itself, since an update goes from a frame to the body and on to y-sweet:
`Backlog` says that a frame's edit is its sender's, `Written` that what body and y-sweet
hold is a writer's, and `ModesGranted` that the mode the gateway holds, or is about to
set, was granted once (`acl.ever`).

Of the other end of the socket: `TemplateClaimedOnce`, `NothingShownIsLost`,
`MissingForAReason`, for the sessions beside the snapshot worker, whose ticks change nothing
of them (`WorkerOnlyReads`). `Claims` says that one tab at most reads the template
to claim it or has it, and none has while it is there; `History` that what an update builds
on was made before it, so that of the updates the body lacks one is the first; `Holdings`
that who makes an update has it and what it builds on. `OnlyTheUnsentIsMissing` is not
inductive: `UnsentAtHome` says of an update that the body lacks, though it has all the
update builds on, that it was made outside the room and has not left its browser, and
that what builds on it is wherever it is. What is missing rests on the first such update.

**MaintenanceScanProofs**: `TypesHold`, `SignaturesHold`, `BracketsHold`,
`ClosedStaysClosed`. The ledger has an invariant of its own: `Underway` says that the
review about to be signed is still the signer's and not an agent's when the UPDATE by
id comes. A scan needs of it only that it grows (`Grows`); `Sound` says for each kind
what a finding owed to the ledger when its generator read it (`Bracketed`), and of the
generators that have not run that they found nothing (`NothingEarly`). A click keeps to
what the status it read allows (`Judging`), which is why none reopens a finding and
only one that read it before changes a closed one.

**VaultFileProofs**: `Types`, `DamageNeedsOverlap`, `FlushedStays`, `QuietMeansSaved`,
`OnlyUnseenIsOverwritten`, and the refinement `SidecarRefines`. The writes of a channel
share one temporary name and nothing orders them, so every part of the invariant that
speaks of a file's content stands under the premise that writes have not overlapped.
Then the one write finds in the temporary file what it put there (`Alone`); sidecar,
write and document lie in this order (`Saving`), so that each rename is a save of
`DurableDoc` and every other step a change of its document or a stutter; what a call
flushed is in the files or in writes that the call waits for (`Kept`); and while nothing
has failed what the document has is there, on its way, or has a timer (`Fresh`). What a
markdown write may drop is found by who wrote a text: an update is made once (`Made`),
and of other programs' texts a process knows only those it loaded, in document, writes
and sidecar alike (`OneView`); these two need no premise, and with them a write has all
that document and file have in common (`Twin`).

Of the shell above: `CommandsGetTheirAnswers`, `NoUnexplainedGap`, `LeavingSaves`. A line in a
pipe with the id of a command that waits is about that command (`Sound`), whichever
process wrote it and however late: ids start anew with each process, and each has its own
pending answers. The pump's calls are in the order of the edits (`Chained`); what the host
answered was so when it did (`AppliedIsThere`, `FlushedIsSaved`), and stays so because a
`doc.open` that is still unread while the page shows the document finds it open and
loads nothing (`OpenedAtHost`).

Only model-checked: everything temporal beyond `[]` (`EveryJobGetsVerdict`,
`CancelInTimeStops`, `VerdictIsSeen`, `EveryLoopCloses`, `AccessSettles`, `Converges`,
`EverythingEnds`), which TLAPS cannot do with these backends.

## 6. Where code and comments part

With a run (`findings` in `PROJECT.json` quotes the lines): a document is copied once
and never again, since nothing sets `updated_at` (`snapshot_stale`).

Found while modelling, without a run of their own. Jobs and quota:

- `markRunning` overwrites 'cancelling' (`job-store.ts:50`), and the cancel route's UPDATE
  has no condition either (`cancel/route.ts:101`), though `agent-job-cancel.ts:11` has
  "running     → cancelling      ✓  (worker will see flip at next poll)" and :46 speaks of
  "Statuses that lock the row". `CancelInTimeStops` says when a cancel does stop a job.
- `quota-enforcer.ts:12` calls count and log "atomic"; two callers are admitted to one
  slot. `OverAdmissionBounded` says how far that goes. After over-admission `resetAt`
  (:67) names a time at which no slot is free; `ResetIsExact` excludes that by its premise.
- The quota is spent before the request is found invalid or its model unavailable.
- `index.ts:125-127` announces an event `quota_blocked`; the code emits `error`. The comment
  at :250 counts three generators; five kinds are the default.
- `stream/route.ts:105` says that the loop exits at the next iteration after a
  disconnect; it polls on until it next has something to write. 'cancelled' closes no
  stream. With deliveries that overlap (`Overlap = TRUE`), an event whose id is lower
  and whose commit is later than the cursor's is never sent.
- `pgboss.ts:15` keeps the promise of a start that failed, and all later submissions of
  the process fail with it.

Gateway, editor, snapshots:

- A socket that closes while its room is built is added all the same (`server.ts:154`) and
  stays; :10 has "7. on close — remove from room".
- The in-memory backend concatenates its updates, and a joiner's `applyUpdate` reads
  the first of them only (`in-memory.ts:27`).
- A draft frame under way when its proposer becomes a writer is taken for a body update.
- The editor seeds every empty Y.Doc it mounts (`Editor.tsx:71-84`), before IndexedDB or the
  gateway has been heard of; :167-169 says that this "only runs after sync != null
  (gateway open, post-hydration)".
- `doc-template.ts:11-13` speaks of templates in `yjs_doc_binary`; nothing writes one.
- A document that y-sweet has empty is stamped as copied (`y-sweet.ts:48-49`); a first fetch
  that fails aborts the tick; documents without a source occupy the slice.
  `cross-ref-sync.ts` describes its caller (:11-12, :88-90); there is none.

Open content, revisions, runs:

- Concurrent publishes fork the chain (`share-snapshot/route.ts:110`), of which
  `merkle-log.ts:157-159` says "(4) No two rows share the same prev_entry_id (chain must be
  linear —". Shared snapshots fall back on an older copy (`share-snapshot/route.ts:60`).
- `POST /api/publish` does not store `supersedesSnapshotId` (`publish/route.ts:217-238`), nor
  whatever else the columns do not hold; such a record is signed and logged, and shown as
  a hash mismatch for ever, as is a snapshot whose base64 was not in canonical form
  (`share-snapshot/route.ts:163`). `ServedRecordsVerify` has these as its exception. What
  such a snapshot superseded stays in the feed: `ContentOK` lets only a snapshot of the
  document routes name another.
- A bundle that could not be read is 'invalid' to the tool: it lacks its Merkle entry, and
  that failure comes before the 'unavailable' of `public-provenance.ts:274-285`.
- No code writes `status`, `withdrawn_at` or `withdrawn_reason` of open content, although feed
  and pages filter by them: an answered question is listed as open.
- The feed takes its tables' newest rows before it filters them
  (`open-content-feed-query.ts:30-33`): enough newer rows that do not match, and a match
  is not listed.
- `acceptRevisionToContribution` (`provenance-writer.ts:210`) does not look at the status,
  where :191-192 has "promote a 'proposed' revision to a Contribution": a rejected one is
  accepted, and one is accepted twice. The inbox is cut off at its limit (:514) before it
  is filtered to what :471-472 promises.
- `providers/types.ts:61-62`: "Throws on provider-side error; the host translates to
  AgentProposal with a uncertainty entry." The host throws too, and nothing is proposed;
  the calls of a run that threw leave no record. A run that used up its iterations or
  answered without JSON proposes an empty revision.
- `mcp-client.ts:57`: "If any server fails to connect we close the ones already up and
  rethrow." One whose tools cannot be listed (:101) is up and not closed.
  `ServersEndWithTheRun` says that it is the only one.
- `skills-loader.ts` caches the body it read before the `stat` (:83-84), and compares bytes
  with UTF-16 units, so that a file with other than ASCII text never hits the cache.
- `ProposalBuffer` loses its batch when the save fails (`loop.ts:250-257`).

Claims, findings, invitations, vaults:

- A finding that is closed is changed by a click that read it before
  (`transition/route.ts:92`; :19-20: "resolved → (terminal; no transition)").
  `ClosedButForStaleClicks` says that nothing else changes it.
- A vault's scan takes everybody's claims (`job-types.ts:49-53`: "owned by this principal"),
  a document's scan everybody's outdated sources. Two kinds that one scan finds may
  contradict each other, since people go on between its SELECTs. A redelivered scan
  writes its findings twice.
- Evidence ids of a review are not looked up. Of two overlapping signatures the later
  overwrites the earlier, and a review withdrawn between the check of a signature and
  its UPDATE is signed all the same; `SignaturesAreTheAuthors` says whose a signature
  is, not that this cannot happen. A review whose second statement fails leaves its
  provenance (`review/route.ts:133`). Concurrent bindings make two citations of one DOI.
- Only the owner is to invite: `invitations.ts:57` "Owner-only operation per ADR-0002 —
  capability.grant covers it.", `invitation/route.ts:4` "Owner creates / lists per-document
  invitations", `schema.ts:524` "The owner creates a row", ADR-0002:116 "Phase 1 简化：只有
  document owner 能 grant". But `requireOwnerCtx` (`invitation/route.ts:31-44`) asks for a row
  of `document_acl` only, capability.grant is in the bundle of every `paper-author`
  (`roles.ts:71`), and `ShareDialog.tsx:42` offers that role. So a co-author invites, also as
  `paper-author`, and whom that one invites does too; and since the right is read
  before the insertion, one who has been made a commenter meanwhile still
  invites. No run or theorem claims that the owner is the only inviter; what they
  claim of roles holds whoever invites.
- An owner who accepts a co-author's invitation as commenter stays a commenter: the
  pages write the owner's row only when there is none (`page.tsx:70`).
- The status 'expired' is written in the transaction that the next line's throw rolls
  back (`invitations.ts:135-141`), and the unique index (`0004_doc_invitation.sql:32`) counts
  pending rows whether overdue or not. So an address whose invitation lapsed is
  never invited to the document again: 409, and no route revokes
  (`LapsedIsFinal`, theorem `LapsedGivesNothing`).
- Front matter is lost when a document is loaded from its sidecar (`hooks.ts:33-46`);
  `VaultFile` is about the body of the Y.Doc only.

## 7. Not modelled

Within modelled components: the ownership check of the cancel route and the cascade
of a document's deletion; progress fractions; statements that succeed although their
acknowledgement is lost; the in-memory backend, broadcasts of drafts, PING and PONG,
frame encodings; recomputation of content hashes, filters of the feed by tag and date, deletion of
subdocuments (no code deletes one; it would clear a signed column), collisions of ids
chosen by callers, retries that publish a second entity, the development signature; capabilities revoked
between a route's check and its transaction; drafts of revisions (no code makes one),
triadic context, prompt templates and the bytes of a proposal; what tools and models
say; the choice of a provider; the file watcher, listing, renaming and
trash of vaults and the conversion of markdown.

Components without a module: `PROJECT.json` gives the reason for each. Importers,
renderers, typography and the like are functions from text to text; checking them
against a reference would mean writing their grammar again. Most lines of the web
application are rendering, forms and read-only queries. Language models, MCP servers,
ORCID, Crossref and mail are external services whose answers are a nondeterministic
outcome wherever a module meets them.
