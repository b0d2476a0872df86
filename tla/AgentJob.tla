------------------------------- MODULE AgentJob -------------------------------
(***************************************************************************)
(* The life of a long-horizon agent job.  apps/web inserts an agent_job    *)
(* row and sends it through pg-boss; apps/agent-worker runs one handler    *)
(* per delivery (handleOne) and reports through the row's status and the   *)
(* append-only agent_job_event log; the cancel route flips the status      *)
(* while the handler runs.  Every awaited statement is an action of its    *)
(* own: no transaction and no status guard ties two of them together.      *)
(***************************************************************************)
EXTENDS Integers, Sequences, FiniteSets

CONSTANTS
    Jobs,          \* the agent_job ids
    Scans,         \* the jobs of kind 'maintenance-scan'; the others are stub agents
    Requests,      \* cancel requests of the owner of the jobs
    Quota,         \* quotaPerDay of a (principal, kind)
    MaxAttempts,   \* deliveries pg-boss makes of a job (retryLimit + 1)
    MaxFaults      \* bound: failed statements, crashes, overruns, bad sends

ASSUME ConstantsOK ==
    /\ Scans \subseteq Jobs
    /\ Quota \in Nat
    /\ MaxAttempts \in Nat \ {0}
    /\ MaxFaults \in Nat

VARIABLES
    status,         \* agent_job.status, "absent" before the insert and after the delete
    errorClass,     \* agent_job.error_class
    events,         \* agent_job_event rows in id order, each tagged with its delivery
    findings,       \* the deliveries that ran writeFindings
    invocations,    \* agent_invocation_log rows of the window, by the delivery that paid
    submit,         \* where the submission route stands
    boss,           \* pg-boss's own row for the job
    attempts,       \* deliveries made so far
    pc,             \* where the handler of each delivery stands
    cancel,         \* the cancel requests
    faults          \* faults so far

row      == <<status, errorClass, events>>
queue    == <<boss, attempts>>
vars     == <<status, errorClass, events, findings, invocations, submit,
              boss, attempts, pc, cancel, faults>>

-----------------------------------------------------------------------------
Attempts == 1 .. MaxAttempts

Terminal    == {"done", "error", "cancelled"}
Cancellable == {"queued", "running"}
Status      == Terminal \cup Cancellable \cup {"cancelling", "absent"}

Verdict   == {"done", "error", "cancelled"}
EventKind == Verdict \cup {"progress", "quota_blocked"}
Event     == [kind : EventKind, by : Attempts]

\* The statements of handleOne inside its try block: a throw there is caught.
InTry == {"poll1", "cancel1", "cancel1Ev", "scan", "poll2", "cancel2",
          "cancel2Ev", "write", "invoke", "done", "doneEv"}
\* Those outside it, the catch block included: a throw there fails the delivery.
Bare  == {"poll0", "cancel0", "cancel0Ev", "running", "start", "count", "log",
          "quotaErr", "quotaErrEv", "err", "errEv"}
Live  == InTry \cup Bare \cup {"return"}
PC    == Live \cup {"off", "returned", "threw", "crashed"}

NoJob == "no job"
CancelRequest == [pc : {"idle", "update", "applied", "noop", "rejected"},
                  job : Jobs \cup {NoJob}]

TypeOK ==
    /\ status \in [Jobs -> Status]
    /\ errorClass \in [Jobs -> {"none", "quota-exceeded", "failure"}]
    /\ events \in [Jobs -> Seq(Event)]
    /\ findings \subseteq Jobs \X Attempts
    /\ invocations \subseteq Jobs \X Attempts
    /\ submit \in [Jobs -> {"none", "inserted", "failed", "accepted", "rolledBack"}]
    /\ boss \in [Jobs -> {"none", "created", "active", "retry", "completed", "failed"}]
    /\ attempts \in [Jobs -> 0 .. MaxAttempts]
    /\ pc \in [Jobs -> [Attempts -> PC]]
    /\ cancel \in [Requests -> CancelRequest]
    /\ faults \in 0 .. MaxFaults

Init ==
    /\ status = [j \in Jobs |-> "absent"]
    /\ errorClass = [j \in Jobs |-> "none"]
    /\ events = [j \in Jobs |-> <<>>]
    /\ findings = {}
    /\ invocations = {}
    /\ submit = [j \in Jobs |-> "none"]
    /\ boss = [j \in Jobs |-> "none"]
    /\ attempts = [j \in Jobs |-> 0]
    /\ pc = [j \in Jobs |-> [a \in Attempts |-> "off"]]
    /\ cancel = [c \in Requests |-> [pc |-> "idle", job |-> NoJob]]
    /\ faults = 0

Fault == faults < MaxFaults /\ faults' = faults + 1

-----------------------------------------------------------------------------
(* Submission: insert the row, then send it to pg-boss.                    *)

InsertJob(j) ==
    /\ submit[j] = "none"
    /\ submit' = [submit EXCEPT ![j] = "inserted"]
    /\ status' = [status EXCEPT ![j] = "queued"]
    /\ UNCHANGED <<errorClass, events, findings, invocations, queue, pc, cancel, faults>>

EnqueueOk(j) ==
    /\ submit[j] = "inserted"
    /\ submit' = [submit EXCEPT ![j] = "accepted"]
    /\ boss' = [boss EXCEPT ![j] = "created"]
    /\ UNCHANGED <<row, findings, invocations, attempts, pc, cancel, faults>>

\* boss.send resolved to null: nothing was queued, and the route ignores the id.
EnqueueNull(j) ==
    /\ submit[j] = "inserted" /\ Fault
    /\ submit' = [submit EXCEPT ![j] = "accepted"]
    /\ UNCHANGED <<row, findings, invocations, queue, pc, cancel>>

\* boss.send threw; the job may be queued all the same (a lost acknowledgement).
EnqueueThrows(j) ==
    /\ submit[j] = "inserted" /\ Fault
    /\ submit' = [submit EXCEPT ![j] = "failed"]
    /\ \E reached \in {"none", "created"} : boss' = [boss EXCEPT ![j] = reached]
    /\ UNCHANGED <<row, findings, invocations, attempts, pc, cancel>>

\* The catch block deletes the row; the foreign key of the events cascades.
RollBack(j) ==
    /\ submit[j] = "failed"
    /\ submit' = [submit EXCEPT ![j] = "rolledBack"]
    /\ status' = [status EXCEPT ![j] = "absent"]
    /\ errorClass' = [errorClass EXCEPT ![j] = "none"]
    /\ events' = [events EXCEPT ![j] = <<>>]
    /\ UNCHANGED <<findings, invocations, queue, pc, cancel, faults>>

Submit(j) == \/ InsertJob(j) \/ EnqueueOk(j) \/ EnqueueNull(j)
             \/ EnqueueThrows(j) \/ RollBack(j)

-----------------------------------------------------------------------------
(* The cancel route: one SELECT, validateCancel, one UPDATE without guard. *)

ReadForCancel(c, j) ==
    /\ cancel[c].pc = "idle"
    /\ submit[j] # "none"
    /\ cancel' = [cancel EXCEPT ![c] =
           [job |-> j,
            pc  |-> CASE status[j] \in Cancellable  -> "update"
                      [] status[j] = "cancelling"   -> "noop"
                      [] OTHER                      -> "rejected"]]
    /\ UNCHANGED <<row, findings, invocations, submit, queue, pc, faults>>

\* UPDATE ... WHERE id = j: a deleted row stays deleted.
SetStatus(j, s) ==
    status' = [status EXCEPT ![j] = IF @ = "absent" THEN "absent" ELSE s]

ApplyCancel(c) ==
    /\ cancel[c].pc = "update"
    /\ cancel' = [cancel EXCEPT ![c].pc = "applied"]
    /\ SetStatus(cancel[c].job, "cancelling")
    /\ UNCHANGED <<errorClass, events, findings, invocations, submit, queue, pc, faults>>

CancelStep(c) == ApplyCancel(c) \/ \E j \in Jobs : ReadForCancel(c, j)

-----------------------------------------------------------------------------
(* pg-boss: delivery, acknowledgement, failure, expiry and retry.          *)

Deliver(j) ==
    /\ boss[j] \in {"created", "retry"}
    /\ boss' = [boss EXCEPT ![j] = "active"]
    /\ attempts' = [attempts EXCEPT ![j] = @ + 1]
    /\ pc' = [pc EXCEPT ![j][attempts[j] + 1] = "poll0"]
    /\ UNCHANGED <<row, findings, invocations, submit, cancel, faults>>

\* What pg-boss does with a delivery that failed or expired; one it gave up
\* earlier no longer counts.
GiveUp(j, a) ==
    boss' = IF a = attempts[j] /\ boss[j] = "active"
            THEN [boss EXCEPT ![j] = IF a < MaxAttempts THEN "retry" ELSE "failed"]
            ELSE boss

Complete(j, a) ==
    /\ pc[j][a] = "return"
    /\ pc' = [pc EXCEPT ![j][a] = "returned"]
    /\ boss' = IF a = attempts[j] /\ boss[j] = "active"
               THEN [boss EXCEPT ![j] = "completed"] ELSE boss
    /\ UNCHANGED <<row, findings, invocations, submit, attempts, cancel, faults>>

\* The expiry of a delivery whose worker died.
Expire(j) ==
    /\ attempts[j] > 0
    /\ pc[j][attempts[j]] = "crashed" /\ boss[j] = "active"
    /\ GiveUp(j, attempts[j])
    /\ UNCHANGED <<row, findings, invocations, submit, attempts, pc, cancel, faults>>

\* The expiry of a delivery that is only slow: its handler runs on.
Overrun(j) ==
    /\ attempts[j] > 0
    /\ pc[j][attempts[j]] \in Live /\ boss[j] = "active" /\ Fault
    /\ GiveUp(j, attempts[j])
    /\ UNCHANGED <<row, findings, invocations, submit, attempts, pc, cancel>>

Crash(j, a) ==
    /\ pc[j][a] \in Live /\ Fault
    /\ pc' = [pc EXCEPT ![j][a] = "crashed"]
    /\ UNCHANGED <<row, findings, invocations, submit, queue, cancel>>

-----------------------------------------------------------------------------
(* handleOne, statement by statement.                                      *)

Goto(j, a, from, to) ==
    pc[j][a] = from /\ pc' = [pc EXCEPT ![j][a] = to]

\* A statement throws: the catch block of handleOne, or pg-boss, takes over.
Throw(j, a) ==
    \/ /\ pc[j][a] \in InTry
       /\ pc' = [pc EXCEPT ![j][a] = "err"]
       /\ UNCHANGED boss
    \/ /\ pc[j][a] \in Bare
       /\ pc' = [pc EXCEPT ![j][a] = "threw"]
       /\ GiveUp(j, a)

StatementFails(j, a) ==
    /\ Throw(j, a) /\ Fault
    /\ UNCHANGED <<row, findings, invocations, submit, attempts, cancel>>

\* appendEvent; its foreign key rejects the event of a deleted job.
AppendEvent(j, a, from, kind, to) ==
    \/ /\ status[j] # "absent"
       /\ Goto(j, a, from, to)
       /\ events' = [events EXCEPT ![j] = Append(@, [kind |-> kind, by |-> a])]
       /\ UNCHANGED boss
    \/ /\ status[j] = "absent"
       /\ pc[j][a] = from /\ Throw(j, a)
       /\ UNCHANGED events

Emit(j, a, from, kind, to) ==
    /\ AppendEvent(j, a, from, kind, to)
    /\ UNCHANGED <<status, errorClass, findings, invocations, submit, attempts, cancel, faults>>

Poll_Confirmed(j, a, from, stop, goOn) ==  \* mutant: waits for 'cancelled'
    /\ Goto(j, a, from, IF status[j] = "cancelled" THEN stop ELSE goOn)
    /\ UNCHANGED <<row, findings, invocations, submit, queue, cancel, faults>>

\* respectCancellation: read the flag, then mark, then tell.
Poll(j, a, from, stop, goOn) ==
    /\ Goto(j, a, from, IF status[j] = "cancelling" THEN stop ELSE goOn)
    /\ UNCHANGED <<row, findings, invocations, submit, queue, cancel, faults>>

Mark(j, a, from, s, to) ==
    /\ Goto(j, a, from, to)
    /\ SetStatus(j, s)
    /\ UNCHANGED <<errorClass, events, findings, invocations, submit, queue, cancel, faults>>

MarkError(j, a, from, class, to) ==
    /\ Goto(j, a, from, to)
    /\ SetStatus(j, "error")
    /\ errorClass' = [errorClass EXCEPT ![j] = IF status[j] = "absent" THEN @ ELSE class]
    /\ UNCHANGED <<events, findings, invocations, submit, queue, cancel, faults>>

RespectCancellation(j, a) ==
    \/ Poll(j, a, "poll0", "cancel0", "running")
    \/ Poll(j, a, "poll1", "cancel1", IF j \in Scans THEN "scan" ELSE "invoke")
    \/ Poll(j, a, "poll2", "cancel2", "write")
    \/ Mark(j, a, "cancel0", "cancelled", "cancel0Ev")
    \/ Mark(j, a, "cancel1", "cancelled", "cancel1Ev")
    \/ Mark(j, a, "cancel2", "cancelled", "cancel2Ev")
    \/ Emit(j, a, "cancel0Ev", "cancelled", "return")
    \/ Emit(j, a, "cancel1Ev", "cancelled", "return")
    \/ Emit(j, a, "cancel2Ev", "cancelled", "return")

MarkRunning(j, a) == Mark(j, a, "running", "running", "start")
EmitStart(j, a)   == Emit(j, a, "start", "progress", "count")

\* checkAndConsumeQuota: count the window's rows of the kind, then insert one.
Paid(j) == {d \in invocations : d[1] \in Scans <=> j \in Scans}

CountQuota_NoLog(j, a) ==     \* mutant: checks the quota and consumes none
    /\ Goto(j, a, "count", IF Cardinality(Paid(j)) >= Quota THEN "quotaErr" ELSE "poll1")
    /\ UNCHANGED <<row, findings, invocations, submit, queue, cancel, faults>>

CountQuota(j, a) ==
    /\ Goto(j, a, "count", IF Cardinality(Paid(j)) >= Quota THEN "quotaErr" ELSE "log")
    /\ UNCHANGED <<row, findings, invocations, submit, queue, cancel, faults>>

LogInvocation(j, a) ==
    /\ Goto(j, a, "log", "poll1")
    /\ invocations' = invocations \cup {<<j, a>>}
    /\ UNCHANGED <<row, findings, submit, queue, cancel, faults>>

RejectOverQuota(j, a) ==
    \/ MarkError(j, a, "quotaErr", "quota-exceeded", "quotaErrEv")
    \/ Emit(j, a, "quotaErrEv", "error", "return")

Scan_Writes(j, a) ==          \* mutant: stores findings as it finds them
    \/ /\ Goto(j, a, "scan", "poll2")
       /\ findings' = findings \cup {<<j, a>>}
       /\ UNCHANGED <<row, invocations, submit, queue, cancel, faults>>
    \/ /\ Goto(j, a, "invoke", "done")
       /\ UNCHANGED <<row, findings, invocations, submit, queue, cancel, faults>>

\* runMaintenanceScan up to its write, and the stub agent.
Scan(j, a) ==
    /\ \/ Goto(j, a, "scan", "poll2")
       \/ Goto(j, a, "invoke", "done")
    /\ UNCHANGED <<row, findings, invocations, submit, queue, cancel, faults>>

WriteFindings(j, a) ==
    /\ Goto(j, a, "write", "done")
    /\ findings' = findings \cup {<<j, a>>}
    /\ UNCHANGED <<row, invocations, submit, queue, cancel, faults>>

Finish(j, a) ==
    \/ Mark(j, a, "done", "done", "doneEv")
    \/ Emit(j, a, "doneEv", "done", "return")

Catch_Swallows(j, a) ==       \* mutant: the error is only logged
    /\ Goto(j, a, "err", "return")
    /\ UNCHANGED <<row, findings, invocations, submit, queue, cancel, faults>>

\* The catch block.
Catch(j, a) ==
    \/ MarkError(j, a, "err", "failure", "errEv")
    \/ Emit(j, a, "errEv", "error", "return")

Handle(j, a) ==
    \/ RespectCancellation(j, a) \/ MarkRunning(j, a) \/ EmitStart(j, a)
    \/ CountQuota(j, a) \/ LogInvocation(j, a) \/ RejectOverQuota(j, a)
    \/ Scan(j, a) \/ WriteFindings(j, a) \/ Finish(j, a) \/ Catch(j, a)
    \/ Complete(j, a)

-----------------------------------------------------------------------------
Next ==
    \/ \E j \in Jobs : Submit(j) \/ Deliver(j) \/ Expire(j) \/ Overrun(j)
    \/ \E c \in Requests : CancelStep(c)
    \/ \E j \in Jobs, a \in Attempts :
           Handle(j, a) \/ StatementFails(j, a) \/ Crash(j, a)

Spec == Init /\ [][Next]_vars

\* A started route and a delivered handler run on (the event loops turn and
\* PostgreSQL answers), pg-boss delivers and its monitor expires dead
\* deliveries.  No one is obliged to submit or to cancel, and no fault is due.
Fairness ==
    /\ \A j \in Jobs : /\ WF_vars(EnqueueOk(j)) /\ WF_vars(RollBack(j))
                       /\ WF_vars(Deliver(j)) /\ WF_vars(Expire(j))
    /\ \A c \in Requests : WF_vars(ApplyCancel(c))
    /\ \A j \in Jobs, a \in Attempts : WF_vars(Handle(j, a))

FairSpec == Spec /\ Fairness
-----------------------------------------------------------------------------
(* Properties.                                                             *)

Kinds(j)      == {events[j][i].kind : i \in DOMAIN events[j]}
HasVerdict(j) == Kinds(j) \cap Verdict # {}

\* Nothing is done for free: whatever interleaving of redeliveries, crashes and
\* cancels, a delivery that wrote findings or reported 'done' has its own row in
\* agent_invocation_log (index.ts checks the quota before the work).
WorkIsPaid ==
    /\ findings \subseteq invocations
    /\ \A j \in Jobs : \A i \in DOMAIN events[j] :
           events[j][i].kind = "done" => <<j, events[j][i].by>> \in invocations

\* A client that reads 'done' from the stream of a scan finds its findings
\* stored, and one that reads 'cancelled' knows that this delivery stored none
\* ("leaves no half-written findings").
VerdictTellsTheWrites ==
    \A j \in Scans : \A i \in DOMAIN events[j] :
        LET e == events[j][i] IN
        /\ e.kind = "done"      => <<j, e.by>> \in findings
        /\ e.kind = "cancelled" => <<j, e.by>> \notin findings

\* A delivery gives one verdict at most and says nothing after it, also when
\* the append of its verdict fails and the catch block speaks again: the stream
\* route stops reading at the first 'done' or 'error'.
OneVerdictPerDelivery ==
    \A j \in Jobs : \A i, k \in DOMAIN events[j] :
        i < k /\ events[j][i].by = events[j][k].by => events[j][i].kind = "progress"

\* No job is stopped that nobody asked to stop: 'cancelling', 'cancelled' and
\* the cancelled event all go back to a cancel request that was applied.
CancelledIsRequested ==
    \A j \in Jobs :
        status[j] \in {"cancelling", "cancelled"} \/ "cancelled" \in Kinds(j)
            => \E c \in Requests : cancel[c].pc = "applied" /\ cancel[c].job = j

\* One fault is survived by one redelivery: a job that pg-boss holds for an
\* accepted submission ends with a verdict in its log.
EveryJobGetsVerdict ==
    \A j \in Jobs :
        (submit[j] = "accepted" /\ boss[j] = "created") ~> HasVerdict(j)

\* A cancel that is in the row before pick-up, or while the handler is on its
\* way from the quota check to its last poll, stops the job, unless a statement
\* fails on the way.
CancelInTimeStops ==
    \A j \in Jobs :
        /\ status[j] = "cancelling" /\ boss[j] \in {"created", "active"}
        /\ \A a \in Attempts : pc[j][a] \in {"off", "poll0", "poll1", "scan", "poll2"}
        ~> "cancelled" \in Kinds(j) \/ faults > 0

=============================================================================
