------------------------------ MODULE Coordinator ------------------------------
(***************************************************************************)
(* The coordinator's loop over agents' runs, with a buffer of proposals    *)
(* that it saves at the end of a step (as the tests of the loop wire it),  *)
(* beside runs of /api/agent/invoke, and people who decide on what was     *)
(* proposed while the agents go on.                                        *)
(*                                                                         *)
(* Of a decision the number of handoffs counts.  An asynchronous one is    *)
(* given to the host, which answers with a job id or fails.                *)
(***************************************************************************)
EXTENDS AgentRun

CONSTANTS
    MaxSteps,       \* maxSteps of the loop
    MaxHandoffs     \* bound: handoffs in a decision

ASSUME JobConstantsOK == MaxSteps \in Nat /\ MaxHandoffs \in Nat

VARIABLE job        \* the coordinator's job

allVars == <<vars, runVars, job>>

Job == [pc : {"off", "decide", "dispatch", "flush", "after", "reported", "thrown"},
        step : Nat,
        sync : 0 .. MaxHandoffs,            \* handoffs of this step yet to run
        async : 0 .. MaxHandoffs,           \* ... and to enqueue
        final : BOOLEAN,                    \* "[final]" in this step's scratchpad
        asked : Nat,                        \* handoffs of all steps
        told : Nat,                         \* handoffResults
        named : SUBSET Proposals,           \* ... those that name a proposal
        buffer : SUBSET Proposals]          \* ProposalBuffer.pending

JobTypeOK == job \in Job

NoJob == [pc |-> "off", step |-> 0, sync |-> 0, async |-> 0, final |-> FALSE,
          asked |-> 0, told |-> 0, named |-> {}, buffer |-> {}]

TeamInit == Init /\ RunInit /\ job = NoJob

-----------------------------------------------------------------------------
(* runCoordinatorLoop.                                                     *)

JobAlone == UNCHANGED <<vars, runVars>>

StartJob ==
    /\ job.pc = "off" /\ run.pc = "idle"
    /\ job' = [job EXCEPT !.pc = "decide", !.step = 1]
    /\ JobAlone

\* The step runner's text holds a decision: the handoffs of kinds that are allowed
\* (at least one).
Decide(sync, async, final) ==
    /\ job.pc = "decide" /\ job.step <= MaxSteps
    /\ sync + async > 0
    /\ job' = [job EXCEPT !.pc = "dispatch", !.sync = sync, !.async = async, !.final = final,
                          !.asked = @ + sync + async]
    /\ JobAlone

\* It holds none, or none that is allowed; or the steps are used up.
Stop ==
    /\ job.pc = "decide"
    /\ job' = [job EXCEPT !.pc = "reported"]
    /\ JobAlone

\* The step runner throws.
DecideFails ==
    /\ job.pc = "decide" /\ job.step <= MaxSteps
    /\ job' = [job EXCEPT !.pc = "thrown"]
    /\ JobAlone

\* dispatchSyncHandoffs: one child after the other, to its end; it does not save.
Dispatch ==
    /\ job.pc = "dispatch" /\ job.sync > 0
    /\ StartAny(FALSE)
    /\ UNCHANGED job

\* The child's proposal goes into the buffer; a child that failed is a result too.
Collect ==
    LET new == {run.proposal} \ {NoRevision} IN
    /\ job.pc = "dispatch" /\ run.pc = "over"
    /\ job' = [job EXCEPT !.sync = @ - 1, !.told = @ + 1,
                          !.named = @ \cup new, !.buffer = @ \cup new]
    /\ run' = Idle
    /\ UNCHANGED <<vars, server, made, calls, outages>>

\* asyncEnqueuer, after the children; its failure is a result too.
Enqueue ==
    /\ job.pc = "dispatch" /\ job.sync = 0 /\ job.async > 0
    /\ job' = [job EXCEPT !.async = @ - 1, !.told = @ + 1]
    /\ JobAlone

StepEnds ==
    /\ job.pc = "dispatch" /\ job.sync = 0 /\ job.async = 0
    /\ job' = [job EXCEPT !.pc = "flush"]
    /\ JobAlone

\* drainAndPersist: the buffer is emptied first, then saved in one transaction.
Flush ==
    /\ job.pc = "flush"
    /\ job' = [job EXCEPT !.pc = "after", !.buffer = {}]
    /\ IF job.buffer = {} THEN UNCHANGED vars ELSE Propose(job.buffer)
    /\ UNCHANGED runVars

FlushFails_Swallowed ==      \* mutant: the loop catches what the hook throws
    /\ job.pc = "flush" /\ job.buffer # {} /\ outages < MaxOutages
    /\ job' = [job EXCEPT !.pc = "after", !.buffer = {}]
    /\ outages' = outages + 1
    /\ UNCHANGED <<run, server, made, calls, vars>>

\* The transaction fails: the batch is gone, and the loop throws.
FlushFails ==
    /\ job.pc = "flush" /\ job.buffer # {} /\ outages < MaxOutages
    /\ job' = [job EXCEPT !.pc = "thrown", !.buffer = {}]
    /\ outages' = outages + 1
    /\ UNCHANGED <<run, server, made, calls, vars>>

\* onStep, and the next step unless this one was final.
NextStep ==
    /\ job.pc = "after"
    /\ job' = [job EXCEPT !.pc = IF job.final THEN "reported" ELSE "decide",
                          !.step = IF job.final THEN @ ELSE @ + 1]
    /\ JobAlone

OnStepFails ==
    /\ job.pc = "after"
    /\ job' = [job EXCEPT !.pc = "thrown"]
    /\ JobAlone

JobStep ==
    \/ \E sync, async \in 0 .. MaxHandoffs, final \in BOOLEAN :
          sync + async <= MaxHandoffs /\ Decide(sync, async, final)
    \/ Stop \/ DecideFails \/ Dispatch \/ Collect \/ Enqueue \/ StepEnds
    \/ Flush \/ FlushFails \/ NextStep \/ OnStepFails

-----------------------------------------------------------------------------
(* All of them.                                                            *)

\* POST /api/agent/invoke; one run at a time (bound).
Invoke ==
    /\ job.pc = "off"
    /\ StartAny(TRUE)

TeamNext ==
    \/ StartJob \/ JobStep
    \/ (Invoke \/ RunStep) /\ UNCHANGED job
    \/ /\ \/ \E q \in Requests, d \in Decision, r \in Revisions : Arrive(q, d, r)
          \/ \E q \in Requests : Step(q) \/ Fail(q)
       /\ UNCHANGED <<runVars, job>>

TeamSpec == TeamInit /\ [][TeamNext]_allVars

\* Statements and tools return, and so does a model, or its connection fails.
FairTeamSpec ==
    /\ TeamSpec
    /\ WF_allVars(RunStep /\ UNCHANGED job)
    /\ WF_allVars(JobStep)
    /\ WF_allVars((\E q \in Requests : Step(q)) /\ UNCHANGED <<runVars, job>>)

-----------------------------------------------------------------------------
(* Properties.                                                             *)

\* What the coordinator's report says is so: it has a result for each handoff of each
\* step, and every proposal a result names is a revision in the database, saved once.
\* While the loop runs a proposal is in the buffer or in the database; only a loop
\* that throws loses one.
ReportIsStored ==
    /\ job.pc # "thrown" => job.named \subseteq job.buffer \cup Existing
    /\ job.buffer \cap Existing = {}
    /\ job.pc = "reported" => job.buffer = {} /\ job.told = job.asked

\* A run ends, whatever its model asks for; a coordinator ends, whatever its steps
\* hand off; reviewers' requests wait for each other's row locks, and none for ever.
EverythingEnds ==
    /\ []<>(run.pc = "idle")
    /\ <>[](/\ job.pc \in {"off", "reported", "thrown"}
           /\ \A q \in Requests : tx[q].pc \in {"idle", "200", "409"})
=============================================================================
