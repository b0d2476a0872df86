-------------------------------- MODULE AgentRun --------------------------------
(***************************************************************************)
(* One run of an agent's plugin: connect the MCP servers it is given, let  *)
(* the model use their tools until it answers, propose a revision, close   *)
(* the servers.  Whoever runs it either saves the proposal in the run      *)
(* (/api/agent/invoke) or takes it back to save it with others (the        *)
(* coordinator).  Runs follow one another; people review meanwhile.        *)
(*                                                                         *)
(* The providers differ in how a message is read, not in this loop: a      *)
(* model asks for tools (and gets an answer to every use), or is done, or  *)
(* fails.  What a tool returns is left out but for whether it succeeded.   *)
(***************************************************************************)
EXTENDS RevisionApproval

CONSTANTS
    Servers, Tools,
    SpecLists,        \* lists of MCP servers that runs are given
    Offers,           \* each server's tools
    MaxIterations,    \* maxIterations of the provider
    MaxUses,          \* bound: tools a message uses
    MaxOutages        \* bound: batches that cannot be saved

NoServer == "no server"

ASSUME RunConstantsOK ==
    /\ SpecLists \subseteq Seq(Servers)
    /\ Offers \in [Servers -> SUBSET Tools]
    /\ NoServer \notin Servers
    /\ MaxIterations \in Nat /\ MaxUses \in Nat /\ MaxOutages \in Nat

VARIABLES
    run,       \* the invocation
    server,    \* the transport of each server
    made,      \* the proposals that runs have made
    calls,     \* history: the calls the servers got, and whether they succeeded
    outages

runVars == <<run, server, made, calls, outages>>

Call == [tool : Tools, server : Servers, succeeded : BOOLEAN]

Run == [pc : {"idle", "connect", "model", "tools", "persist", "close", "over"},
        list : SpecLists \cup {<< >>},                \* mcpSpecs
        connected : Nat,                              \* ... of which the first are
        persists : BOOLEAN,                           \* persistToDb
        iteration : 0 .. MaxIterations,
        uses : Seq(Tools),                            \* in the model's last message
        next : Nat,                                   \* ... which of them is next
        answered : Seq(Tools),                        \* ... and the results given back
        toolCalls : Seq(Call),                        \* for the provenance
        proposal : Proposals \cup {NoRevision}]

RunTypeOK ==
    /\ run \in Run
    /\ server \in [Servers -> {"off", "up", "stray", "closed"}]
    /\ made \in SUBSET Proposals
    /\ calls \in Seq(Call)
    /\ outages \in 0 .. MaxOutages

Idle == [pc |-> "idle", list |-> << >>, connected |-> 0, persists |-> FALSE,
         iteration |-> 0, uses |-> << >>, next |-> 1, answered |-> << >>, toolCalls |-> << >>,
         proposal |-> NoRevision]

RunInit ==
    /\ run = Idle
    /\ server = [s \in Servers |-> "off"]
    /\ made = {}
    /\ calls = << >>
    /\ outages = 0

Fresh == Proposals \ made
NewId == CHOOSE p \in Fresh : TRUE       \* a uuid

-----------------------------------------------------------------------------
(* invokeAgentViaPlugin.                                                   *)

Goto(pc) == run' = [run EXCEPT !.pc = pc]

\* The plugin and its skill are loaded, its capability is checked; the servers of
\* an earlier run are not this one's.
Start(list, persists) ==
    /\ run.pc = "idle"
    /\ run' = [Idle EXCEPT !.pc = IF list = << >> THEN "model" ELSE "connect",
                           !.list = list, !.persists = persists]
    /\ server' = [s \in Servers |-> "off"]
    /\ calls' = << >>
    /\ UNCHANGED <<made, outages, vars>>

\* They do not load, or the principal may not invoke the agent.
StartFails(persists) ==
    /\ run.pc = "idle"
    /\ run' = [Idle EXCEPT !.pc = "over", !.persists = persists]
    /\ server' = [s \in Servers |-> "off"]
    /\ calls' = << >>
    /\ UNCHANGED <<made, outages, vars>>

StartAny(persists) ==        \* Bound: runs that go on make all of Proposals.
    \/ Fresh # {} /\ \E list \in SpecLists : Start(list, persists)
    \/ StartFails(persists)

Joining == run.list[run.connected + 1]

Closed == [s \in Servers |-> IF server[s] = "up" THEN "closed" ELSE server[s]]

\* connectOne.
Connect ==
    /\ run.pc = "connect"
    /\ run' = [run EXCEPT !.connected = @ + 1,
                          !.pc = IF run.connected + 1 = Len(run.list) THEN "model" ELSE "connect"]
    /\ server' = [server EXCEPT ![Joining] = "up"]
    /\ UNCHANGED <<made, calls, outages, vars>>

\* The catch block closes the servers that are in the set already.  The SDK's client
\* closes a transport whose handshake fails; one whose tools could not be listed
\* stays up, and nobody knows it.
ConnectFails ==
    /\ run.pc = "connect"
    /\ Goto("over")
    /\ \E left \in {"closed", "stray"} : server' = [Closed EXCEPT ![Joining] = left]
    /\ UNCHANGED <<made, calls, outages, vars>>

-----------------------------------------------------------------------------
(* The provider's loop.                                                    *)

\* The model asks for tools, in a turn that is recorded with all its requests.
UseTools(uses) ==
    /\ run.pc = "model" /\ run.iteration < MaxIterations
    /\ run' = [run EXCEPT !.pc = "tools", !.uses = uses, !.next = 1, !.answered = << >>]
    /\ UNCHANGED <<server, made, calls, outages, vars>>

\* toolNameToServer: of servers with a tool of the same name the last has it.
Resolve(t) ==
    LET offering == {i \in DOMAIN run.list : t \in Offers[run.list[i]]} IN
    IF offering = {} THEN NoServer
    ELSE run.list[CHOOSE i \in offering : \A j \in offering : j <= i]

\* The next use, or the next turn after the last.
NextUse(answer, recorded) ==
    LET more == run.next < Len(run.uses) IN
    run' = [run EXCEPT !.next = @ + 1,
                       !.answered = @ \o answer,
                       !.toolCalls = @ \o recorded,
                       !.pc = IF more THEN "tools" ELSE "model",
                       !.iteration = IF more THEN @ ELSE @ + 1]

Use == run.uses[run.next]

\* No server has the tool: the model is told.
UnknownTool ==
    /\ run.pc = "tools" /\ Resolve(Use) = NoServer
    /\ NextUse(<<Use>>, << >>)
    /\ UNCHANGED <<server, made, calls, outages, vars>>

\* openai-compat: arguments that are no JSON.
MalformedArguments ==
    /\ run.pc = "tools" /\ Resolve(Use) # NoServer
    /\ NextUse(<<Use>>, << >>)
    /\ UNCHANGED <<server, made, calls, outages, vars>>

CallTool_OnlySuccesses(succeeded) ==     \* mutant: a failed call is not recorded
    LET call == [tool |-> Use, server |-> Resolve(Use), succeeded |-> succeeded] IN
    /\ run.pc = "tools" /\ Resolve(Use) # NoServer
    /\ calls' = Append(calls, call)
    /\ NextUse(<<Use>>, IF succeeded THEN <<call>> ELSE << >>)
    /\ UNCHANGED <<server, made, outages, vars>>

\* callTool never throws: a call that fails has a result too.
CallTool(succeeded) ==
    LET call == [tool |-> Use, server |-> Resolve(Use), succeeded |-> succeeded] IN
    /\ run.pc = "tools" /\ Resolve(Use) # NoServer
    /\ calls' = Append(calls, call)
    /\ NextUse(<<Use>>, <<call>>)
    /\ UNCHANGED <<server, made, outages, vars>>

\* The model is done, or stops for another reason, or the iterations are used up:
\* what it said last is the proposal, an empty one if there is no JSON in it.
Finish ==
    /\ run.pc = "model"
    /\ run' = [run EXCEPT !.pc = IF run.persists THEN "persist" ELSE "close", !.proposal = NewId]
    /\ made' = made \cup {NewId}
    /\ UNCHANGED <<server, calls, outages, vars>>

\* The provider throws (no answer, no choices), and with it the run.
ModelFails ==
    /\ run.pc = "model" /\ run.iteration < MaxIterations
    /\ Goto("close")
    /\ UNCHANGED <<server, made, calls, outages, vars>>

-----------------------------------------------------------------------------
(* Its end.                                                                *)

\* persistProposal: a batch of one.
Persist ==
    /\ run.pc = "persist"
    /\ Propose({run.proposal})
    /\ Goto("close")
    /\ UNCHANGED <<server, made, calls, outages>>

PersistFails_NotClosed ==    \* mutant: persisted after the try block
    /\ run.pc = "persist" /\ outages < MaxOutages
    /\ run' = [run EXCEPT !.pc = "over", !.proposal = NoRevision]
    /\ outages' = outages + 1
    /\ UNCHANGED <<server, made, calls, vars>>

\* The transaction fails, and invokeAgentViaPlugin throws.
PersistFails ==
    /\ run.pc = "persist" /\ outages < MaxOutages
    /\ run' = [run EXCEPT !.pc = "close", !.proposal = NoRevision]
    /\ outages' = outages + 1
    /\ UNCHANGED <<server, made, calls, vars>>

\* The finally block.  What the run was like is forgotten.
CloseAll ==
    /\ run.pc = "close"
    /\ run' = [Idle EXCEPT !.pc = "over", !.persists = run.persists, !.proposal = run.proposal]
    /\ server' = Closed
    /\ calls' = << >>
    /\ UNCHANGED <<made, outages, vars>>

\* The route that ran the agent itself answers.
Respond ==
    /\ run.pc = "over" /\ run.persists
    /\ run' = Idle
    /\ UNCHANGED <<server, made, calls, outages, vars>>

Messages == UNION {[1 .. n -> Tools] : n \in 1 .. MaxUses}

RunStep ==
    \/ Connect \/ ConnectFails
    \/ \E uses \in Messages : UseTools(uses)
    \/ UnknownTool \/ MalformedArguments \/ \E succeeded \in BOOLEAN : CallTool(succeeded)
    \/ Finish
    \/ ModelFails \/ Persist \/ PersistFails \/ CloseAll \/ Respond

-----------------------------------------------------------------------------
(* Properties.                                                             *)

\* A message's tool uses are answered one for one before the model is asked again
\* (the provider's API refuses a conversation that has not), and the provenance of
\* a proposal names the calls that were made, failed ones too, and no others.
ToolUseIsAccountedFor ==
    /\ run.pc \in {"model", "persist"} => run.answered = run.uses
    /\ run.pc \in {"persist", "close"} => run.toolCalls = calls

\* However a run ends, none of its servers outlives it, except the one whose tools
\* could not be listed: then it proposed nothing.
ServersEndWithTheRun ==
    run.pc \in {"idle", "over"} =>
        /\ \A s \in Servers : server[s] # "up"
        /\ \A s, t \in Servers : server[s] = "stray" /\ server[t] = "stray" => s = t
        /\ \A s \in Servers : server[s] = "stray" => run.proposal = NoRevision
=============================================================================
