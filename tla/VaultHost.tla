------------------------------ MODULE VaultHost ------------------------------
(***************************************************************************)
(* A document edited on the desktop, from the webview's editor to the      *)
(* vault host: vault-client.tsx (the pump of updates, leaving a document), *)
(* the Tauri commands of vault_host.rs (ids, pending answers, timeouts,    *)
(* start and stop of the child process) and the JSON-RPC server of         *)
(* packages/vault-host, which handles one line after the other.  What the  *)
(* handle and its files do is DurableDoc, which VaultFile implements.      *)
(***************************************************************************)
EXTENDS Naturals, Sequences

CONSTANTS
    MaxEdits,      \* bound: the updates the editor makes
    MaxLives,     \* bound: the host processes that are started
    MaxViews,      \* bound: the times the document is opened
    MaxErrors      \* bound: timeouts and flushes that fail

ASSUME ShellConstants == {MaxEdits, MaxLives, MaxViews, MaxErrors} \subseteq Nat

VARIABLES
    slot,          \* VaultHostState: the process the shell talks to, or None
    life, alive,   \* the processes spawned so far; the last one runs
    killer,        \* vault_host_stop sleeps before it looks whether to kill
    nextId,        \* of the process in the slot
    pending,       \* the answers awaited, in the pending map of each process
    stdin, stdout, \* the pipes
    busy,          \* the request a handler awaits for
    docOpen, body, disk,   \* the document at the host
    view,          \* the page: what it awaits, its first edit, the edits Back awaits
    views,         \* the times it was opened
    typed,         \* the updates the editor made
    pump,          \* those whose call has not returned
    command,       \* the command of the pump and of the page
    failed,        \* the updates whose call returned an error: safeInvoke drops it
    told,          \* the updates reported applied
    kept,          \* those a completed Back covered
    deaths, errors \* processes that died or were killed; timeouts and failed flushes

rust  == <<slot, life, alive, killer, nextId, pending>>
pipes == <<stdin, stdout, busy>>
hostv == <<docOpen, body, disk>>
page  == <<view, views, typed, pump, failed, told, kept>>
shell == <<rust, pipes, hostv, page, command, deaths, errors>>

None  == 0
Lives == 1 .. MaxLives
Updates == 1 .. MaxEdits
Roles == {"pump", "view"}

Document == INSTANCE DurableDoc WITH Text <- Updates, open <- docOpen, saved <- disk

NoCommand  == [pc |-> "none", life |-> None, id |-> 0, method |-> "none", arg |-> 0, got |-> <<>>]
NoBusy  == [id |-> 0, method |-> "none", arg |-> 0]

\* The document was saved, empty, by an earlier session.
ShellInit ==
    /\ slot = None /\ life = None /\ alive = FALSE /\ killer = FALSE
    /\ nextId = 1 /\ pending = {}
    /\ stdin = <<>> /\ stdout = [l \in Lives |-> <<>>] /\ busy = NoBusy
    /\ docOpen = FALSE /\ body = {} /\ disk = {{}}
    /\ view = [pc |-> "list", since |-> 1, upto |-> 0] /\ views = 0
    /\ typed = 0 /\ pump = <<>>
    /\ command = [r \in Roles |-> NoCommand]
    /\ failed = {} /\ told = {} /\ kept = {}
    /\ deaths = 0 /\ errors = 0

-----------------------------------------------------------------------------
(* The shell: vault_host.rs.                                               *)

Running == slot # None /\ slot = life /\ alive

\* vault_host_start; a dead process in the slot is dropped (proc_status).
StartHost ==
    /\ ~Running /\ ~alive /\ ~killer /\ life < MaxLives
    /\ life' = life + 1 /\ slot' = life + 1 /\ alive' = TRUE
    /\ nextId' = 1 /\ stdin' = <<>>
    /\ UNCHANGED <<killer, pending, stdout, busy, hostv, page, command, deaths, errors>>

\* vault_host_rpc up to recv_timeout: the sender is in the map before the line is written.
Rpc(r, method, arg) ==
    /\ command[r].pc = "none"
    /\ IF Running
       THEN /\ command' = [command EXCEPT ![r] = [pc |-> "waiting", life |-> life, id |-> nextId,
                                            method |-> method, arg |-> arg, got |-> <<>>]]
            /\ pending' = pending \cup {[life |-> life, id |-> nextId, by |-> r]}
            /\ stdin' = Append(stdin, [id |-> nextId, method |-> method, arg |-> arg])
            /\ nextId' = nextId + 1
       ELSE /\ command' = [command EXCEPT ![r] = [pc |-> "error", life |-> None, id |-> 0,
                                            method |-> method, arg |-> arg, got |-> <<>>]]
            /\ UNCHANGED <<pending, stdin, nextId>>
    /\ UNCHANGED <<slot, life, alive, killer, stdout, busy, hostv, deaths, errors>>

Awaiting_AnyProcess(l, id) ==      \* mutant: one pending map for all processes
    {p \in pending : p.id = id}

\* The reader thread of process l looks in the map of that process.
Awaiting(l, id) == {p \in pending : p.life = l /\ p.id = id}

\* An answer nobody waits for any more is dropped.
Deliver(l) ==
    /\ stdout[l] # <<>>
    /\ LET answer == Head(stdout[l])
           waiters == Awaiting(l, answer.id) IN
       /\ pending' = pending \ waiters
       /\ command' = [r \in Roles |->
             IF \E p \in waiters : p.by = r
             THEN [command[r] EXCEPT !.pc = IF answer.ok THEN "ok" ELSE "error",
                                  !.got = <<l, answer.method, answer.arg>>]
             ELSE command[r]]
    /\ stdout' = [stdout EXCEPT ![l] = Tail(@)]
    /\ UNCHANGED <<slot, life, alive, killer, nextId, stdin, busy, hostv, page, deaths, errors>>

TimeOut(r) ==
    /\ command[r].pc = "waiting"
    /\ errors < MaxErrors \/ ~alive \/ command[r].life # life
    /\ errors' = IF errors < MaxErrors THEN errors + 1 ELSE errors
    /\ pending' = {p \in pending : p.by # r}
    /\ command' = [command EXCEPT ![r].pc = "error"]
    /\ UNCHANGED <<slot, life, alive, killer, nextId, pipes, hostv, page, deaths>>

\* vault_host_stop takes the process out of the slot and writes host.shutdown.
StopHost ==
    /\ slot # None /\ ~killer
    /\ slot' = None
    /\ IF Running
       THEN /\ stdin' = Append(stdin, [id |-> 0, method |-> "host.shutdown", arg |-> 0])
            /\ killer' = TRUE
       ELSE UNCHANGED <<stdin, killer>>
    /\ UNCHANGED <<life, alive, nextId, pending, stdout, busy, hostv, page, command, deaths, errors>>

\* Memory and unread lines go with the process; what it wrote is still read.
ProcessGone ==
    /\ alive /\ alive' = FALSE
    /\ docOpen' = FALSE /\ body' = {}
    /\ stdin' = <<>> /\ busy' = NoBusy

HostDies ==
    /\ ProcessGone
    /\ deaths' = deaths + 1
    /\ UNCHANGED <<slot, life, killer, nextId, pending, stdout, disk, page, command, errors>>

\* 300 ms later: the process is gone, or is killed whatever it does.
AfterSleep ==
    /\ killer /\ killer' = FALSE
    /\ IF alive
       THEN ProcessGone /\ deaths' = deaths + 1
       ELSE UNCHANGED <<alive, docOpen, body, stdin, busy, deaths>>
    /\ UNCHANGED <<slot, life, nextId, pending, stdout, disk, page, command, errors>>

-----------------------------------------------------------------------------
(* The host: server.ts.                                                    *)

Answer(req, ok) ==
    stdout' = [stdout EXCEPT ![life] =
        Append(@, [id |-> req.id, ok |-> ok, method |-> req.method, arg |-> req.arg])]

\* The next line, when the handler of the last one is done.
Line(method) == alive /\ busy = NoBusy /\ stdin # <<>> /\ Head(stdin).method = method

HandleOpen ==
    /\ Line("doc.open")
    /\ IF docOpen THEN UNCHANGED hostv ELSE Document!Open
    /\ Answer(Head(stdin), TRUE)
    /\ stdin' = Tail(stdin)
    /\ UNCHANGED <<rust, busy, page, command, deaths, errors>>

\* doc-not-open is an answer like any other.
HandleApply ==
    /\ Line("doc.applyUpdate")
    /\ body' = IF docOpen THEN body \cup {Head(stdin).arg} ELSE body
    /\ Answer(Head(stdin), docOpen)
    /\ stdin' = Tail(stdin)
    /\ UNCHANGED <<rust, busy, docOpen, disk, page, command, deaths, errors>>

\* doc.flush of a document that is open awaits its files; host.shutdown is answered first.
HandleFlush ==
    /\ Line("doc.flush")
    /\ IF docOpen THEN busy' = Head(stdin) /\ UNCHANGED stdout
                  ELSE Answer(Head(stdin), FALSE) /\ UNCHANGED busy
    /\ stdin' = Tail(stdin)
    /\ UNCHANGED <<rust, hostv, page, command, deaths, errors>>

HandleShutdown ==
    /\ Line("host.shutdown")
    /\ busy' = Head(stdin)
    /\ Answer(Head(stdin), TRUE)
    /\ stdin' = Tail(stdin)
    /\ UNCHANGED <<rust, hostv, page, command, deaths, errors>>

Flushed(ok) ==
    /\ busy.method = "doc.flush"
    /\ IF ok THEN disk' = {body} /\ UNCHANGED errors
             ELSE errors < MaxErrors /\ errors' = errors + 1 /\ UNCHANGED disk
    /\ Answer(busy, ok)
    /\ busy' = NoBusy
    /\ UNCHANGED <<rust, stdin, docOpen, body, page, command, deaths>>

\* server.close(), then process.exit.
ShutDown ==
    /\ busy.method = "host.shutdown"
    /\ disk' = IF docOpen THEN {body} ELSE disk
    /\ ProcessGone
    /\ UNCHANGED <<slot, life, killer, nextId, pending, stdout, page, command, deaths, errors>>

\* The debounced writes of the handle.
TimerSave ==
    /\ Document!Save /\ disk' # disk
    /\ UNCHANGED <<rust, pipes, page, command, deaths, errors>>

Host == HandleOpen \/ HandleApply \/ HandleFlush \/ HandleShutdown
            \/ (\E ok \in BOOLEAN : Flushed(ok)) \/ ShutDown

-----------------------------------------------------------------------------
(* The page: vault-client.tsx.                                             *)

ShowDocument ==
    /\ view.pc = "list" /\ views < MaxViews
    /\ Rpc("view", "doc.open", 0)
    /\ view' = [view EXCEPT !.pc = "opening"]
    /\ views' = views + 1
    /\ UNCHANGED <<typed, pump, failed, told, kept>>

\* A failed opening leaves the list; an opened document starts a new Y.Doc from it.
Opened ==
    /\ view.pc = "opening" /\ command["view"].pc \in {"ok", "error"}
    /\ view' = IF command["view"].pc = "ok"
               THEN [pc |-> "open", since |-> typed + 1, upto |-> 0]
               ELSE [view EXCEPT !.pc = "list"]
    /\ command' = [command EXCEPT !["view"] = NoCommand]
    /\ UNCHANGED <<rust, pipes, hostv, views, typed, pump, failed, told, kept, deaths, errors>>

\* handleLocalUpdate chains the call; the editor stays mounted while Back waits.
Type ==
    /\ view.pc \in {"open", "draining", "flushing"} /\ typed < MaxEdits
    /\ typed' = typed + 1
    /\ pump' = Append(pump, typed + 1)
    /\ UNCHANGED <<rust, pipes, hostv, view, views, failed, told, kept, command, deaths, errors>>

PumpNext_Unchained ==          \* mutant: each update calls at once, in whatever order
    \E i \in 1 .. Len(pump) :
        /\ Rpc("pump", "doc.applyUpdate", pump[i])
        /\ pump' = <<pump[i]>> \o SelectSeq(pump, LAMBDA e : e # pump[i])
        /\ UNCHANGED <<view, views, typed, failed, told, kept>>

PumpNext ==
    /\ pump # <<>>
    /\ Rpc("pump", "doc.applyUpdate", Head(pump))
    /\ UNCHANGED page

PumpReturned ==
    /\ command["pump"].pc \in {"ok", "error"}
    /\ IF command["pump"].pc = "ok"
       THEN told' = told \cup {command["pump"].arg} /\ UNCHANGED failed
       ELSE failed' = failed \cup {command["pump"].arg} /\ UNCHANGED told
    /\ pump' = Tail(pump)
    /\ command' = [command EXCEPT !["pump"] = NoCommand]
    /\ UNCHANGED <<rust, pipes, hostv, view, views, typed, kept, deaths, errors>>

\* handleCloseDocument awaits the pump as it is now ...
Back ==
    /\ view.pc = "open"
    /\ view' = [view EXCEPT !.pc = "draining", !.upto = typed]
    /\ UNCHANGED <<rust, pipes, hostv, views, typed, pump, failed, told, kept, command, deaths, errors>>

BackFlushes_Early ==       \* mutant: does not await the pump
    /\ view.pc = "draining"
    /\ Rpc("view", "doc.flush", 0)
    /\ view' = [view EXCEPT !.pc = "flushing"]
    /\ UNCHANGED <<views, typed, pump, failed, told, kept>>

\* ... then flushes ...
BackFlushes ==
    /\ view.pc = "draining" /\ \A i \in 1 .. Len(pump) : pump[i] > view.upto
    /\ Rpc("view", "doc.flush", 0)
    /\ view' = [view EXCEPT !.pc = "flushing"]
    /\ UNCHANGED <<views, typed, pump, failed, told, kept>>

\* ... and shows the list, whatever the flush returned.
BackReturns ==
    /\ view.pc = "flushing" /\ command["view"].pc \in {"ok", "error"}
    /\ view' = [view EXCEPT !.pc = "list"]
    /\ kept' = IF command["view"].pc = "ok" THEN kept \cup ((view.since .. view.upto) \ failed) ELSE kept
    /\ command' = [command EXCEPT !["view"] = NoCommand]
    /\ UNCHANGED <<rust, pipes, hostv, views, typed, pump, failed, told, deaths, errors>>

Page == Opened \/ PumpNext \/ PumpReturned \/ BackFlushes \/ BackReturns

ShellNext ==
    \/ Page \/ ShowDocument \/ Type \/ Back
    \/ Host \/ TimerSave
    \/ StartHost \/ StopHost \/ AfterSleep \/ HostDies
    \/ \E l \in Lives : Deliver(l)
    \/ \E r \in Roles : TimeOut(r)

ShellSpec == ShellInit /\ [][ShellNext]_shell

-----------------------------------------------------------------------------
(* Properties.                                                             *)

\* A command returns the answer to its own request, also when another process has given
\* the same id since, and late answers are about.
AnswersMatch ==
    \A r \in Roles : command[r].got # <<>> =>
        command[r].got = <<command[r].life, command[r].method, command[r].arg>>

\* The host has the edits of the open document without a gap, except those whose call
\* failed: Yjs would defer all edits after a gap and the markdown would not show them.
GapsOnlyWhereACallFailed ==
    view.pc = "open" /\ docOpen =>
        \A e \in body, d \in Updates : view.since <= d /\ d < e => d \in body \cup failed

\* When Back has flushed, the edits made before it are saved and stay so, except those
\* whose call failed; an edit that was reported applied is lost only if a process dies
\* or is killed.
BackSaves ==
    \A copy \in disk :
        /\ kept \subseteq copy
        /\ deaths = 0 => told \subseteq body \cup copy
=============================================================================
