------------------------------ MODULE VaultFile ------------------------------
(***************************************************************************)
(* One document of a vault on the desktop: FileSystemDocumentHandle of     *)
(* packages/doc-store with the hooks of packages/vault-host, its two       *)
(* debounced write channels (the Yjs sidecar and the markdown twin), the   *)
(* files under them step by step (open and truncate <path>.tmp, write it,  *)
(* rename it), and the host process, which may be told to stop or die.     *)
(* A body is the set of the pieces of text it has.                         *)
(***************************************************************************)
EXTENDS Naturals, FiniteSets

CONSTANTS
    Edits,             \* the updates doc.applyUpdate brings
    OutsideEdits,      \* what another program adds to the markdown file
    SidecarWriters,    \* bound: the sidecar writes that can be in flight at once
    MarkdownWriters,   \* bound: the markdown writes
    MaxStarts,         \* bound: the starts of the host process
    MaxFaults          \* bound: the file operations that fail

ASSUME ConstantsOK ==
    /\ SidecarWriters \cap MarkdownWriters = {}
    /\ "text" \notin Edits \cup OutsideEdits /\ Edits \cap OutsideEdits = {}
    /\ MaxStarts \in Nat /\ MaxFaults \in Nat

VARIABLES
    host,      \* the process: up, stopping (SIGTERM), down
    starts,    \* its starts so far
    faults,    \* file operations that failed
    doc,       \* the handle: open, the body of its Y.Doc
    made,      \* the updates applied so far, in any life of the process
    timer,     \* the debounce timers that run
    write,     \* the writes in flight
    tmp, file, \* the files <path>.tmp and <path> of each channel
    call,      \* the flushes in progress: of a request, and of the signal
    promised,  \* the text some completed flush, close or stop covered
    overlap    \* history: two writes of the channel were in flight together

vars == <<host, starts, faults, doc, made, timer, write, tmp, file, call, promised, overlap>>

Channels == {"sidecar", "markdown"}
Writers  == SidecarWriters \cup MarkdownWriters
Callers  == {"request", "signal"}
Text     == {"text"} \cup Edits \cup OutsideEdits

Channel(w)   == IF w \in SidecarWriters THEN "sidecar" ELSE "markdown"
WritersOf(c) == IF c = "sidecar" THEN SidecarWriters ELSE MarkdownWriters

Content == [state : {"none", "empty", "whole", "junk"}, body : SUBSET Text]
Handle  == [open : BOOLEAN, body : SUBSET Text]
Write   == [pc : {"idle", "open", "write", "rename", "unlink"}, by : {"timer", "call"},
            content : Content, fd : {"tmp", "file", "gone"}]
Call    == [pc : {"none", "writing", "draining"}, waits : SUBSET Writers,
            body : SUBSET Text, then : {"answer", "destroy", "exit"}]

TypeOK ==
    /\ host \in {"up", "stopping", "down"}
    /\ starts \in 0 .. MaxStarts /\ faults \in 0 .. MaxFaults
    /\ doc \in Handle
    /\ made \subseteq Edits /\ promised \subseteq Text
    /\ timer \in [Channels -> BOOLEAN] /\ overlap \in [Channels -> BOOLEAN]
    /\ write \in [Writers -> Write]
    /\ tmp \in [Channels -> Content] /\ file \in [Channels -> Content]
    /\ call \in [Callers -> Call]

NoFile    == [state |-> "none", body |-> {}]
EmptyFile == [state |-> "empty", body |-> {}]
Closed    == [open |-> FALSE, body |-> {}]
Idle      == [pc |-> "idle", by |-> "timer", content |-> NoFile, fd |-> "gone"]
NoCall    == [pc |-> "none", waits |-> {}, body |-> {}, then |-> "answer"]

\* A markdown file was created in the vault (vault.createFile).
Init ==
    /\ host = "down" /\ starts = 0 /\ faults = 0
    /\ doc = Closed /\ made = {} /\ promised = {}
    /\ timer = [c \in Channels |-> FALSE] /\ overlap = [c \in Channels |-> FALSE]
    /\ write = [w \in Writers |-> Idle]
    /\ tmp = [c \in Channels |-> NoFile]
    /\ file = [c \in Channels |-> IF c = "sidecar" THEN NoFile ELSE
                 [state |-> "whole", body |-> {"text"}]]
    /\ call = [c \in Callers |-> NoCall]

InFlight(c) == {w \in WritersOf(c) : write[w].pc # "idle"}
Flying      == InFlight("sidecar") \cup InFlight("markdown")

\* A call whose writes are all done goes on before anything else of the event loop.
Settling  == \E c \in Callers : call[c].pc # "none" /\ call[c].waits = {}
Listening == host # "down" /\ ~Settling
\* Requests are handled one after the other (server.ts `queue').
Ready     == Listening /\ call["request"].pc = "none"

-----------------------------------------------------------------------------
(* The process.                                                            *)

Start ==
    /\ host = "down" /\ starts < MaxStarts
    /\ host' = "up" /\ starts' = starts + 1
    /\ UNCHANGED <<faults, doc, made, timer, write, tmp, file, call, promised, overlap>>

\* Memory goes with the process; the files stay as they are.
Gone ==
    /\ host' = "down"
    /\ doc' = Closed
    /\ timer' = [c \in Channels |-> FALSE]
    /\ write' = [w \in Writers |-> Idle]
    /\ call' = [c \in Callers |-> NoCall]

Die ==
    /\ host # "down"
    /\ Gone
    /\ UNCHANGED <<starts, faults, made, tmp, file, promised, overlap>>

-----------------------------------------------------------------------------
(* The handle: cold start, updates, flushes.                               *)

Loaded_MarkdownFirst ==   \* mutant: the order of the cold start swapped
    IF file["markdown"].state \in {"whole", "junk"}
    THEN [open |-> TRUE, body |-> file["markdown"].body]
    ELSE [open |-> TRUE, body |-> file["sidecar"].body]

\* Sidecar, else markdown, else empty.
Loaded ==
    IF file["sidecar"].state # "none"
    THEN [open |-> TRUE, body |-> file["sidecar"].body]
    ELSE [open |-> TRUE, body |-> file["markdown"].body]

\* A sidecar without its magic number is refused (SidecarCorruptError); what is
\* loaded is an update like any other and starts the timers.
OpenDocument ==
    /\ Ready /\ ~doc.open
    /\ file["sidecar"].state # "empty"
    /\ doc' = Loaded
    /\ timer' = [c \in Channels |-> Loaded.body # {}]
    /\ UNCHANGED <<host, starts, faults, made, write, tmp, file, call, promised, overlap>>

Debounced_IfNoneInFlight == [c \in Channels |-> InFlight(c) = {}]   \* mutant: a write in flight will do

\* Each update starts both timers anew.
Debounced == [c \in Channels |-> TRUE]

\* doc.applyUpdate.  (Requests that SIGTERM finds in the queue are still handled.)
Apply(e) ==
    /\ Ready /\ doc.open /\ e \notin made
    /\ doc' = [doc EXCEPT !.body = @ \cup {e}]
    /\ made' = made \cup {e}
    /\ timer' = Debounced
    /\ UNCHANGED <<host, starts, faults, write, tmp, file, call, promised, overlap>>

Encoded_FromDisk(c) ==    \* mutant: the markdown is emitted from the sidecar
    [state |-> "whole",
     body |-> IF c = "markdown" THEN file["sidecar"].body ELSE doc.body]

\* flushSidecar and flushMarkdown encode the document when they start.
Encoded(c) == [state |-> "whole", body |-> doc.body]

Begun(c, by) == [pc |-> "open", by |-> by, content |-> Encoded(c), fd |-> "gone"]

TimerFires(c, w) ==
    /\ Listening /\ timer[c]
    /\ w \in WritersOf(c) /\ write[w].pc = "idle"
    /\ timer' = [timer EXCEPT ![c] = FALSE]
    /\ write' = [write EXCEPT ![w] = Begun(c, "timer")]
    /\ overlap' = [overlap EXCEPT ![c] = @ \/ InFlight(c) # {}]
    /\ UNCHANGED <<host, starts, faults, doc, made, tmp, file, call, promised>>

BeginFlush_NotAwaited(p, then, s, m) ==  \* mutant: starts the writes and does not await them
    /\ write[s].pc = "idle" /\ write[m].pc = "idle"
    /\ timer' = [c \in Channels |-> FALSE]
    /\ write' = [w \in Writers |-> CASE w = s -> Begun("sidecar", "call")
                                     [] w = m -> Begun("markdown", "call")
                                     [] OTHER -> write[w]]
    /\ overlap' = [c \in Channels |-> overlap[c] \/ InFlight(c) # {}]
    /\ call' = [call EXCEPT ![p] = [pc |-> "writing", waits |-> {}, body |-> doc.body, then |-> then]]

\* flush(): cancels the timers and writes both channels.
BeginFlush(p, then, s, m) ==
    /\ write[s].pc = "idle" /\ write[m].pc = "idle"
    /\ timer' = [c \in Channels |-> FALSE]
    /\ write' = [w \in Writers |-> CASE w = s -> Begun("sidecar", "call")
                                     [] w = m -> Begun("markdown", "call")
                                     [] OTHER -> write[w]]
    /\ overlap' = [c \in Channels |-> overlap[c] \/ InFlight(c) # {}]
    /\ call' = [call EXCEPT ![p] = [pc |-> "writing", waits |-> {s, m}, body |-> doc.body, then |-> then]]

\* doc.flush, and vault.close, which destroys the handle afterwards.
Flush(then) ==
    /\ Ready /\ doc.open
    /\ \E s \in SidecarWriters, m \in MarkdownWriters : BeginFlush("request", then, s, m)
    /\ UNCHANGED <<host, starts, faults, doc, made, tmp, file, promised>>

\* SIGTERM closes the vaults beside the request that is being handled.
Stop ==
    /\ host = "up" /\ Listening
    /\ \/ /\ doc.open
          /\ \E s \in SidecarWriters, m \in MarkdownWriters : BeginFlush("signal", "exit", s, m)
          /\ host' = "stopping"
          /\ UNCHANGED doc
       \/ ~doc.open /\ Gone /\ UNCHANGED overlap
    /\ UNCHANGED <<starts, faults, made, tmp, file, promised>>

\* Its own writes are done: flush() goes on to await those the timers started.
Drain(p) ==
    /\ call[p].pc = "writing" /\ call[p].waits = {}
    /\ call' = [call EXCEPT ![p] = [@ EXCEPT !.pc = "draining",
                                             !.waits = {w \in Flying : write[w].by = "timer"}]]
    /\ UNCHANGED <<host, starts, faults, doc, made, timer, write, tmp, file, promised, overlap>>

\* flush() resolves: the request is answered, the handle destroyed, the process left.
Return(p) ==
    /\ call[p].pc = "draining" /\ call[p].waits = {}
    /\ promised' = promised \cup call[p].body
    /\ CASE call[p].then = "answer" ->
              /\ call' = [call EXCEPT ![p] = NoCall]
              /\ UNCHANGED <<host, doc, timer, write>>
         [] call[p].then = "destroy" ->
              /\ call' = [call EXCEPT ![p] = NoCall]
              /\ doc' = Closed
              /\ timer' = [c \in Channels |-> FALSE]
              /\ UNCHANGED <<host, write>>
         [] call[p].then = "exit" -> Gone
    /\ UNCHANGED <<starts, faults, made, tmp, file, overlap>>

-----------------------------------------------------------------------------
(* A write: writeFile opens and truncates, then writes; then the rename.   *)

OpenTmp_InPlace(w) ==     \* mutant: writes the file itself
    /\ write[w].pc = "open"
    /\ file' = [file EXCEPT ![Channel(w)] = EmptyFile]
    /\ write' = [write EXCEPT ![w] = [@ EXCEPT !.pc = "write", !.fd = "file"]]
    /\ UNCHANGED <<host, starts, faults, doc, made, timer, tmp, call, promised, overlap>>

OpenTmp(w) ==
    /\ write[w].pc = "open"
    /\ tmp' = [tmp EXCEPT ![Channel(w)] = EmptyFile]
    /\ write' = [write EXCEPT ![w] = [@ EXCEPT !.pc = "write", !.fd = "tmp"]]
    /\ UNCHANGED <<host, starts, faults, doc, made, timer, file, call, promised, overlap>>

\* Bytes over bytes: a Yjs update decodes and ignores what is left behind it; in
\* markdown the tail of a longer text stays.
Over(w, old) ==
    LET new == write[w].content IN
    IF Channel(w) = "sidecar" \/ old.state = "empty" THEN {new}
    ELSE {new, [new EXCEPT !.state = "junk"]}

\* The bytes go where the opened file is by now.
WriteBytes(w) ==
    LET c == Channel(w) IN
    /\ write[w].pc = "write"
    /\ CASE write[w].fd = "tmp" ->
              \E new \in Over(w, tmp[c]) : tmp' = [tmp EXCEPT ![c] = new] /\ UNCHANGED file
         [] write[w].fd = "file" ->
              \E new \in Over(w, file[c]) : file' = [file EXCEPT ![c] = new] /\ UNCHANGED tmp
         [] write[w].fd = "gone" -> UNCHANGED <<tmp, file>>
    /\ write' = [write EXCEPT ![w] = [@ EXCEPT !.pc = "rename"]]
    /\ UNCHANGED <<host, starts, faults, doc, made, timer, call, promised, overlap>>

\* What the descriptors of a channel refer to once <path>.tmp has become `now'.
Moved(c, now) ==
    [w \in Writers |->
        CASE w \in WritersOf(c) /\ write[w].fd = "tmp"  -> [write[w] EXCEPT !.fd = now]
          [] w \in WritersOf(c) /\ write[w].fd = "file" /\ now = "file" -> [write[w] EXCEPT !.fd = "gone"]
          [] OTHER -> write[w]]

Ended(writes, w) == [writes EXCEPT ![w] = Idle]
NotAwaited(w)    == [p \in Callers |-> [call[p] EXCEPT !.waits = @ \ {w}]]

Rename(w) ==
    LET c == Channel(w) IN
    /\ write[w].pc = "rename" /\ tmp[c].state # "none"
    /\ file' = [file EXCEPT ![c] = tmp[c]]
    /\ tmp' = [tmp EXCEPT ![c] = NoFile]
    /\ write' = Ended(Moved(c, "file"), w)
    /\ call' = NotAwaited(w)
    /\ UNCHANGED <<host, starts, faults, doc, made, timer, promised, overlap>>

\* A write rejects.  One the timer started: nobody catches it and Node exits.  One
\* of a call: the first rejection ends the call, whose other write goes on alone.
Rejected(w, writes) ==
    IF write[w].by = "timer" \/ w \in call["signal"].waits
    THEN Gone
    ELSE /\ write' = Ended(writes, w)
         /\ call' = [p \in Callers |-> IF w \in call[p].waits THEN NoCall ELSE call[p]]
         /\ UNCHANGED <<host, doc, timer>>

\* writeSidecar removes <path>.tmp first, the markdown write does not.
Thrown(w) ==
    IF Channel(w) = "sidecar"
    THEN /\ write' = [write EXCEPT ![w] = [@ EXCEPT !.pc = "unlink"]]
         /\ UNCHANGED <<host, doc, timer, call>>
    ELSE Rejected(w, write)

\* Another write's rename took the file.
RenameMissing(w) ==
    /\ write[w].pc = "rename" /\ tmp[Channel(w)].state = "none"
    /\ Thrown(w)
    /\ UNCHANGED <<starts, faults, made, tmp, file, promised, overlap>>

Fail(w) ==
    /\ write[w].pc \in {"open", "write", "rename"} /\ faults < MaxFaults
    /\ Thrown(w)
    /\ faults' = faults + 1
    /\ UNCHANGED <<starts, made, tmp, file, promised, overlap>>

Unlink(w) ==
    LET c == Channel(w) IN
    /\ write[w].pc = "unlink"
    /\ tmp' = [tmp EXCEPT ![c] = NoFile]
    /\ Rejected(w, Moved(c, "gone"))
    /\ UNCHANGED <<starts, faults, made, file, promised, overlap>>

Step(w) == OpenTmp(w) \/ WriteBytes(w) \/ Rename(w) \/ RenameMissing(w) \/ Unlink(w)

-----------------------------------------------------------------------------
\* Another program saves the markdown file with a text of its own added.
OutsideEdit(x) ==
    /\ file["markdown"].state = "whole" /\ x \notin file["markdown"].body
    /\ file' = [file EXCEPT !["markdown"].body = @ \cup {x}]
    /\ UNCHANGED <<host, starts, faults, doc, made, timer, write, tmp, call, promised, overlap>>

Next ==
    \/ Start \/ Die \/ OpenDocument \/ Stop
    \/ \E e \in Edits : Apply(e)
    \/ \E x \in OutsideEdits : OutsideEdit(x)
    \/ \E then \in {"answer", "destroy"} : Flush(then)
    \/ \E p \in Callers : Drain(p) \/ Return(p)
    \/ \E c \in Channels, w \in Writers : TimerFires(c, w)
    \/ \E w \in Writers : Step(w) \/ Fail(w)

Spec == Init /\ [][Next]_vars

-----------------------------------------------------------------------------
(* Properties.                                                             *)

\* A file is found truncated, or with the tail of another text, only if two writes of
\* its channel were in flight together: the fixed name <path>.tmp is all they share.
DamageOnlyByOverlap ==
    \A c \in Channels : file[c].state \in {"empty", "junk"} => overlap[c]

\* What a completed flush, close or stop covered stays in both files, through later
\* writes, failed ones, deaths of the process and cold starts.
PromisedStays ==
    (\A c \in Channels : ~overlap[c]) => \A c \in Channels : promised \subseteq file[c].body

\* When nothing is left to fire or to finish, both files hold the whole document.
QuietDiskIsCurrent ==
    doc.open /\ Flying = {} /\ (\A c \in Channels : ~timer[c] /\ ~overlap[c])
    /\ (\A p \in Callers : call[p].pc = "none") /\ faults = 0
    => \A c \in Channels : doc.body \subseteq file[c].body

\* The markdown twin is written without a look at it: it loses text another program
\* wrote, if the document never loaded it, but never a text of the document.
OnlyUnseenTextIsOverwritten ==
    [][~overlap'["markdown"] => file["markdown"].body \ file'["markdown"].body
                                   \subseteq Text \ doc.body]_vars

\* As long as its writes do not overlap, the sidecar is the saved copy of DurableDoc.
Durable == INSTANCE DurableDoc WITH
    open <- doc.open, body <- doc.body,
    saved <- IF file["sidecar"].state = "none" THEN {} ELSE {file["sidecar"].body}

SidecarIsDurable ==
    Durable!Init /\ [][overlap'["sidecar"] \/ Durable!Next]_(Durable!vars)
=============================================================================
