------------------------------ MODULE VaultFileProofs ------------------------------
(***************************************************************************)
(* What holds of a vault's document and its two files, for any updates,    *)
(* any number of writes in flight, of starts and of failed operations.     *)
(*                                                                         *)
(* The writes of a channel share <path>.tmp and nothing orders them, so    *)
(* all there is to say of a file is said while they do not overlap: then   *)
(* <path>.tmp holds what the one write in flight put there (Alone), and    *)
(* what it puts there the document has, or had when it was closed          *)
(* (Saving, Kept, Fresh).  What a markdown write may drop from the file is *)
(* found by who wrote a text: an update is applied once (Made), and of the *)
(* texts of other programs a process knows those it loaded first, however  *)
(* its writes overlap (OneView); so what document and file both have, the  *)
(* write has too (Twin).                                                   *)
(***************************************************************************)
EXTENDS VaultFile, VaultHost, TLAPS, SequenceTheorems

\* The calls wait for writes in flight; timers run for an open document only; while
\* a request flushes, the document is as the request found it.
Flow ==
    /\ \A p \in Callers : call[p].waits \subseteq Flying
    /\ \A c \in Channels : timer[c] => doc.open
    /\ ~doc.open => doc.body = {}
    /\ \A w \in Writers : write[w].pc = "idle" => write[w] = Idle
    /\ call["request"].pc # "none" =>
          /\ doc.open /\ call["request"].body = doc.body
          /\ \A c \in Channels : ~timer[c]
    /\ call["signal"].pc # "none" => call["signal"].then = "exit"

\* The one write of a channel finds in <path>.tmp what it put there.
Alone(c) ==
    /\ \A w, v \in InFlight(c) : w = v
    /\ \A w \in InFlight(c) :
          /\ write[w].content.state = "whole"
          /\ write[w].pc = "write" => write[w].fd = "tmp" /\ tmp[c] = EmptyFile
          /\ write[w].pc = "rename" => tmp[c] = write[w].content
          /\ write[w].pc = "unlink" => faults > 0
    /\ file[c] = NoFile \/ file[c].state = "whole"

\* The sidecar's writes lie between the file and the document.
Saving ==
    /\ doc.open => file["sidecar"].body \subseteq doc.body
    /\ \A w \in InFlight("sidecar") :
          /\ file["sidecar"].body \subseteq write[w].content.body
          /\ doc.open => write[w].content.body \subseteq doc.body
          /\ ~doc.open => file["sidecar"] = write[w].content
    /\ call["request"].pc # "none" =>
          /\ \A w \in InFlight("sidecar") : write[w].content.body = doc.body
          /\ \/ file["sidecar"] = [state |-> "whole", body |-> doc.body]
             \/ \E w \in InFlight("sidecar") : w \in call["request"].waits

Covered(c, b) == b \subseteq file[c].body /\ \A w \in InFlight(c) : b \subseteq write[w].content.body

\* What a call has of the document, its own writes bring or have brought.
Flushing(p) ==
    /\ doc.open /\ call[p].body \subseteq doc.body
    /\ \A q \in Callers : call[q].pc # "none" => q = p
    /\ \A c \in Channels :
          \/ Covered(c, call[p].body)
          \/ \E w \in InFlight(c) :
                w \in call[p].waits /\ call[p].body \subseteq write[w].content.body

Kept ==
    /\ \A c \in Channels : Covered(c, promised)
    /\ doc.open => promised \subseteq doc.body
    /\ \A p \in Callers : call[p].pc # "none" => Flushing(p)

\* What the document has is about to be written, being written, or there.
Fresh(c) ==
    doc.open => \/ timer[c]
                \/ InFlight(c) = {} /\ doc.body \subseteq file[c].body
                \/ /\ InFlight(c) # {}
                   /\ \A w \in InFlight(c) : doc.body \subseteq write[w].content.body

AllAlone == \A c \in Channels : ~overlap[c]

\* An update that is in some body has been made.
Made ==
    /\ doc.body \cap Edits \subseteq made
    /\ \A c \in Channels : file[c].body \cap Edits \subseteq made /\ tmp[c].body \cap Edits \subseteq made
    /\ \A w \in Writers : write[w].content.body \cap Edits \subseteq made

\* Writes are of whole bodies; a document that was closed by a flush has a sidecar.
Stored ==
    /\ \A w \in Flying : write[w].content.state = "whole"
    /\ ~doc.open /\ file["sidecar"].state = "none" => Flying = {}
    /\ call["request"].pc # "none" =>
          \/ file["sidecar"].state # "none"
          \/ \E w \in InFlight("sidecar") : w \in call["request"].waits

\* Of the texts of other programs, the document, its writes and the sidecar have the
\* same, O, as long as the process lives: those it loaded first.
Sees(f, O) == f.state \in {"none", "empty"} \/ f.body \cap OutsideEdits = O

Seen(O) ==
    /\ Sees(file["sidecar"], O)
    /\ doc.open => doc.body \cap OutsideEdits = O
    /\ \A w \in Flying : write[w].content.body \cap OutsideEdits = O
    /\ (\E w \in InFlight("sidecar") : write[w].pc \in {"write", "rename"}) => Sees(tmp["sidecar"], O)

OneView == \E O \in SUBSET OutsideEdits : Seen(O)

\* A markdown write has what both the document and the file have.
Twin ==
    /\ doc.open => \A w \in InFlight("markdown") :
                      file["markdown"].body \cap doc.body \subseteq write[w].content.body
    /\ ~doc.open => \A w \in InFlight("markdown") :
                      file["markdown"].body \subseteq write[w].content.body \cup OutsideEdits
    /\ call["request"].pc # "none" =>
          /\ \A w \in InFlight("markdown") : write[w].content.body = doc.body
          /\ \/ file["markdown"].body \subseteq doc.body \cup OutsideEdits
             \/ \E w \in InFlight("markdown") : w \in call["request"].waits

Inv == /\ TypeOK /\ Flow /\ Made /\ Stored /\ OneView
       /\ \A c \in Channels : ~overlap[c] => Alone(c)
       /\ ~overlap["sidecar"] => Saving
       /\ ~overlap["markdown"] => Twin
       /\ AllAlone => Kept
       /\ \A c \in Channels : ~overlap[c] /\ faults = 0 => Fresh(c)

-----------------------------------------------------------------------------
(* Channels and their writers.                                             *)

\* A writer belongs to one channel.
LEMMA ChannelOf ==
    /\ \A w \in Writers : Channel(w) \in Channels
    /\ \A c \in Channels : \A w : w \in WritersOf(c) <=> w \in Writers /\ Channel(w) = c
BY ConstantsOK DEF Writers, Channel, Channels, WritersOf

\* The writes in flight, now and after a step.
LEMMA InFlights ==
    /\ \A c \in Channels : \A w :
          w \in InFlight(c) <=> w \in Writers /\ Channel(w) = c /\ write[w].pc # "idle"
    /\ \A c \in Channels : \A w :
          w \in InFlight(c)' <=> w \in Writers /\ Channel(w) = c /\ write'[w].pc # "idle"
    /\ \A w : w \in Flying <=> w \in Writers /\ write[w].pc # "idle"
    /\ \A w : w \in Flying' <=> w \in Writers /\ write'[w].pc # "idle"
<1>1. \A c \in Channels : \A w :
          w \in InFlight(c) <=> w \in Writers /\ Channel(w) = c /\ write[w].pc # "idle"
  BY ChannelOf DEF InFlight
<1>2. \A c \in Channels : \A w :
          w \in InFlight(c)' <=> w \in Writers /\ Channel(w) = c /\ write'[w].pc # "idle"
  BY ChannelOf DEF InFlight
<1>3. \A w \in Writers : Channel(w) = "sidecar" \/ Channel(w) = "markdown"
  BY DEF Channel
<1>4. "sidecar" \in Channels /\ "markdown" \in Channels
  BY DEF Channels
<1>5. \A w : w \in Flying <=> w \in Writers /\ write[w].pc # "idle"
  BY <1>1, <1>3, <1>4 DEF Flying
<1>6. \A w : w \in Flying' <=> w \in Writers /\ write'[w].pc # "idle"
  BY <1>2, <1>3, <1>4 DEF Flying
<1>. QED BY <1>1, <1>2, <1>5, <1>6

-----------------------------------------------------------------------------
(* The process ends.                                                       *)

\* With the process go the document, the timers, the writes and the calls; the
\* files stay.
LEMMA GoneKeeps ==
    ASSUME Inv, Gone, file' = file, overlap' = overlap, made' = made,
           starts' = starts, faults' \in 0 .. MaxFaults,
           tmp' \in [Channels -> Content], promised' \subseteq Text,
           \A c \in Channels : tmp'[c] = tmp[c] \/ tmp'[c] = NoFile,
           AllAlone => \A c \in Channels : promised' \subseteq file[c].body
    PROVE  Inv'
<1>1. /\ host' = "down" /\ doc' = Closed
      /\ \A c \in Channels : ~timer'[c]
      /\ \A w \in Writers : write'[w] = Idle
      /\ \A p \in Callers : call'[p] = NoCall
  BY DEF Gone
<1>2. TypeOK'
  BY <1>1 DEF Inv, TypeOK, Gone, Closed, Idle, NoCall, Handle, Write, Call, NoFile, Content
<1>3. \A c \in Channels : InFlight(c)' = {}
  BY <1>1, InFlights DEF Idle
<1>4. Flow'
  BY <1>1 DEF Flow, Closed, NoCall, Callers
<1>5. \A c \in Channels : ~overlap'[c] => Alone(c)'
  BY <1>3 DEF Inv, Alone
<1>6. Saving'
  BY <1>1, <1>3 DEF Saving, Closed, NoCall, Channels, Callers
<1>7. AllAlone' => Kept'
  BY <1>1, <1>3 DEF AllAlone, Kept, Covered, Closed, NoCall
<1>8. \A c \in Channels : Fresh(c)'
  BY <1>1 DEF Fresh, Closed
<1>9. Flying' = {} /\ ~doc'.open /\ call'["request"].pc = "none"
  BY <1>1, InFlights DEF Idle, Closed, NoCall, Callers
<1>10. Made'
  <2>1. \A c \in Channels : tmp'[c].body \cap Edits \subseteq made
    BY DEF Inv, Made, NoFile
  <2>. QED BY <1>1, <2>1 DEF Inv, Made, Closed, Idle, NoFile
<1>11. Stored' /\ Twin'
  BY <1>3, <1>9 DEF Stored, Twin, Channels
<1>12. OneView'
  <2>. DEFINE O == file["sidecar"].body \cap OutsideEdits
  <2>1. Seen(O)'
    BY <1>3, <1>9 DEF Seen, Sees, Channels
  <2>. QED BY <2>1 DEF OneView
<1>. QED BY <1>2, <1>4, <1>5, <1>6, <1>7, <1>8, <1>10, <1>11, <1>12 DEF Inv

-----------------------------------------------------------------------------
(* A write goes on.                                                        *)

\* A write that goes on keeps its content; its channel's <path>.tmp is its own.
LEMMA AdvanceKeeps ==
    ASSUME Inv, NEW w \in Writers, write[w].pc # "idle",
           NEW new \in Write, new.pc # "idle", new.content = write[w].content,
           write' = [write EXCEPT ![w] = new],
           host' = host, starts' = starts, doc' = doc, made' = made, timer' = timer, call' = call,
           promised' = promised, overlap' = overlap,
           faults' \in 0 .. MaxFaults, faults' >= faults,
           tmp' \in [Channels -> Content], file' \in [Channels -> Content],
           \A d \in Channels : d # Channel(w) => tmp'[d] = tmp[d] /\ file'[d] = file[d],
           \A d \in Channels : ~overlap[d] => file'[d] = file[d],
           \/ file'[Channel(w)] = file[Channel(w)]
           \/ /\ file'[Channel(w)].state # "none"
              /\ file'[Channel(w)].body = write[w].content.body,
           \/ /\ tmp'[Channel(w)] = tmp[Channel(w)]
              /\ new.pc \in {"write", "rename"} => write[w].pc = "write"
           \/ tmp'[Channel(w)] = EmptyFile
           \/ tmp'[Channel(w)].body = write[w].content.body,
           ~overlap[Channel(w)] =>
             /\ new.pc = "write" => new.fd = "tmp" /\ tmp'[Channel(w)] = EmptyFile
             /\ new.pc = "rename" => tmp'[Channel(w)] = new.content
             /\ new.pc = "unlink" => faults' > 0
    PROVE  Inv'
<1>0. write \in [Writers -> Write] /\ faults \in 0 .. MaxFaults /\ MaxFaults \in Nat
  BY ConstantsOK DEF Inv, TypeOK
<1>1. write'[w] = new /\ \A v \in Writers : v # w => write'[v] = write[v]
  BY <1>0
<1>2. TypeOK'
  BY DEF Inv, TypeOK
<1>3. \A v \in Writers : /\ write'[v].content = write[v].content
                         /\ write'[v].pc = "idle" <=> write[v].pc = "idle"
  BY <1>1
<1>4. /\ \A c \in Channels : InFlight(c)' = InFlight(c)
      /\ Flying' = Flying
  <2>1. \A c \in Channels : \A v : v \in InFlight(c)' <=> v \in InFlight(c)
    BY <1>3, InFlights
  <2>2. \A v : v \in Flying' <=> v \in Flying
    BY <1>3, InFlights
  <2>3. \A c \in Channels : InFlight(c)' \subseteq Writers /\ InFlight(c) \subseteq Writers
    BY InFlights
  <2>. QED BY <2>1, <2>2
<1>5. \A c \in Channels : \A v \in InFlight(c) : v \in Writers /\ Channel(v) = c
  BY InFlights
<1>6. Flow'
  BY <1>1, <1>3, <1>4 DEF Inv, Flow
<1>7. ASSUME NEW c \in Channels, ~overlap[c] PROVE Alone(c)'
  <2>1. Alone(c) /\ file'[c] = file[c]
    BY <1>7 DEF Inv
  <2>2. ASSUME NEW v \in InFlight(c)
        PROVE  /\ write'[v].content.state = "whole"
               /\ write'[v].pc = "write" => write'[v].fd = "tmp" /\ tmp'[c] = EmptyFile
               /\ write'[v].pc = "rename" => tmp'[c] = write'[v].content
               /\ write'[v].pc = "unlink" => faults' > 0
    <3>0. v \in Writers /\ Channel(v) = c
      BY <1>5
    <3>1. CASE v = w
      BY <1>1, <1>7, <2>1, <3>0, <3>1 DEF Alone
    <3>2. CASE v # w
      <4>1. Channel(w) # c
        <5>1. Channel(w) = c => w \in InFlight(c)
          BY InFlights
        <5>. QED BY <2>1, <3>2, <5>1 DEF Alone
      <4>2. tmp'[c] = tmp[c] /\ write'[v] = write[v]
        BY <1>1, <3>0, <3>2, <4>1
      <4>. QED BY <1>0, <2>1, <4>2 DEF Alone
    <3>. QED BY <3>1, <3>2
  <2>. QED BY <1>4, <2>1, <2>2 DEF Alone
<1>8. ~overlap["sidecar"] => Saving'
  <2>1. "sidecar" \in Channels
    BY DEF Channels
  <2>. QED BY <1>3, <1>4, <1>5, <2>1 DEF Inv, Saving
<1>9. AllAlone => Kept'
  <2>. SUFFICES ASSUME AllAlone PROVE Kept'
       OBVIOUS
  <2>1. Kept /\ \A c \in Channels : file'[c] = file[c]
    BY DEF Inv, AllAlone
  <2>2. \A c \in Channels : \A b : Covered(c, b) => Covered(c, b)'
    BY <1>3, <1>4, <1>5, <2>1 DEF Covered
  <2>3. ASSUME NEW p \in Callers, Flushing(p) PROVE Flushing(p)'
    BY <1>3, <1>4, <1>5, <2>2, <2>3 DEF Flushing
  <2>4. \A c \in Channels : Covered(c, promised)'
    BY <2>1, <2>2 DEF Kept
  <2>. QED BY <2>1, <2>3, <2>4 DEF Kept
<1>10. \A c \in Channels : ~overlap[c] /\ faults' = 0 => Fresh(c)'
  BY <1>0, <1>3, <1>4, <1>5 DEF Inv, Fresh
<1>11. \A v \in Flying : v \in Writers
  BY InFlights
<1>12. "sidecar" \in Channels /\ "markdown" \in Channels /\ Channel(w) \in Channels /\ w \in Flying
  BY InFlights, ChannelOf DEF Channels
<1>13. Made'
  <2>1. \A c \in Channels : tmp'[c].body \cap Edits \subseteq made /\ file'[c].body \cap Edits \subseteq made
    BY <1>12 DEF Inv, Made, EmptyFile
  <2>. QED BY <1>3, <2>1 DEF Inv, Made
<1>14. Stored'
  <2>1. file'["sidecar"].state = "none" => file["sidecar"].state = "none"
    BY <1>12
  <2>. QED BY <1>3, <1>4, <1>11, <1>12, <2>1 DEF Inv, Stored
<1>15. OneView'
  <2>1. PICK O \in SUBSET OutsideEdits : Seen(O)
    BY DEF Inv, OneView
  <2>2. Sees(file'["sidecar"], O)
    BY <1>12, <2>1 DEF Seen, Sees
  <2>3. \A v \in Flying' : write'[v].content.body \cap OutsideEdits = O
    BY <1>3, <1>4, <1>11, <2>1 DEF Seen
  <2>4. ASSUME NEW v \in InFlight("sidecar")', write'[v].pc \in {"write", "rename"}
        PROVE  Sees(tmp'["sidecar"], O)
    <3>0. v \in InFlight("sidecar") /\ v \in Writers /\ Channel(v) = "sidecar"
      BY <1>4, <1>5, <1>12, <2>4
    <3>1. CASE Channel(w) = "sidecar"
      <4>1. CASE tmp'["sidecar"] = EmptyFile \/ tmp'["sidecar"].body = write[w].content.body
        BY <1>12, <2>1, <4>1 DEF Seen, Sees, EmptyFile
      <4>2. CASE tmp'["sidecar"] = tmp["sidecar"] /\ (new.pc \in {"write", "rename"} => write[w].pc = "write")
        <5>1. write[v].pc \in {"write", "rename"}
          BY <1>1, <2>4, <3>0, <4>2
        <5>. QED BY <2>1, <3>0, <4>2, <5>1 DEF Seen
      <4>. QED BY <3>1, <4>1, <4>2
    <3>2. CASE Channel(w) # "sidecar"
      <4>1. write'[v] = write[v] /\ tmp'["sidecar"] = tmp["sidecar"]
        BY <1>1, <1>12, <3>0, <3>2
      <4>. QED BY <2>1, <2>4, <3>0, <4>1 DEF Seen
    <3>. QED BY <3>1, <3>2
  <2>5. Seen(O)'
    BY <2>1, <2>2, <2>3, <2>4 DEF Seen, Sees
  <2>. QED BY <2>5 DEF OneView
<1>16. ~overlap["markdown"] => Twin'
  BY <1>3, <1>4, <1>5, <1>12 DEF Inv, Twin
<1>. QED BY <1>2, <1>6, <1>7, <1>8, <1>9, <1>10, <1>13, <1>14, <1>15, <1>16 DEF Inv, AllAlone

\* writeFile opens <path>.tmp and truncates it,
LEMMA OpenTmpKeeps == ASSUME Inv, NEW w \in Writers, OpenTmp(w) PROVE Inv'
<1>1. /\ write \in [Writers -> Write] /\ tmp \in [Channels -> Content] /\ Channel(w) \in Channels
      /\ file \in [Channels -> Content] /\ faults \in 0 .. MaxFaults /\ MaxFaults \in Nat
  BY ConstantsOK, ChannelOf DEF Inv, TypeOK
<1>2. PICK new \in Write :
         /\ write' = [write EXCEPT ![w] = new] /\ new.content = write[w].content
         /\ new.pc = "write" /\ new.fd = "tmp"
  <2>1. PICK r, n : /\ r = write[w] /\ write' = [write EXCEPT ![w] = n]
                    /\ n = [r EXCEPT !.pc = "write", !.fd = "tmp"]
    BY Zenon DEF OpenTmp
  <2>2. r \in Write /\ "write" \in {"idle", "open", "write", "rename", "unlink"}
        /\ "tmp" \in {"tmp", "file", "gone"}
    BY <1>1, <2>1
  <2>3. n \in Write /\ n.content = r.content /\ n.pc = "write" /\ n.fd = "tmp"
    BY <2>1, <2>2, Zenon DEF Write
  <2>. QED BY <2>1, <2>3
<1>3. EmptyFile \in Content
  BY DEF EmptyFile, Content
<1>4. /\ tmp' \in [Channels -> Content] /\ tmp'[Channel(w)] = EmptyFile
      /\ \A d \in Channels : d # Channel(w) => tmp'[d] = tmp[d]
  BY <1>1, <1>3 DEF OpenTmp
<1>5. /\ write[w].pc # "idle" /\ host' = host /\ starts' = starts /\ doc' = doc /\ made' = made
      /\ timer' = timer /\ call' = call /\ promised' = promised /\ overlap' = overlap
      /\ faults' = faults /\ file' = file
  BY DEF OpenTmp
<1>6. /\ \A d \in Channels : ~overlap[d] => file'[d] = file[d]
      /\ \A d \in Channels : d # Channel(w) => tmp'[d] = tmp[d] /\ file'[d] = file[d]
      /\ new.pc # "idle" /\ faults' \in 0 .. MaxFaults /\ faults' >= faults
      /\ file' \in [Channels -> Content]
  BY <1>1, <1>2, <1>4, <1>5
<1>8. /\ \/ file'[Channel(w)] = file[Channel(w)]
         \/ /\ file'[Channel(w)].state # "none"
            /\ file'[Channel(w)].body = write[w].content.body
      /\ \/ /\ tmp'[Channel(w)] = tmp[Channel(w)]
            /\ new.pc \in {"write", "rename"} => write[w].pc = "write"
         \/ tmp'[Channel(w)] = EmptyFile
         \/ tmp'[Channel(w)].body = write[w].content.body
  BY <1>4, <1>5
<1>7. ~overlap[Channel(w)] =>
             /\ new.pc = "write" => new.fd = "tmp" /\ tmp'[Channel(w)] = EmptyFile
             /\ new.pc = "rename" => tmp'[Channel(w)] = new.content
             /\ new.pc = "unlink" => faults' > 0
  BY <1>2, <1>4
<1>. QED BY <1>2, <1>4, <1>5, <1>6, <1>7, <1>8, AdvanceKeeps

\* and writes the bytes where the file it opened is by now.
LEMMA WriteBytesKeeps == ASSUME Inv, NEW w \in Writers, WriteBytes(w) PROVE Inv'
<1>. DEFINE c == Channel(w)
<1>1. /\ write \in [Writers -> Write] /\ tmp \in [Channels -> Content] /\ c \in Channels
      /\ file \in [Channels -> Content] /\ faults \in 0 .. MaxFaults /\ MaxFaults \in Nat
      /\ write[w] \in Write /\ write[w].content \in Content
  BY ConstantsOK, ChannelOf DEF Inv, TypeOK, Write
<1>2. PICK new \in Write :
         /\ write' = [write EXCEPT ![w] = new] /\ new.content = write[w].content
         /\ new.pc = "rename" /\ new.fd = write[w].fd
  <2>1. PICK r, n : /\ r = write[w] /\ write' = [write EXCEPT ![w] = n]
                    /\ n = [r EXCEPT !.pc = "rename"]
    BY Zenon DEF WriteBytes
  <2>2. r \in Write /\ "rename" \in {"idle", "open", "write", "rename", "unlink"}
    BY <1>1, <2>1
  <2>3. n \in Write /\ n.content = r.content /\ n.pc = "rename" /\ n.fd = r.fd
    BY <2>1, <2>2, Zenon DEF Write
  <2>. QED BY <2>1, <2>3
<1>3. /\ write[w].pc = "write" /\ host' = host /\ starts' = starts /\ doc' = doc
      /\ made' = made /\ timer' = timer /\ call' = call /\ promised' = promised
      /\ overlap' = overlap /\ faults' = faults
  BY DEF WriteBytes
<1>4. \A old \in Content : Over(w, old) \subseteq Content
  <2>. DEFINE content == write[w].content
              torn    == [content EXCEPT !.state = "junk"]
  <2>1. torn \in Content
    BY <1>1, Zenon DEF Content
  <2>2. \A old : \A n \in Over(w, old) : n = content \/ n = torn
    BY DEF Over
  <2>. QED BY <1>1, <2>1, <2>2
<1>5. /\ tmp' \in [Channels -> Content] /\ file' \in [Channels -> Content]
      /\ \A d \in Channels : d # c => tmp'[d] = tmp[d] /\ file'[d] = file[d]
      /\ write[w].fd = "tmp" => file' = file /\ tmp'[c] \in Over(w, tmp[c])
      /\ file'[c] = file[c] \/ \E old : file'[c] \in Over(w, old)
      /\ tmp'[c] = tmp[c] \/ \E old : tmp'[c] \in Over(w, old)
  <2>1. CASE write[w].fd = "tmp"
    <3>1. PICK x \in Over(w, tmp[c]) : tmp' = [tmp EXCEPT ![c] = x] /\ file' = file
      BY <2>1 DEF WriteBytes
    <3>. QED BY <1>1, <1>4, <3>1
  <2>2. CASE write[w].fd = "file"
    <3>1. PICK x \in Over(w, file[c]) : file' = [file EXCEPT ![c] = x] /\ tmp' = tmp
      BY <2>2 DEF WriteBytes
    <3>. QED BY <1>1, <1>4, <2>2, <3>1
  <2>3. CASE write[w].fd = "gone"
    BY <1>1, <2>3 DEF WriteBytes
  <2>. QED BY <1>1, <2>1, <2>2, <2>3 DEF Write
<1>6. w \in InFlight(c)
  BY <1>1, <1>3, InFlights
<1>7. ~overlap[c] => file' = file /\ tmp'[c] = new.content
  <2>. SUFFICES ASSUME ~overlap[c] PROVE file' = file /\ tmp'[c] = new.content
       OBVIOUS
  <2>1. write[w].fd = "tmp" /\ tmp[c] = EmptyFile
    BY <1>1, <1>3, <1>6 DEF Inv, Alone
  <2>2. Over(w, EmptyFile) = {write[w].content}
    BY DEF Over, EmptyFile
  <2>. QED BY <1>2, <1>5, <2>1, <2>2
<1>8. /\ \A d \in Channels : ~overlap[d] => file'[d] = file[d]
      /\ \A d \in Channels : d # Channel(w) => tmp'[d] = tmp[d] /\ file'[d] = file[d]
      /\ new.pc # "idle" /\ faults' \in 0 .. MaxFaults /\ faults' >= faults
      /\ write[w].pc # "idle"
  BY <1>1, <1>2, <1>3, <1>5, <1>7
<1>10. \A old : \A n \in Over(w, old) : n.state # "none" /\ n.body = write[w].content.body
  <2>. DEFINE content == write[w].content
              torn    == [content EXCEPT !.state = "junk"]
  <2>1. torn.state = "junk" /\ torn.body = content.body
    BY <1>1, Zenon DEF Content
  <2>2. content.state = "whole"
    BY <1>3, InFlights DEF Inv, Stored
  <2>3. \A old : \A n \in Over(w, old) : n = content \/ n = torn
    BY DEF Over
  <2>. HIDE DEF torn
  <2>. QED BY <2>1, <2>2, <2>3
<1>11. /\ \/ file'[Channel(w)] = file[Channel(w)]
          \/ /\ file'[Channel(w)].state # "none"
             /\ file'[Channel(w)].body = write[w].content.body
       /\ \/ /\ tmp'[Channel(w)] = tmp[Channel(w)]
             /\ new.pc \in {"write", "rename"} => write[w].pc = "write"
          \/ tmp'[Channel(w)] = EmptyFile
          \/ tmp'[Channel(w)].body = write[w].content.body
  BY <1>3, <1>5, <1>10
<1>9. ~overlap[Channel(w)] =>
             /\ new.pc = "write" => new.fd = "tmp" /\ tmp'[Channel(w)] = EmptyFile
             /\ new.pc = "rename" => tmp'[Channel(w)] = new.content
             /\ new.pc = "unlink" => faults' > 0
  BY <1>2, <1>7
<1>. QED BY <1>2, <1>3, <1>5, <1>8, <1>9, <1>11, AdvanceKeeps

-----------------------------------------------------------------------------
(* A write ends.                                                           *)

\* A write that ends leaves its content in the file, or ends the calls that await it
\* (and then, if no other write meddled, an operation has failed).
LEMMA EndsKeeps ==
    ASSUME Inv, NEW w \in Writers, write[w].pc # "idle",
           NEW renamed \in BOOLEAN,
           write' \in [Writers -> Write], write'[w] = Idle,
           \A v \in Writers : v # w =>
              \/ write'[v] = write[v]
              \/ /\ Channel(v) = Channel(w) /\ write[v].pc # "idle"
                 /\ write'[v].pc = write[v].pc /\ write'[v].content = write[v].content,
           host' = host, starts' = starts, doc' = doc, made' = made, timer' = timer,
           promised' = promised, overlap' = overlap,
           faults' \in 0 .. MaxFaults, faults' >= faults,
           call' \in [Callers -> Call],
           \A p \in Callers :
              \/ call'[p] = NoCall
              \/ /\ call'[p].pc = call[p].pc /\ call'[p].body = call[p].body
                 /\ call'[p].then = call[p].then /\ call'[p].waits = call[p].waits \ {w}
                 /\ ~renamed => w \notin call[p].waits,
           tmp' \in [Channels -> Content], file' \in [Channels -> Content],
           \A d \in Channels : d # Channel(w) => tmp'[d] = tmp[d] /\ file'[d] = file[d],
           tmp'[Channel(w)] = tmp[Channel(w)] \/ tmp'[Channel(w)] = NoFile,
           renamed => /\ write[w].pc = "rename" /\ tmp[Channel(w)].state # "none"
                      /\ file'[Channel(w)] = tmp[Channel(w)],
           ~renamed => file'[Channel(w)] = file[Channel(w)],
           ~overlap[Channel(w)] => \/ renamed /\ file'[Channel(w)] = write[w].content
                                   \/ ~renamed /\ faults' > 0
    PROVE  Inv'
<1>. DEFINE c == Channel(w)
<1>0. /\ write \in [Writers -> Write] /\ faults \in 0 .. MaxFaults /\ MaxFaults \in Nat
      /\ c \in Channels /\ write[w].content \in Content
  BY ConstantsOK, ChannelOf DEF Inv, TypeOK, Write
<1>1. TypeOK'
  BY DEF Inv, TypeOK
<1>2. /\ \A d \in Channels : \A v : v \in InFlight(d)' <=> v \in InFlight(d) /\ v # w
      /\ \A v : v \in Flying' <=> v \in Flying /\ v # w
  <2>1. write'[w].pc = "idle"
    BY DEF Idle
  <2>2. \A v \in Writers : v # w => (write'[v].pc = "idle" <=> write[v].pc = "idle")
    OBVIOUS
  <2>. QED BY <2>1, <2>2, InFlights
<1>3. \A d \in Channels : \A v \in InFlight(d) : v \in Writers /\ Channel(v) = d /\ write[v].pc # "idle"
  BY InFlights
<1>4. w \in InFlight(c)
  BY <1>0, InFlights
<1>5. /\ \A d \in Channels : d # c => InFlight(d)' = InFlight(d)
      /\ \A d \in Channels : \A v \in InFlight(d)' :
            v \in InFlight(d) /\ v \in Writers /\ v # w /\ write'[v].content = write[v].content
      /\ \A d \in Channels : d # c => \A v \in InFlight(d) : write'[v] = write[v]
  <2>1. \A d \in Channels : d # c => w \notin InFlight(d)
    BY <1>3
  <2>2. \A d \in Channels : d # c => InFlight(d)' = InFlight(d)
    BY <1>2, <2>1
  <2>. QED BY <1>2, <1>3, <2>2
<1>6. ~overlap[c] => InFlight(c)' = {} /\ \A v \in InFlight(c) : v = w
  BY <1>0, <1>2, <1>4 DEF Inv, Alone
<1>7. Flow'
  <2>1. \A p \in Callers : call'[p].waits \subseteq Flying'
    BY <1>2 DEF Inv, Flow, NoCall
  <2>2. \A v \in Writers : write'[v].pc = "idle" => write'[v] = Idle
    BY DEF Inv, Flow
  <2>. QED BY <2>1, <2>2 DEF Inv, Flow, NoCall, Callers
<1>8. ASSUME NEW d \in Channels, ~overlap[d] PROVE Alone(d)'
  <2>1. CASE d = c
    BY <1>0, <1>4, <1>6, <1>8, <2>1 DEF Inv, Alone
  <2>2. CASE d # c
    BY <1>0, <1>5, <1>8, <2>2 DEF Inv, Alone
  <2>. QED BY <2>1, <2>2
<1>9. ASSUME ~overlap["sidecar"] PROVE Saving'
  <2>0. "sidecar" \in Channels /\ "request" \in Callers
    BY DEF Channels, Callers
  <2>1. Saving /\ Alone("sidecar")
    BY <1>9, <2>0 DEF Inv
  <2>2. CASE c = "sidecar"
    <3>1. InFlight("sidecar")' = {} /\ \A v \in InFlight("sidecar") : v = w
      BY <1>6, <1>9, <2>2
    <3>2. w \in InFlight("sidecar") /\ write[w].content.state = "whole"
      BY <1>4, <2>1, <2>2 DEF Alone
    <3>3. doc'.open => file'["sidecar"].body \subseteq doc'.body
      BY <1>9, <2>1, <2>2, <3>2 DEF Saving
    <3>4. call'["request"].pc # "none" => file'["sidecar"] = [state |-> "whole", body |-> doc'.body]
      <4>. SUFFICES ASSUME call'["request"].pc # "none"
                    PROVE  file'["sidecar"] = [state |-> "whole", body |-> doc'.body]
           OBVIOUS
      <4>1. call["request"].pc # "none" /\ (~renamed => w \notin call["request"].waits)
        BY <2>0 DEF NoCall
      <4>2. CASE renamed
        BY <1>0, <1>9, <2>1, <2>2, <3>2, <4>1, <4>2 DEF Saving, Content
      <4>3. CASE ~renamed
        BY <1>9, <2>1, <2>2, <3>1, <4>1, <4>3 DEF Saving
      <4>. QED BY <4>2, <4>3
    <3>. QED BY <3>1, <3>3, <3>4 DEF Saving
  <2>3. CASE c # "sidecar"
    <3>1. /\ InFlight("sidecar")' = InFlight("sidecar") /\ file'["sidecar"] = file["sidecar"]
          /\ \A v \in InFlight("sidecar") : write'[v] = write[v] /\ v # w
      BY <1>3, <1>5, <2>0, <2>3
    <3>2. call'["request"].pc # "none" =>
            /\ call["request"].pc # "none"
            /\ call'["request"].waits = call["request"].waits \ {w}
      BY <2>0 DEF NoCall
    <3>. QED BY <2>1, <3>1, <3>2 DEF Saving
  <2>. QED BY <2>2, <2>3
<1>10. ASSUME AllAlone PROVE Kept'
  <2>1. Kept /\ ~overlap[c]
    BY <1>0, <1>10 DEF Inv, AllAlone
  <2>3. ASSUME NEW p \in Callers, call'[p].pc # "none" PROVE Flushing(p)'
    <3>1. /\ call[p].pc # "none" /\ call'[p].body = call[p].body
          /\ call'[p].waits = call[p].waits \ {w} /\ (~renamed => w \notin call[p].waits)
      BY <2>3 DEF NoCall
    <3>2. Flushing(p)
      BY <2>1, <3>1 DEF Kept
    <3>3. \A q \in Callers : call'[q].pc # "none" => call[q].pc # "none"
      BY DEF NoCall
    <3>4. ASSUME NEW d \in Channels
          PROVE  \/ Covered(d, call[p].body)'
                 \/ \E v \in InFlight(d)' :
                      v \in call'[p].waits /\ call'[p].body \subseteq write'[v].content.body
      <4>1. CASE Covered(d, call[p].body)
        <5>. DEFINE b == call[p].body
        <5>1. Covered(d, b)
          BY <4>1
        <5>2. b' = b
          BY <3>1
        <5>3. b \subseteq file'[d].body /\ \A v \in InFlight(d)' : b \subseteq write'[v].content.body
          <6>1. CASE d = c
            BY <1>4, <1>6, <2>1, <5>1, <6>1 DEF Covered
          <6>2. CASE d # c
            BY <1>5, <5>1, <6>2 DEF Covered
          <6>. QED BY <6>1, <6>2
        <5>. QED BY <5>2, <5>3 DEF Covered
      <4>2. ASSUME NEW v \in InFlight(d), v \in call[p].waits,
                   call[p].body \subseteq write[v].content.body
            PROVE  \/ Covered(d, call[p].body)'
                   \/ \E u \in InFlight(d)' :
                        u \in call'[p].waits /\ call'[p].body \subseteq write'[u].content.body
        <5>1. CASE d = c
          <6>1. v = w /\ renamed
            BY <1>6, <2>1, <3>1, <4>2, <5>1
          <6>2. file'[d] = write[w].content /\ InFlight(d)' = {}
            BY <1>6, <2>1, <5>1, <6>1
          <6>. QED BY <3>1, <4>2, <6>1, <6>2 DEF Covered
        <5>2. CASE d # c
          BY <1>3, <1>5, <3>1, <4>2, <5>2
        <5>. QED BY <5>1, <5>2
      <4>. QED BY <3>2, <4>1, <4>2 DEF Flushing
    <3>. QED BY <3>1, <3>2, <3>3, <3>4 DEF Flushing
  <2>4. \A d \in Channels : Covered(d, promised)'
    <3>. DEFINE b == promised
    <3>1. \A d \in Channels : Covered(d, b)
      BY <2>1 DEF Kept
    <3>2. \A d \in Channels :
             b \subseteq file'[d].body /\ \A v \in InFlight(d)' : b \subseteq write'[v].content.body
      <4>1. ASSUME NEW d \in Channels, d = c PROVE b \subseteq file'[d].body /\ InFlight(d)' = {}
        BY <1>4, <1>6, <2>1, <3>1, <4>1 DEF Covered
      <4>2. ASSUME NEW d \in Channels, d # c
            PROVE  b \subseteq file'[d].body /\ \A v \in InFlight(d)' : b \subseteq write'[v].content.body
        BY <1>5, <3>1, <4>2 DEF Covered
      <4>. QED BY <4>1, <4>2
    <3>. QED BY <3>2 DEF Covered
  <2>. QED BY <2>1, <2>3, <2>4 DEF Kept
<1>11. ASSUME NEW d \in Channels, ~overlap[d], faults' = 0 PROVE Fresh(d)'
  <2>1. Fresh(d)
    BY <1>0, <1>11 DEF Inv
  <2>2. CASE d = c
    BY <1>4, <1>6, <1>11, <2>1, <2>2 DEF Fresh
  <2>3. CASE d # c
    BY <1>5, <2>1, <2>3 DEF Fresh
  <2>. QED BY <2>2, <2>3
<1>12. "sidecar" \in Channels /\ "markdown" \in Channels /\ "request" \in Callers
  BY DEF Channels, Callers
<1>13. /\ \A v \in Flying' : v \in Flying /\ v \in Writers /\ write'[v].content = write[v].content
       /\ \A v \in Writers : v # w => write'[v].content = write[v].content
  BY <1>2, InFlights
<1>14. Made'
  <2>1. \A d \in Channels : tmp'[d].body \cap Edits \subseteq made /\ file'[d].body \cap Edits \subseteq made
    BY <1>0 DEF Inv, Made, NoFile
  <2>2. \A v \in Writers : write'[v].content.body \cap Edits \subseteq made
    BY <1>13 DEF Inv, Made, Idle, NoFile
  <2>. QED BY <2>1, <2>2 DEF Inv, Made
<1>15. call'["request"].pc # "none" =>
          /\ call["request"].pc # "none" /\ (~renamed => w \notin call["request"].waits)
          /\ call'["request"].waits = call["request"].waits \ {w}
  BY <1>12 DEF NoCall
<1>16. Stored'
  <2>1. \/ file'["sidecar"] = file["sidecar"]
        \/ c = "sidecar" /\ renamed /\ file'["sidecar"].state # "none"
    BY <1>12
  <2>2. ~doc.open /\ file'["sidecar"].state = "none" => Flying' = {}
    BY <1>2, <2>1 DEF Inv, Stored
  <2>3. ASSUME call'["request"].pc # "none"
        PROVE  \/ file'["sidecar"].state # "none"
               \/ \E v \in InFlight("sidecar")' : v \in call'["request"].waits
    <3>1. CASE file["sidecar"].state # "none"
      BY <2>1, <3>1
    <3>2. ASSUME NEW v \in InFlight("sidecar"), v \in call["request"].waits
          PROVE  \/ file'["sidecar"].state # "none"
                 \/ \E u \in InFlight("sidecar")' : u \in call'["request"].waits
      <4>1. CASE v = w
        BY <1>3, <1>12, <1>15, <2>3, <3>2, <4>1
      <4>2. CASE v # w
        BY <1>2, <1>12, <1>15, <2>3, <3>2, <4>2
      <4>. QED BY <4>1, <4>2
    <3>. QED BY <1>15, <2>3, <3>1, <3>2 DEF Inv, Stored
  <2>. QED BY <1>13, <2>2, <2>3 DEF Inv, Stored
<1>17. OneView'
  <2>1. PICK O \in SUBSET OutsideEdits : Seen(O)
    BY DEF Inv, OneView
  <2>2. Sees(file'["sidecar"], O)
    <3>1. CASE c = "sidecar" /\ renamed
      BY <1>4, <2>1, <3>1 DEF Seen
    <3>2. CASE ~(c = "sidecar" /\ renamed)
      <4>1. file'["sidecar"] = file["sidecar"]
        BY <1>12, <3>2
      <4>. QED BY <2>1, <4>1 DEF Seen
    <3>. QED BY <3>1, <3>2
  <2>3. \A v \in Flying' : write'[v].content.body \cap OutsideEdits = O
    BY <1>13, <2>1 DEF Seen
  <2>4. ASSUME NEW v \in InFlight("sidecar")', write'[v].pc \in {"write", "rename"}
        PROVE  Sees(tmp'["sidecar"], O)
    <3>1. v \in InFlight("sidecar") /\ write[v].pc \in {"write", "rename"}
      BY <1>5, <1>12, <2>4
    <3>2. Sees(tmp["sidecar"], O)
      BY <2>1, <3>1 DEF Seen
    <3>. QED BY <1>12, <3>2 DEF Sees, NoFile
  <2>5. Seen(O)'
    BY <2>1, <2>2, <2>3, <2>4 DEF Seen, Sees
  <2>. QED BY <2>5 DEF OneView
<1>18. ASSUME ~overlap["markdown"] PROVE Twin'
  <2>1. Twin
    BY <1>18 DEF Inv
  <2>2. CASE c = "markdown"
    <3>1. InFlight("markdown")' = {} /\ \A v \in InFlight("markdown") : v = w
      BY <1>6, <1>18, <2>2
    <3>2. w \in InFlight("markdown")
      BY <1>4, <2>2
    <3>3. call'["request"].pc # "none" => file'["markdown"].body \subseteq doc'.body \cup OutsideEdits
      <4>. SUFFICES ASSUME call'["request"].pc # "none"
                    PROVE  file'["markdown"].body \subseteq doc'.body \cup OutsideEdits
           OBVIOUS
      <4>1. CASE renamed
        BY <1>15, <1>18, <2>1, <2>2, <3>2, <4>1 DEF Twin
      <4>2. CASE ~renamed
        BY <1>15, <1>18, <2>1, <2>2, <3>1, <4>2 DEF Twin
      <4>. QED BY <4>1, <4>2
    <3>. QED BY <3>1, <3>3 DEF Twin
  <2>3. CASE c # "markdown"
    <3>1. /\ InFlight("markdown")' = InFlight("markdown") /\ file'["markdown"] = file["markdown"]
          /\ \A v \in InFlight("markdown") : write'[v] = write[v] /\ v # w
      BY <1>3, <1>5, <1>12, <2>3
    <3>. QED BY <1>15, <2>1, <3>1 DEF Twin
  <2>. QED BY <2>2, <2>3
<1>. QED BY <1>1, <1>7, <1>8, <1>9, <1>10, <1>11, <1>14, <1>16, <1>17, <1>18 DEF Inv, AllAlone

\* A descriptor that moves with <path>.tmp is that of a write of its channel.
LEMMA MovedEnds ==
    ASSUME Inv, NEW w \in Writers, NEW now \in {"file", "gone"},
           write' = Ended(Moved(Channel(w), now), w)
    PROVE  /\ write' \in [Writers -> Write] /\ write'[w] = Idle
           /\ \A v \in Writers : v # w =>
                \/ write'[v] = write[v]
                \/ /\ Channel(v) = Channel(w) /\ write[v].pc # "idle"
                   /\ write'[v].pc = write[v].pc /\ write'[v].content = write[v].content
<1>. DEFINE c == Channel(w)
            m == Moved(c, now)
<1>1. write \in [Writers -> Write] /\ c \in Channels
  BY ChannelOf DEF Inv, TypeOK
<1>2. Idle \in Write
  BY DEF Idle, Write, NoFile, Content
<1>3. ASSUME NEW v \in Writers
      PROVE  /\ m[v] \in Write
             /\ \/ m[v] = write[v]
                \/ /\ Channel(v) = c /\ write[v].pc # "idle"
                   /\ m[v].pc = write[v].pc /\ m[v].content = write[v].content
  <2>1. /\ v \in DOMAIN m
        /\ \/ m[v] = write[v]
           \/ v \in WritersOf(c) /\ write[v].fd # "gone"
              /\ \E fd \in {"tmp", "file", "gone"} : m[v] = [write[v] EXCEPT !.fd = fd]
    BY DEF Moved
  <2>2. CASE m[v] = write[v]
    BY <1>1, <2>2
  <2>3. CASE v \in WritersOf(c) /\ write[v].fd # "gone"
              /\ \E fd \in {"tmp", "file", "gone"} : m[v] = [write[v] EXCEPT !.fd = fd]
    <3>1. PICK fd, r : /\ fd \in {"tmp", "file", "gone"} /\ r = write[v]
                       /\ m[v] = [r EXCEPT !.fd = fd]
      BY <2>3
    <3>2. r \in Write /\ fd \in {"tmp", "file", "gone"}
      BY <1>1, <3>1
    <3>3. m[v] \in Write /\ m[v].pc = r.pc /\ m[v].content = r.content
      BY <3>1, <3>2, Zenon DEF Write
    <3>4. write[v].pc # "idle"
      BY <2>3 DEF Inv, Flow, Idle
    <3>5. Channel(v) = c
      BY <1>1, <2>3, ChannelOf
    <3>. QED BY <3>1, <3>3, <3>4, <3>5
  <2>. QED BY <2>1, <2>2, <2>3
<1>4. DOMAIN m = Writers /\ m = [v \in Writers |-> m[v]]
  BY DEF Moved
<1>. HIDE DEF m
<1>5. write' = [m EXCEPT ![w] = Idle]
  BY DEF m, Ended
<1>6. m \in [Writers -> Write]
  BY <1>3, <1>4
<1>. QED BY <1>2, <1>3, <1>5, <1>6

\* A call that awaits one write less is as it was otherwise.
LEMMA NotAwaitedCalls ==
    ASSUME call \in [Callers -> Call], NEW w \in Writers, call' = NotAwaited(w)
    PROVE  /\ call' \in [Callers -> Call]
           /\ \A p \in Callers :
                /\ call'[p].pc = call[p].pc /\ call'[p].body = call[p].body
                /\ call'[p].then = call[p].then /\ call'[p].waits = call[p].waits \ {w}
<1>1. ASSUME NEW p \in Callers
      PROVE  /\ call'[p] \in Call
             /\ call'[p].pc = call[p].pc /\ call'[p].body = call[p].body
             /\ call'[p].then = call[p].then /\ call'[p].waits = call[p].waits \ {w}
  <2>1. PICK r, rest : r = call[p] /\ rest = r.waits \ {w} /\ call'[p] = [r EXCEPT !.waits = rest]
    BY DEF NotAwaited
  <2>2. r \in Call /\ rest \in SUBSET Writers
    BY <2>1 DEF Call
  <2>3. /\ call'[p] \in Call /\ call'[p].pc = r.pc /\ call'[p].body = r.body
        /\ call'[p].then = r.then /\ call'[p].waits = rest
    BY <2>1, <2>2, Zenon DEF Call
  <2>. QED BY <2>1, <2>3
<1>2. call' = [p \in Callers |-> call'[p]]
  BY DEF NotAwaited
<1>. QED BY <1>1, <1>2

\* A write's rename,
LEMMA RenameKeeps == ASSUME Inv, NEW w \in Writers, Rename(w) PROVE Inv'
<1>. DEFINE c == Channel(w)
<1>1. /\ write \in [Writers -> Write] /\ call \in [Callers -> Call] /\ c \in Channels
      /\ tmp \in [Channels -> Content] /\ file \in [Channels -> Content]
      /\ faults \in 0 .. MaxFaults /\ MaxFaults \in Nat
  BY ConstantsOK, ChannelOf DEF Inv, TypeOK
<1>2. /\ write[w].pc = "rename" /\ host' = host /\ starts' = starts /\ doc' = doc
      /\ made' = made /\ timer' = timer /\ promised' = promised /\ overlap' = overlap
      /\ faults' = faults /\ file' = [file EXCEPT ![c] = tmp[c]]
      /\ tmp' = [tmp EXCEPT ![c] = NoFile]
      /\ write' = Ended(Moved(c, "file"), w) /\ call' = NotAwaited(w)
  BY DEF Rename
<1>3. NoFile \in Content
  BY DEF NoFile, Content
<1>4. /\ tmp' \in [Channels -> Content] /\ file' \in [Channels -> Content]
      /\ file'[c] = tmp[c]
      /\ \A d \in Channels : d # c => tmp'[d] = tmp[d] /\ file'[d] = file[d]
  BY <1>1, <1>2, <1>3
<1>5. /\ write' \in [Writers -> Write] /\ write'[w] = Idle
      /\ \A v \in Writers : v # w =>
           \/ write'[v] = write[v]
           \/ /\ Channel(v) = Channel(w) /\ write[v].pc # "idle"
              /\ write'[v].pc = write[v].pc /\ write'[v].content = write[v].content
  BY <1>1, <1>2, MovedEnds
<1>6. /\ call' \in [Callers -> Call]
      /\ \A p \in Callers :
           /\ call'[p].pc = call[p].pc /\ call'[p].body = call[p].body
           /\ call'[p].then = call[p].then /\ call'[p].waits = call[p].waits \ {w}
  BY <1>1, <1>2, NotAwaitedCalls
<1>7. w \in InFlight(c)
  BY <1>1, <1>2, InFlights
<1>8. ~overlap[c] => file'[c] = write[w].content
  BY <1>1, <1>2, <1>4, <1>7 DEF Inv, Alone
<1>9. /\ TRUE \in BOOLEAN /\ write[w].pc # "idle"
      /\ faults' \in 0 .. MaxFaults /\ faults' >= faults
  BY <1>1, <1>2
<1>10. \A p \in Callers :
         \/ call'[p] = NoCall
         \/ /\ call'[p].pc = call[p].pc /\ call'[p].body = call[p].body
            /\ call'[p].then = call[p].then /\ call'[p].waits = call[p].waits \ {w}
            /\ ~TRUE => w \notin call[p].waits
  BY <1>6
<1>11. /\ tmp'[Channel(w)] = tmp[Channel(w)] \/ tmp'[Channel(w)] = NoFile
       /\ TRUE => /\ write[w].pc = "rename" /\ tmp[Channel(w)].state # "none"
                  /\ file'[Channel(w)] = tmp[Channel(w)]
       /\ ~TRUE => file'[Channel(w)] = file[Channel(w)]
       /\ ~overlap[Channel(w)] => \/ TRUE /\ file'[Channel(w)] = write[w].content
                                  \/ ~TRUE /\ faults' > 0
  BY <1>1, <1>2, <1>3, <1>4, <1>8 DEF Rename
<1>. QED BY <1>2, <1>4, <1>5, <1>6, <1>9, <1>10, <1>11, EndsKeeps

\* its rejection,
LEMMA RejectedKeeps ==
    ASSUME Inv, NEW w \in Writers, write[w].pc # "idle",
           NEW writes, Rejected(w, writes), writes = write \/ writes = Moved(Channel(w), "gone"),
           starts' = starts, made' = made, promised' = promised, overlap' = overlap,
           faults' \in 0 .. MaxFaults, faults' >= faults, file' = file,
           tmp' \in [Channels -> Content],
           \A d \in Channels : d # Channel(w) => tmp'[d] = tmp[d],
           tmp'[Channel(w)] = tmp[Channel(w)] \/ tmp'[Channel(w)] = NoFile,
           ~overlap[Channel(w)] => faults' > 0
    PROVE  Inv'
<1>1. /\ write \in [Writers -> Write] /\ call \in [Callers -> Call]
      /\ file \in [Channels -> Content] /\ promised \subseteq Text
  BY DEF Inv, TypeOK
<1>2. CASE Gone
  <2>1. /\ promised' \subseteq Text /\ (AllAlone => \A c \in Channels : promised' \subseteq file[c].body)
        /\ \A c \in Channels : tmp'[c] = tmp[c] \/ tmp'[c] = NoFile
    BY <1>1 DEF Inv, Kept, Covered
  <2>. QED BY <1>2, <2>1, GoneKeeps
<1>3. CASE /\ write' = Ended(writes, w) /\ host' = host /\ doc' = doc /\ timer' = timer
           /\ call' = [p \in Callers |-> IF w \in call[p].waits THEN NoCall ELSE call[p]]
  <2>1. /\ write' \in [Writers -> Write] /\ write'[w] = Idle
        /\ \A v \in Writers : v # w =>
             \/ write'[v] = write[v]
             \/ /\ Channel(v) = Channel(w) /\ write[v].pc # "idle"
                /\ write'[v].pc = write[v].pc /\ write'[v].content = write[v].content
    <3>1. CASE writes = write
      <4>1. Idle \in Write
        BY DEF Idle, Write, NoFile, Content
      <4>. QED BY <1>1, <1>3, <3>1, <4>1 DEF Ended
    <3>2. CASE writes = Moved(Channel(w), "gone")
      BY <1>1, <1>3, <3>2, MovedEnds
    <3>. QED BY <3>1, <3>2
  <2>2. call' \in [Callers -> Call]
    BY <1>1, <1>3 DEF NoCall, Call
  <2>3. \A p \in Callers :
          \/ call'[p] = NoCall
          \/ /\ call'[p].pc = call[p].pc /\ call'[p].body = call[p].body
             /\ call'[p].then = call[p].then /\ call'[p].waits = call[p].waits \ {w}
             /\ ~FALSE => w \notin call[p].waits
    <3>. SUFFICES ASSUME NEW p \in Callers, w \notin call[p].waits
                  PROVE  call'[p] = call[p] /\ call[p].waits = call[p].waits \ {w}
         BY <1>3
    <3>. QED BY <1>1, <1>3 DEF Call
  <2>4. /\ FALSE => /\ write[w].pc = "rename" /\ tmp[Channel(w)].state # "none"
                    /\ file'[Channel(w)] = tmp[Channel(w)]
        /\ ~FALSE => file'[Channel(w)] = file[Channel(w)]
        /\ ~overlap[Channel(w)] => \/ FALSE /\ file'[Channel(w)] = write[w].content
                                   \/ ~FALSE /\ faults' > 0
    OBVIOUS
  <2>5. /\ FALSE \in BOOLEAN /\ file' \in [Channels -> Content]
        /\ host' = host /\ doc' = doc /\ timer' = timer
        /\ \A d \in Channels : d # Channel(w) => tmp'[d] = tmp[d] /\ file'[d] = file[d]
    BY <1>1, <1>3
  <2>. QED BY <2>1, <2>2, <2>3, <2>4, <2>5, EndsKeeps
<1>. QED BY <1>2, <1>3 DEF Rejected

\* and an operation of it that throws.
LEMMA ThrownKeeps ==
    ASSUME Inv, NEW w \in Writers, write[w].pc # "idle", Thrown(w),
           starts' = starts, made' = made, promised' = promised, overlap' = overlap,
           faults' \in 0 .. MaxFaults, faults' >= faults, file' = file, tmp' = tmp,
           ~overlap[Channel(w)] => faults' > 0
    PROVE  Inv'
<1>1. /\ write \in [Writers -> Write] /\ tmp' \in [Channels -> Content]
      /\ file' \in [Channels -> Content]
      /\ \A d \in Channels : d # Channel(w) => tmp'[d] = tmp[d] /\ file'[d] = file[d]
      /\ \A d \in Channels : d # Channel(w) => tmp'[d] = tmp[d]
      /\ \A d \in Channels : ~overlap[d] => file'[d] = file[d]
      /\ tmp'[Channel(w)] = tmp[Channel(w)] \/ tmp'[Channel(w)] = NoFile
  BY DEF Inv, TypeOK
<1>2. CASE Channel(w) = "sidecar"
  <2>0. /\ host' = host /\ doc' = doc /\ timer' = timer /\ call' = call
    BY <1>2, Zenon DEF Thrown
  <2>1. PICK new : /\ new \in Write /\ write' = [write EXCEPT ![w] = new]
                   /\ new.content = write[w].content /\ new.pc = "unlink"
    <3>1. PICK r, n : /\ r = write[w] /\ write' = [write EXCEPT ![w] = n]
                      /\ n = [r EXCEPT !.pc = "unlink"]
      BY <1>2, Zenon DEF Thrown
    <3>2. r \in Write /\ "unlink" \in {"idle", "open", "write", "rename", "unlink"}
      BY <1>1, <3>1
    <3>3. n \in Write /\ n.content = r.content /\ n.pc = "unlink"
      BY <3>1, <3>2, Zenon DEF Write
    <3>. QED BY <3>1, <3>3
  <2>2. new \in Write /\ new.pc # "idle"
    BY <2>1
  <2>3. ~overlap[Channel(w)] =>
             /\ new.pc = "write" => new.fd = "tmp" /\ tmp'[Channel(w)] = EmptyFile
             /\ new.pc = "rename" => tmp'[Channel(w)] = new.content
             /\ new.pc = "unlink" => faults' > 0
    BY <2>1
  <2>4. /\ \/ file'[Channel(w)] = file[Channel(w)]
           \/ /\ file'[Channel(w)].state # "none"
              /\ file'[Channel(w)].body = write[w].content.body
        /\ \/ /\ tmp'[Channel(w)] = tmp[Channel(w)]
              /\ new.pc \in {"write", "rename"} => write[w].pc = "write"
           \/ tmp'[Channel(w)] = EmptyFile
           \/ tmp'[Channel(w)].body = write[w].content.body
    BY <2>1
  <2>. QED BY <1>1, <2>0, <2>1, <2>2, <2>3, <2>4, AdvanceKeeps
<1>3. CASE Channel(w) # "sidecar"
  <2>1. Rejected(w, write)
    BY <1>3 DEF Thrown
  <2>2. write = write \/ write = Moved(Channel(w), "gone")
    OBVIOUS
  <2>. QED BY <1>1, <2>1, <2>2, RejectedKeeps
<1>. QED BY <1>2, <1>3

\* Only another write can have taken the file it renames;
LEMMA RenameMissingKeeps == ASSUME Inv, NEW w \in Writers, RenameMissing(w) PROVE Inv'
<1>1. /\ faults \in 0 .. MaxFaults /\ MaxFaults \in Nat /\ Channel(w) \in Channels
  BY ConstantsOK, ChannelOf DEF Inv, TypeOK
<1>2. /\ write[w].pc = "rename" /\ tmp[Channel(w)].state = "none" /\ Thrown(w)
      /\ starts' = starts /\ faults' = faults /\ made' = made /\ tmp' = tmp /\ file' = file
      /\ promised' = promised /\ overlap' = overlap
  BY DEF RenameMissing
<1>3. overlap[Channel(w)]
  BY <1>1, <1>2, InFlights DEF Inv, Alone
<1>4. /\ write[w].pc # "idle" /\ faults' \in 0 .. MaxFaults /\ faults' >= faults
      /\ ~overlap[Channel(w)] => faults' > 0
  BY <1>1, <1>2, <1>3
<1>. QED BY <1>2, <1>4, ThrownKeeps

\* otherwise an operation failed,
LEMMA FailKeeps == ASSUME Inv, NEW w \in Writers, Fail(w) PROVE Inv'
<1>1. /\ faults \in 0 .. MaxFaults /\ MaxFaults \in Nat
  BY ConstantsOK DEF Inv, TypeOK
<1>2. /\ write[w].pc # "idle" /\ Thrown(w) /\ faults < MaxFaults /\ faults' = faults + 1
      /\ starts' = starts /\ made' = made /\ tmp' = tmp /\ file' = file
      /\ promised' = promised /\ overlap' = overlap
  BY DEF Fail
<1>3. /\ faults' \in 0 .. MaxFaults /\ faults' >= faults
      /\ ~overlap[Channel(w)] => faults' > 0
  BY <1>1, <1>2
<1>. QED BY <1>2, <1>3, ThrownKeeps

\* and the sidecar's <path>.tmp is removed.
LEMMA UnlinkKeeps == ASSUME Inv, NEW w \in Writers, Unlink(w) PROVE Inv'
<1>1. /\ faults \in 0 .. MaxFaults /\ MaxFaults \in Nat /\ Channel(w) \in Channels
      /\ tmp \in [Channels -> Content]
  BY ConstantsOK, ChannelOf DEF Inv, TypeOK
<1>2. /\ write[w].pc = "unlink" /\ write[w].pc # "idle"
      /\ tmp' = [tmp EXCEPT ![Channel(w)] = NoFile]
      /\ Rejected(w, Moved(Channel(w), "gone"))
      /\ starts' = starts /\ faults' = faults /\ made' = made /\ file' = file
      /\ promised' = promised /\ overlap' = overlap
  BY DEF Unlink
<1>3. NoFile \in Content
  BY DEF NoFile, Content
<1>4. /\ tmp' \in [Channels -> Content]
      /\ \A d \in Channels : d # Channel(w) => tmp'[d] = tmp[d]
      /\ tmp'[Channel(w)] = tmp[Channel(w)] \/ tmp'[Channel(w)] = NoFile
  BY <1>1, <1>2, <1>3
<1>5. ~overlap[Channel(w)] => faults' > 0
  BY <1>1, <1>2, InFlights DEF Inv, Alone
<1>6. faults' \in 0 .. MaxFaults /\ faults' >= faults
  BY <1>1, <1>2
<1>7. \/ Moved(Channel(w), "gone") = write
      \/ Moved(Channel(w), "gone") = Moved(Channel(w), "gone")
  OBVIOUS
<1>. QED BY <1>2, <1>4, <1>5, <1>6, <1>7, RejectedKeeps

-----------------------------------------------------------------------------
(* Writes begin.                                                           *)

\* A write that begins has the whole document, and is alone unless the history says
\* otherwise; a call that begins waits for a write of each channel.
LEMMA BeginsKeep ==
    ASSUME Inv, doc.open, ~Settling, NEW B \in SUBSET Writers,
           \A a, b \in B : Channel(a) = Channel(b) => a = b,
           \A b \in B : write[b].pc = "idle",
           write' \in [Writers -> Write],
           \A b \in B : write'[b].pc = "open" /\ write'[b].content = [state |-> "whole", body |-> doc.body],
           \A v \in Writers : v \notin B => write'[v] = write[v],
           overlap' \in [Channels -> BOOLEAN], timer' \in [Channels -> BOOLEAN],
           \A b \in B : overlap'[Channel(b)] <=> overlap[Channel(b)] \/ InFlight(Channel(b)) # {},
           \A c \in Channels : (\A b \in B : Channel(b) # c) =>
              overlap'[c] = overlap[c] /\ timer'[c] = timer[c],
           \A c \in Channels : timer'[c] => timer[c],
           starts' = starts, host' \in {"up", "stopping", "down"}, doc' = doc, made' = made,
           faults' = faults, tmp' = tmp, file' = file, promised' = promised,
           call' \in [Callers -> Call],
           \/ call' = call
           \/ \E p \in Callers :
                /\ \A q \in Callers : q # p => call'[q] = call[q]
                /\ call'[p].pc = "writing" /\ call'[p].waits = B /\ call'[p].body = doc.body
                /\ p = "signal" => call'[p].then = "exit"
                /\ \A c \in Channels : ~timer'[c] /\ \E b \in B : Channel(b) = c
    PROVE  Inv'
<1>1. TypeOK'
  BY DEF Inv, TypeOK
<1>2. /\ \A c \in Channels : \A v : v \in InFlight(c)' <=> \/ v \in InFlight(c)
                                                           \/ v \in B /\ Channel(v) = c
      /\ \A v : v \in Flying' <=> v \in Flying \/ v \in B
  <2>1. \A v \in Writers : write'[v].pc # "idle" <=> v \in B \/ write[v].pc # "idle"
    OBVIOUS
  <2>. QED BY <2>1, InFlights
<1>3. /\ \A c \in Channels : \A v \in InFlight(c) :
            v \in Writers /\ Channel(v) = c /\ v \notin B /\ write'[v] = write[v]
      /\ \A b \in B : b \in Writers /\ Channel(b) \in Channels
  BY InFlights, ChannelOf
<1>4. ASSUME NEW b \in B, ~overlap'[Channel(b)]
      PROVE  ~overlap[Channel(b)] /\ InFlight(Channel(b)) = {} /\ InFlight(Channel(b))' = {b}
  <2>1. ~overlap[Channel(b)] /\ InFlight(Channel(b)) = {} /\ Channel(b) \in Channels
    BY <1>3, <1>4
  <2>2. \A v : v \in InFlight(Channel(b))' <=> v = b
    BY <1>2, <2>1
  <2>. QED BY <2>1, <2>2
<1>5. ASSUME NEW c \in Channels, \A b \in B : Channel(b) # c
      PROVE  InFlight(c)' = InFlight(c) /\ overlap'[c] = overlap[c] /\ timer'[c] = timer[c]
  <2>1. \A v : v \in InFlight(c)' <=> v \in InFlight(c)
    BY <1>2, <1>5
  <2>. QED BY <1>5, <2>1
<1>6. \A c \in Channels : ~overlap'[c] => ~overlap[c]
  BY <1>4, <1>5
<1>7. /\ \A p \in Callers : \/ call'[p] = call[p]
                            \/ call'[p].waits = B /\ call'[p].pc = "writing"
      /\ \/ call'["request"] = call["request"]
         \/ call'["request"].body = doc.body /\ \A c \in Channels : ~timer'[c]
      /\ call'["signal"] = call["signal"] \/ call'["signal"].then = "exit"
  BY DEF Callers
<1>8. Flow'
  <2>1. \A p \in Callers : call'[p].waits \subseteq Flying'
    BY <1>2, <1>7 DEF Inv, Flow
  <2>2. \A v \in Writers : write'[v].pc = "idle" => write'[v] = Idle
    BY DEF Inv, Flow
  <2>. QED BY <1>7, <2>1, <2>2 DEF Inv, Flow
<1>9. ASSUME NEW c \in Channels, ~overlap'[c] PROVE Alone(c)'
  <2>1. Alone(c)
    BY <1>6, <1>9 DEF Inv
  <2>2. CASE \A b \in B : Channel(b) # c
    BY <1>3, <1>5, <2>1, <2>2 DEF Alone
  <2>3. ASSUME NEW b \in B, Channel(b) = c PROVE Alone(c)'
    BY <1>4, <1>9, <2>1, <2>3 DEF Alone
  <2>. QED BY <2>2, <2>3
<1>10. ASSUME ~overlap'["sidecar"] PROVE Saving'
  <2>0. "sidecar" \in Channels /\ "request" \in Callers
    BY DEF Channels, Callers
  <2>1. Saving
    BY <1>6, <1>10, <2>0 DEF Inv
  <2>2. CASE \A b \in B : Channel(b) # "sidecar"
    <3>1. call'["request"] = call["request"]
      BY <2>0, <2>2
    <3>. QED BY <1>3, <1>5, <2>0, <2>1, <2>2, <3>1 DEF Saving
  <2>3. ASSUME NEW b \in B, Channel(b) = "sidecar" PROVE Saving'
    <3>1. InFlight("sidecar") = {} /\ InFlight("sidecar")' = {b}
      BY <1>4, <1>10, <2>3
    <3>2. write'[b].content.body = doc.body
      OBVIOUS
    <3>3. CASE call'["request"] = call["request"]
      BY <2>1, <3>1, <3>2, <3>3 DEF Saving
    <3>4. CASE call'["request"].waits = B
      BY <2>1, <3>1, <3>2, <3>4 DEF Saving
    <3>. QED BY <1>7, <2>0, <3>3, <3>4
  <2>. QED BY <2>2, <2>3
<1>11. ASSUME AllAlone' PROVE Kept'
  <2>1. AllAlone /\ Kept
    BY <1>6, <1>11 DEF Inv, AllAlone
  <2>2. ASSUME NEW c \in Channels, NEW b \in SUBSET doc.body, Covered(c, b)
        PROVE  b \subseteq file'[c].body /\ \A v \in InFlight(c)' : b \subseteq write'[v].content.body
    BY <1>2, <1>3, <2>2 DEF Covered
  <2>3. \A c \in Channels : Covered(c, promised)'
    BY <2>1, <2>2 DEF Kept, Covered
  <2>4. CASE call' = call
    <3>1. ASSUME NEW p \in Callers, call[p].pc # "none" PROVE Flushing(p)'
      <4>1. Flushing(p)
        BY <2>1, <3>1 DEF Kept
      <4>2. ASSUME NEW c \in Channels
            PROVE  \/ Covered(c, call[p].body)'
                   \/ \E v \in InFlight(c)' :
                        v \in call'[p].waits /\ call'[p].body \subseteq write'[v].content.body
        <5>1. CASE Covered(c, call[p].body)
          BY <2>2, <2>4, <4>1, <5>1 DEF Covered, Flushing
        <5>2. CASE \E v \in InFlight(c) :
                     v \in call[p].waits /\ call[p].body \subseteq write[v].content.body
          BY <1>2, <1>3, <2>4, <5>2
        <5>. QED BY <4>1, <5>1, <5>2 DEF Flushing
      <4>. QED BY <2>4, <4>1, <4>2 DEF Flushing
    <3>. QED BY <2>1, <2>3, <2>4, <3>1 DEF Kept
  <2>5. ASSUME NEW p \in Callers,
               \A q \in Callers : q # p => call'[q] = call[q],
               call'[p].pc = "writing", call'[p].waits = B, call'[p].body = doc.body,
               \A c \in Channels : \E b \in B : Channel(b) = c
        PROVE  Kept'
    <3>1. \A c \in Channels : InFlight(c) = {}
      BY <1>4, <1>11, <2>5 DEF AllAlone
    <3>2. \A v : v \notin Flying
      BY <3>1, InFlights, ChannelOf
    <3>3. \A q \in Callers : call[q].pc = "none"
      BY <3>2 DEF Inv, Flow, Settling
    <3>4. \A c \in Channels : \E v \in InFlight(c)' :
             v \in call'[p].waits /\ call'[p].body \subseteq write'[v].content.body
      BY <1>2, <2>5
    <3>5. Flushing(p)'
      BY <2>5, <3>3, <3>4 DEF Flushing
    <3>6. \A q \in Callers : call'[q].pc # "none" => q = p
      BY <2>5, <3>3
    <3>. QED BY <2>1, <2>3, <3>5, <3>6 DEF Kept
  <2>. QED BY <2>4, <2>5
<1>12. ASSUME NEW c \in Channels, ~overlap'[c], faults' = 0 PROVE Fresh(c)'
  <2>1. Fresh(c)
    BY <1>6, <1>12 DEF Inv
  <2>2. CASE \A b \in B : Channel(b) # c
    BY <1>3, <1>5, <2>1, <2>2 DEF Fresh
  <2>3. ASSUME NEW b \in B, Channel(b) = c PROVE Fresh(c)'
    <3>1. InFlight(c)' = {b} /\ write'[b].content.body = doc.body
      BY <1>4, <1>12, <2>3
    <3>. QED BY <3>1 DEF Fresh
  <2>. QED BY <2>2, <2>3
<1>13. /\ "sidecar" \in Channels /\ "markdown" \in Channels /\ "request" \in Callers
       /\ \A b \in B : write'[b].content.body = doc.body /\ write'[b].content.state = "whole"
       /\ \A v \in Flying : v \in Writers /\ v \notin B /\ write'[v] = write[v]
       /\ \A v \in Flying' : v \in B \/ v \in Flying
  BY <1>2, InFlights DEF Channels, Callers
<1>14. Made'
  <2>1. \A v \in Writers : write'[v].content.body \cap Edits \subseteq made
    BY <1>13 DEF Inv, Made
  <2>. QED BY <2>1 DEF Inv, Made
<1>15. Stored'
  <2>1. \A v \in Flying' : write'[v].content.state = "whole"
    BY <1>13 DEF Inv, Stored
  <2>2. ASSUME call'["request"].pc # "none"
        PROVE  \/ file'["sidecar"].state # "none"
               \/ \E v \in InFlight("sidecar")' : v \in call'["request"].waits
    <3>1. CASE call'["request"] = call["request"]
      BY <1>2, <1>13, <2>2, <3>1 DEF Inv, Stored
    <3>2. CASE call'["request"] # call["request"]
      <4>1. PICK b \in B : Channel(b) = "sidecar"
        BY <1>13, <3>2
      <4>. QED BY <1>2, <1>7, <1>13, <3>2, <4>1
    <3>. QED BY <3>1, <3>2
  <2>. QED BY <2>1, <2>2 DEF Stored
<1>16. OneView'
  <2>1. PICK O \in SUBSET OutsideEdits : Seen(O)
    BY DEF Inv, OneView
  <2>2. \A v \in Flying' : write'[v].content.body \cap OutsideEdits = O
    BY <1>13, <2>1 DEF Seen
  <2>3. ASSUME NEW v \in InFlight("sidecar")', write'[v].pc \in {"write", "rename"}
        PROVE  v \in InFlight("sidecar") /\ write[v].pc \in {"write", "rename"}
    BY <1>2, <1>3, <1>13, <2>3
  <2>4. Seen(O)'
    BY <2>1, <2>2, <2>3 DEF Seen, Sees
  <2>. QED BY <2>4 DEF OneView
<1>17. ASSUME ~overlap'["markdown"] PROVE Twin'
  <2>1. Twin
    BY <1>6, <1>13, <1>17 DEF Inv
  <2>2. CASE \A b \in B : Channel(b) # "markdown"
    <3>1. InFlight("markdown")' = InFlight("markdown") /\ call'["request"] = call["request"]
      BY <1>5, <1>13, <2>2
    <3>. QED BY <1>3, <1>13, <2>1, <3>1 DEF Twin
  <2>3. ASSUME NEW b \in B, Channel(b) = "markdown" PROVE Twin'
    <3>1. InFlight("markdown") = {} /\ InFlight("markdown")' = {b}
      BY <1>4, <1>17, <2>3
    <3>2. CASE call'["request"] = call["request"]
      BY <1>13, <2>1, <3>1, <3>2 DEF Twin
    <3>3. CASE call'["request"].waits = B
      BY <1>13, <2>1, <3>1, <3>3 DEF Twin
    <3>. QED BY <1>7, <1>13, <3>2, <3>3
  <2>. QED BY <2>2, <2>3
<1>. QED BY <1>1, <1>8, <1>9, <1>10, <1>11, <1>12, <1>14, <1>15, <1>16, <1>17 DEF Inv

\* A debounce timer runs out,
LEMMA TimerFiresKeeps ==
    ASSUME Inv, NEW c \in Channels, NEW w \in Writers, TimerFires(c, w) PROVE Inv'
<1>. DEFINE B == {w}
<1>1. /\ write \in [Writers -> Write] /\ call \in [Callers -> Call] /\ doc \in Handle
      /\ timer \in [Channels -> BOOLEAN] /\ overlap \in [Channels -> BOOLEAN]
      /\ host \in {"up", "stopping", "down"}
  BY DEF Inv, TypeOK
<1>2. /\ ~Settling /\ timer[c] /\ Channel(w) = c /\ write[w].pc = "idle"
      /\ timer' = [timer EXCEPT ![c] = FALSE]
      /\ write' = [write EXCEPT ![w] = Begun(c, "timer")]
      /\ overlap' = [overlap EXCEPT ![c] = overlap[c] \/ InFlight(c) # {}]
      /\ host' = host /\ starts' = starts /\ faults' = faults /\ doc' = doc /\ made' = made
      /\ tmp' = tmp /\ file' = file /\ call' = call /\ promised' = promised
  BY ChannelOf DEF TimerFires, Listening
<1>3. doc.open
  BY <1>2 DEF Inv, Flow
<1>4. Begun(c, "timer") \in Write
  BY <1>1 DEF Begun, Encoded, Write, Content, Handle
<1>5. /\ B \in SUBSET Writers
      /\ \A a, b \in B : Channel(a) = Channel(b) => a = b
      /\ \A b \in B : write[b].pc = "idle"
  BY <1>2
<1>6. /\ write' \in [Writers -> Write]
      /\ \A b \in B : write'[b].pc = "open" /\ write'[b].content = [state |-> "whole", body |-> doc.body]
      /\ \A v \in Writers : v \notin B => write'[v] = write[v]
  BY <1>1, <1>2, <1>4 DEF Begun, Encoded
<1>7. /\ overlap' \in [Channels -> BOOLEAN] /\ timer' \in [Channels -> BOOLEAN]
      /\ \A b \in B : overlap'[Channel(b)] <=> overlap[Channel(b)] \/ InFlight(Channel(b)) # {}
      /\ \A d \in Channels : (\A b \in B : Channel(b) # d) =>
            overlap'[d] = overlap[d] /\ timer'[d] = timer[d]
      /\ \A d \in Channels : timer'[d] => timer[d]
  BY <1>1, <1>2
<1>8. call' \in [Callers -> Call] /\ host' \in {"up", "stopping", "down"}
  BY <1>1, <1>2
<1>. HIDE DEF B
<1>. QED BY <1>2, <1>3, <1>5, <1>6, <1>7, <1>8, BeginsKeep

\* or a call flushes both channels.
LEMMA BeginFlushKeeps ==
    ASSUME Inv, doc.open, ~Settling, NEW p \in Callers,
           NEW then \in {"answer", "destroy", "exit"}, p = "signal" => then = "exit",
           NEW s \in SidecarWriters, NEW m \in MarkdownWriters, BeginFlush(p, then, s, m),
           host' \in {"up", "stopping", "down"}, starts' = starts, faults' = faults,
           doc' = doc, made' = made, tmp' = tmp, file' = file, promised' = promised
    PROVE  Inv'
<1>. DEFINE B == {s, m}
            new == [pc |-> "writing", waits |-> B, body |-> doc.body, then |-> then]
<1>1. /\ write \in [Writers -> Write] /\ call \in [Callers -> Call] /\ doc \in Handle
      /\ timer \in [Channels -> BOOLEAN] /\ overlap \in [Channels -> BOOLEAN]
  BY DEF Inv, TypeOK
<1>2. /\ s \in Writers /\ m \in Writers /\ s # m
      /\ Channel(s) = "sidecar" /\ Channel(m) = "markdown"
  BY ConstantsOK DEF Writers, Channel
<1>3. /\ write[s].pc = "idle" /\ write[m].pc = "idle"
      /\ timer' = [c \in Channels |-> FALSE]
      /\ write' = [w \in Writers |-> CASE w = s -> Begun("sidecar", "call")
                                       [] w = m -> Begun("markdown", "call")
                                       [] OTHER -> write[w]]
      /\ overlap' = [c \in Channels |-> overlap[c] \/ InFlight(c) # {}]
      /\ call' = [call EXCEPT ![p] = new]
  BY DEF BeginFlush
<1>4. \A c \in Channels : Begun(c, "call") \in Write
  BY <1>1 DEF Begun, Encoded, Write, Content, Handle
<1>5. /\ B \in SUBSET Writers
      /\ \A a, b \in B : Channel(a) = Channel(b) => a = b
      /\ \A b \in B : write[b].pc = "idle"
  BY <1>2, <1>3
<1>6. /\ write' \in [Writers -> Write]
      /\ \A b \in B : write'[b].pc = "open" /\ write'[b].content = [state |-> "whole", body |-> doc.body]
      /\ \A v \in Writers : v \notin B => write'[v] = write[v]
  <2>1. write'[s] = Begun("sidecar", "call") /\ write'[m] = Begun("markdown", "call")
    BY <1>2, <1>3
  <2>2. \A v \in Writers : v # s /\ v # m => write'[v] = write[v]
    BY <1>3
  <2>3. /\ Begun("sidecar", "call") \in Write /\ Begun("markdown", "call") \in Write
    BY <1>4 DEF Channels
  <2>4. \A v \in Writers : write'[v] \in Write
    BY <1>1, <2>1, <2>2, <2>3
  <2>5. write' \in [Writers -> Write]
    BY <1>3, <2>4
  <2>. QED BY <2>1, <2>2, <2>5 DEF Begun, Encoded
<1>7. /\ overlap' \in [Channels -> BOOLEAN] /\ timer' \in [Channels -> BOOLEAN]
      /\ \A b \in B : overlap'[Channel(b)] <=> overlap[Channel(b)] \/ InFlight(Channel(b)) # {}
      /\ \A c \in Channels : timer'[c] => timer[c]
  <2>1. \A b \in B : Channel(b) \in Channels
    BY <1>2 DEF Channels
  <2>. QED BY <1>1, <1>3, <2>1
<1>8. \A c \in Channels : ~timer'[c] /\ \E b \in B : Channel(b) = c
  BY <1>2, <1>3 DEF Channels
<1>9. \A c \in Channels : (\A b \in B : Channel(b) # c) => overlap'[c] = overlap[c] /\ timer'[c] = timer[c]
  BY <1>8
<1>10. new \in Call
  BY <1>1, <1>5 DEF Call, Handle
<1>11. /\ call' \in [Callers -> Call]
       /\ \A q \in Callers : q # p => call'[q] = call[q]
       /\ call'[p].pc = "writing" /\ call'[p].waits = B /\ call'[p].body = doc.body
       /\ p = "signal" => call'[p].then = "exit"
  BY <1>1, <1>3, <1>10
<1>. HIDE DEF B, new
<1>12. \/ call' = call
       \/ \E q \in Callers :
            /\ \A r \in Callers : r # q => call'[r] = call[r]
            /\ call'[q].pc = "writing" /\ call'[q].waits = B /\ call'[q].body = doc.body
            /\ q = "signal" => call'[q].then = "exit"
            /\ \A c \in Channels : ~timer'[c] /\ \E b \in B : Channel(b) = c
  BY <1>8, <1>11
<1>. QED BY <1>5, <1>6, <1>7, <1>9, <1>11, <1>12, BeginsKeep

\* doc.flush and vault.close,
LEMMA FlushKeeps ==
    ASSUME Inv, NEW then \in {"answer", "destroy"}, Flush(then) PROVE Inv'
<1>1. PICK s \in SidecarWriters, m \in MarkdownWriters : BeginFlush("request", then, s, m)
  BY DEF Flush
<1>2. /\ doc.open /\ ~Settling /\ host' = host /\ starts' = starts /\ faults' = faults
      /\ doc' = doc /\ made' = made /\ tmp' = tmp /\ file' = file /\ promised' = promised
  BY DEF Flush, Ready, Listening
<1>3. /\ then \in {"answer", "destroy", "exit"} /\ "request" \in Callers
      /\ host' \in {"up", "stopping", "down"}
      /\ "request" = "signal" => then = "exit"
  BY <1>2 DEF Callers, Inv, TypeOK
<1>. QED BY <1>1, <1>2, <1>3, BeginFlushKeeps

\* and SIGTERM.
LEMMA StopKeeps == ASSUME Inv, Stop PROVE Inv'
<1>1. /\ starts' = starts /\ faults' = faults /\ made' = made /\ tmp' = tmp /\ file' = file
      /\ promised' = promised /\ ~Settling
  BY DEF Stop, Listening
<1>2. /\ faults' \in 0 .. MaxFaults /\ tmp' \in [Channels -> Content] /\ promised' \subseteq Text
      /\ \A c \in Channels : tmp'[c] = tmp[c] \/ tmp'[c] = NoFile
      /\ AllAlone => \A c \in Channels : promised' \subseteq file[c].body
  BY <1>1 DEF Inv, TypeOK, Kept, Covered
<1>3. CASE /\ doc.open /\ host' = "stopping" /\ doc' = doc
           /\ \E s \in SidecarWriters, m \in MarkdownWriters : BeginFlush("signal", "exit", s, m)
  <2>1. PICK s \in SidecarWriters, m \in MarkdownWriters : BeginFlush("signal", "exit", s, m)
    BY <1>3
  <2>2. /\ "exit" \in {"answer", "destroy", "exit"} /\ "signal" \in Callers
        /\ host' \in {"up", "stopping", "down"} /\ "signal" = "signal" => "exit" = "exit"
    BY <1>3 DEF Callers
  <2>. QED BY <1>1, <1>3, <2>1, <2>2, BeginFlushKeeps
<1>4. CASE Gone /\ overlap' = overlap
  BY <1>1, <1>2, <1>4, GoneKeeps
<1>. QED BY <1>3, <1>4 DEF Stop

-----------------------------------------------------------------------------
(* The process and the document.                                           *)

\* The host starts,
LEMMA StartKeeps == ASSUME Inv, Start PROVE Inv'
<1>1. starts \in 0 .. MaxStarts /\ MaxStarts \in Nat
  BY ConstantsOK DEF Inv, TypeOK
<1>2. /\ host' = "up" /\ starts' \in 0 .. MaxStarts
      /\ UNCHANGED <<faults, doc, made, timer, write, tmp, file, call, promised, overlap>>
  BY <1>1 DEF Start
<1>3. TypeOK'
  BY <1>2 DEF Inv, TypeOK
<1>4. /\ \A c \in Channels : InFlight(c)' = InFlight(c)
      /\ Flying' = Flying
  BY <1>2 DEF InFlight, Flying
<1>5. Flow' /\ \A c \in Channels : Alone(c) => Alone(c)'
  BY <1>2, <1>4 DEF Inv, Flow, Alone
<1>6. "sidecar" \in Channels
  BY DEF Channels
<1>7. Saving => Saving'
  BY <1>2, <1>4, <1>6 DEF Saving
<1>8. \A c \in Channels : Fresh(c) => Fresh(c)'
  BY <1>2, <1>4 DEF Fresh
<1>9. Kept => Kept'
  <2>1. \A c \in Channels : Covered(c, promised) => Covered(c, promised)'
    BY <1>2, <1>4 DEF Covered
  <2>2. \A p \in Callers : Flushing(p) => Flushing(p)'
    BY <1>2, <1>4 DEF Flushing, Covered
  <2>. QED BY <1>2, <2>1, <2>2 DEF Kept
<1>10. Made' /\ Stored' /\ OneView'
  BY <1>2, <1>4, <1>6 DEF Inv, Made, Stored, OneView, Seen, Sees
<1>11. Twin => Twin'
  BY <1>2, <1>4 DEF Twin, Channels
<1>. QED BY <1>2, <1>3, <1>5, <1>7, <1>8, <1>9, <1>10, <1>11 DEF Inv, AllAlone

\* dies,
LEMMA DieKeeps == ASSUME Inv, Die PROVE Inv'
<1>1. /\ Gone /\ file' = file /\ overlap' = overlap /\ made' = made /\ starts' = starts
      /\ faults' = faults /\ tmp' = tmp /\ promised' = promised
  BY DEF Die
<1>2. /\ faults' \in 0 .. MaxFaults /\ tmp' \in [Channels -> Content] /\ promised' \subseteq Text
      /\ \A c \in Channels : tmp'[c] = tmp[c] \/ tmp'[c] = NoFile
      /\ AllAlone => \A c \in Channels : promised' \subseteq file[c].body
  BY <1>1 DEF Inv, TypeOK, Kept, Covered
<1>. QED BY <1>1, <1>2, GoneKeeps

\* loads the document from its files,
LEMMA OpenDocumentKeeps == ASSUME Inv, OpenDocument PROVE Inv'
<1>1. /\ ~doc.open /\ ~Settling /\ call["request"].pc = "none"
      /\ doc' = Loaded /\ timer' = [c \in Channels |-> Loaded.body # {}]
      /\ UNCHANGED <<host, starts, faults, made, write, tmp, file, call, promised, overlap>>
  BY DEF OpenDocument, Ready, Listening
<1>2. /\ file["sidecar"] \in Content /\ file["markdown"] \in Content /\ "sidecar" \in Channels
  BY DEF Inv, TypeOK, Channels
<1>3. /\ doc'.open /\ doc' \in Handle
      /\ file["sidecar"].state # "none" => doc'.body = file["sidecar"].body
      /\ doc'.body = file["sidecar"].body \/ doc'.body = file["markdown"].body
  BY <1>1, <1>2 DEF Loaded, Handle, Content
<1>4. TypeOK'
  BY <1>1, <1>3 DEF Inv, TypeOK
<1>5. /\ \A c \in Channels : InFlight(c)' = InFlight(c)
      /\ Flying' = Flying
  BY <1>1 DEF InFlight, Flying
<1>6. Flow' /\ \A c \in Channels : Alone(c) => Alone(c)'
  BY <1>1, <1>3, <1>5 DEF Inv, Flow, Alone
<1>7. ~overlap["sidecar"] => Saving'
  <2>. SUFFICES ASSUME ~overlap["sidecar"] PROVE Saving'
       OBVIOUS
  <2>1. Saving /\ Alone("sidecar")
    BY <1>2 DEF Inv
  <2>2. file["sidecar"].body \subseteq doc'.body
    BY <1>3, <2>1 DEF Alone, NoFile
  <2>3. \A w \in InFlight("sidecar")' : write'[w].content = file'["sidecar"]
    BY <1>1, <1>2, <1>5, <2>1 DEF Saving
  <2>4. file' = file /\ call'["request"].pc = "none"
    BY <1>1
  <2>. QED BY <1>3, <2>2, <2>3, <2>4 DEF Saving
<1>8. ASSUME AllAlone PROVE Kept'
  <2>1. Kept
    BY <1>8 DEF Inv
  <2>2. \A c \in Channels : Covered(c, promised)'
    BY <1>1, <1>5, <2>1 DEF Kept, Covered
  <2>3. promised \subseteq doc'.body
    BY <1>3, <2>1 DEF Kept, Covered, Channels
  <2>4. \A p \in Callers : call[p].pc = "none"
    BY <1>1, <2>1 DEF Kept, Flushing
  <2>. QED BY <1>1, <2>2, <2>3, <2>4 DEF Kept
<1>9. \A c \in Channels : Fresh(c)'
  BY <1>1, <1>3 DEF Fresh
<1>10. /\ file["sidecar"].state # "empty"
       /\ file["sidecar"].state = "none" => Flying = {}
       /\ \A w \in InFlight("markdown") : w \in Flying
       /\ \A w \in InFlight("sidecar") : w \in Flying
       /\ "markdown" \in Channels
  BY <1>1 DEF OpenDocument, Flying, Channels, Inv, Stored
<1>11. Made'
  BY <1>1, <1>2, <1>3 DEF Inv, Made, Channels
<1>12. Stored'
  BY <1>1, <1>3, <1>5 DEF Inv, Stored
<1>13. PICK O \in SUBSET OutsideEdits : Seen(O)
  BY DEF Inv, OneView
<1>14. OneView'
  <2>1. CASE file["sidecar"].state = "none"
    <3>1. Flying' = {} /\ InFlight("sidecar")' = {} /\ file' = file
      BY <1>1, <1>2, <1>5, <1>10, <2>1
    <3>2. PICK P \in SUBSET OutsideEdits : P = doc'.body \cap OutsideEdits
      OBVIOUS
    <3>3. Seen(P)'
      BY <2>1, <3>1, <3>2 DEF Seen, Sees
    <3>. QED BY <3>3 DEF OneView
  <2>2. CASE file["sidecar"].state # "none"
    <3>1. doc'.body \cap OutsideEdits = O
      BY <1>3, <1>10, <1>13, <2>2 DEF Seen, Sees
    <3>2. Seen(O)'
      BY <1>1, <1>2, <1>5, <1>13, <3>1 DEF Seen, Sees
    <3>. QED BY <3>2 DEF OneView
  <2>. QED BY <2>1, <2>2
<1>15. ASSUME ~overlap["markdown"] PROVE Twin'
  <2>1. ASSUME NEW w \in InFlight("markdown")
        PROVE  file["markdown"].body \cap doc'.body \subseteq write[w].content.body
    <3>1. file["sidecar"].state # "none"
      BY <1>10
    <3>2. doc'.body \cap OutsideEdits = write[w].content.body \cap OutsideEdits
      BY <1>3, <1>10, <1>13, <3>1 DEF Seen, Sees
    <3>3. file["markdown"].body \subseteq write[w].content.body \cup OutsideEdits
      BY <1>1, <1>15 DEF Inv, Twin
    <3>. QED BY <3>2, <3>3
  <2>2. InFlight("markdown")' = InFlight("markdown")
    BY <1>5, <1>10
  <2>. QED BY <1>1, <1>3, <2>1, <2>2 DEF Twin
<1>. QED BY <1>1, <1>4, <1>6, <1>7, <1>8, <1>9, <1>11, <1>12, <1>14, <1>15 DEF Inv, AllAlone

\* takes an update,
LEMMA ApplyKeeps == ASSUME Inv, NEW e \in Edits, Apply(e) PROVE Inv'
<1>1. /\ doc.open /\ call["request"].pc = "none"
      /\ doc' = [doc EXCEPT !.body = doc.body \cup {e}]
      /\ made' = made \cup {e} /\ timer' = [c \in Channels |-> TRUE]
      /\ UNCHANGED <<host, starts, faults, write, tmp, file, call, promised, overlap>>
  BY DEF Apply, Ready, Debounced
<1>2. doc \in Handle /\ e \in Text
  BY DEF Inv, TypeOK, Text
<1>3. doc' \in Handle /\ doc'.open /\ doc'.body = doc.body \cup {e}
  BY <1>1, <1>2 DEF Handle
<1>4. TypeOK'
  BY <1>1, <1>3 DEF Inv, TypeOK
<1>5. /\ \A c \in Channels : InFlight(c)' = InFlight(c)
      /\ Flying' = Flying
  BY <1>1 DEF InFlight, Flying
<1>6. Flow' /\ \A c \in Channels : Alone(c) => Alone(c)'
  BY <1>1, <1>3, <1>5 DEF Inv, Flow, Alone
<1>7. Saving => Saving'
  <2>1. InFlight("sidecar")' = InFlight("sidecar")
    BY <1>5 DEF Channels
  <2>. QED BY <1>1, <1>3, <2>1 DEF Saving
<1>8. ASSUME Kept PROVE Kept'
  <2>1. \A c \in Channels : Covered(c, promised)'
    BY <1>1, <1>5, <1>8 DEF Kept, Covered
  <2>2. \A p \in Callers : Flushing(p) => Flushing(p)'
    BY <1>1, <1>3, <1>5 DEF Flushing, Covered
  <2>. QED BY <1>1, <1>3, <1>8, <2>1, <2>2 DEF Kept
<1>9. \A c \in Channels : Fresh(c)'
  BY <1>1 DEF Fresh
<1>10. "sidecar" \in Channels /\ "markdown" \in Channels /\ e \notin made /\ e \notin OutsideEdits
  BY ConstantsOK DEF Channels, Apply
<1>11. Made'
  BY <1>1, <1>3 DEF Inv, Made
<1>12. Stored'
  BY <1>1, <1>3, <1>5, <1>10 DEF Inv, Stored
<1>13. OneView'
  <2>1. PICK O \in SUBSET OutsideEdits : Seen(O)
    BY DEF Inv, OneView
  <2>2. doc'.body \cap OutsideEdits = O
    BY <1>1, <1>3, <1>10, <2>1 DEF Seen
  <2>3. Seen(O)'
    BY <1>1, <1>5, <1>10, <2>1, <2>2 DEF Seen, Sees
  <2>. QED BY <2>3 DEF OneView
<1>14. Twin => Twin'
  <2>1. file["markdown"].body \cap doc'.body \subseteq doc.body
    BY <1>3, <1>10 DEF Inv, Made
  <2>. QED BY <1>1, <1>3, <1>5, <1>10, <2>1 DEF Twin
<1>. QED BY <1>1, <1>4, <1>6, <1>7, <1>8, <1>9, <1>11, <1>12, <1>13, <1>14 DEF Inv, AllAlone

\* and another program adds to the markdown.
LEMMA OutsideEditKeeps == ASSUME Inv, NEW x \in OutsideEdits, OutsideEdit(x) PROVE Inv'
<1>1. /\ file["markdown"].state = "whole"
      /\ UNCHANGED <<host, starts, faults, doc, made, timer, write, tmp, call, promised, overlap>>
  BY DEF OutsideEdit
<1>2. PICK old, new : /\ old = file["markdown"] /\ file' = [file EXCEPT !["markdown"] = new]
                      /\ new = [old EXCEPT !.body = old.body \cup {x}]
  <2>1. file' = [file EXCEPT !["markdown"] =
                   [file["markdown"] EXCEPT !.body = file["markdown"].body \cup {x}]]
    BY DEF OutsideEdit
  <2>. QED BY <2>1, Zenon
<1>3. /\ file \in [Channels -> Content] /\ "markdown" \in Channels /\ "sidecar" \in Channels
      /\ "sidecar" # "markdown" /\ x \in Text
  BY DEF Inv, TypeOK, Channels, Text
<1>4. new \in Content /\ new.state = "whole" /\ old.body \subseteq new.body
  <2>1. old \in Content /\ old.state = "whole" /\ old.body \cup {x} \in SUBSET Text
    BY <1>1, <1>2, <1>3 DEF Content
  <2>2. new \in Content /\ new.state = old.state /\ new.body = old.body \cup {x}
    BY <1>2, <2>1, Zenon DEF Content
  <2>. QED BY <2>1, <2>2
<1>5. /\ file' \in [Channels -> Content] /\ file'["markdown"] = new
      /\ \A c \in Channels : /\ c # "markdown" => file'[c] = file[c]
                             /\ file[c].body \subseteq file'[c].body
  BY <1>2, <1>3, <1>4
<1>6. TypeOK'
  BY <1>1, <1>5 DEF Inv, TypeOK
<1>7. /\ \A c \in Channels : InFlight(c)' = InFlight(c)
      /\ Flying' = Flying
  BY <1>1 DEF InFlight, Flying
<1>8. Flow'
  BY <1>1, <1>7 DEF Inv, Flow
<1>9. ASSUME NEW c \in Channels, Alone(c) PROVE Alone(c)'
  <2>1. file'[c] = NoFile \/ file'[c].state = "whole"
    BY <1>5, <1>9, <1>4 DEF Alone
  <2>. QED BY <1>1, <1>7, <1>9, <2>1 DEF Alone
<1>10. Saving => Saving'
  <2>1. InFlight("sidecar")' = InFlight("sidecar") /\ file'["sidecar"] = file["sidecar"]
    BY <1>3, <1>5, <1>7
  <2>. QED BY <1>1, <2>1 DEF Saving
<1>11. ASSUME Kept PROVE Kept'
  <2>1. \A c \in Channels : Covered(c, promised)'
    BY <1>1, <1>5, <1>7, <1>11 DEF Kept, Covered
  <2>2. \A p \in Callers : Flushing(p) => Flushing(p)'
    BY <1>1, <1>5, <1>7 DEF Flushing, Covered
  <2>. QED BY <1>1, <1>11, <2>1, <2>2 DEF Kept
<1>12. \A c \in Channels : Fresh(c) => Fresh(c)'
  BY <1>1, <1>5, <1>7 DEF Fresh
<1>13. /\ file'["sidecar"] = file["sidecar"] /\ file'["markdown"].body = file["markdown"].body \cup {x}
       /\ x \notin Edits
       /\ \A w \in InFlight("markdown") : w \in Flying
  <2>1. old \in Content /\ old.body \cup {x} \in SUBSET Text
    BY <1>2, <1>3 DEF Content
  <2>2. new.body = old.body \cup {x}
    BY <1>2, <2>1, Zenon DEF Content
  <2>. QED BY ConstantsOK, <1>2, <1>3, <1>5, <2>2 DEF Flying
<1>14. Made'
  <2>1. \A c \in Channels : file'[c].body \cap Edits \subseteq file[c].body
    BY <1>3, <1>5, <1>13 DEF Channels
  <2>. QED BY <1>1, <2>1 DEF Inv, Made
<1>15. Stored'
  BY <1>1, <1>3, <1>7, <1>13 DEF Inv, Stored
<1>16. PICK O \in SUBSET OutsideEdits : Seen(O)
  BY DEF Inv, OneView
<1>17. OneView'
  <2>1. Seen(O)'
    BY <1>1, <1>3, <1>7, <1>13, <1>16 DEF Seen, Sees
  <2>. QED BY <2>1 DEF OneView
<1>18. Twin => Twin'
  <2>. SUFFICES ASSUME Twin PROVE Twin'
       OBVIOUS
  <2>1. doc.open => \A w \in InFlight("markdown") : x \in doc.body => x \in write[w].content.body
    BY <1>13, <1>16 DEF Seen
  <2>. QED BY <1>1, <1>3, <1>7, <1>13, <2>1 DEF Twin
<1>. QED BY <1>1, <1>6, <1>8, <1>9, <1>10, <1>11, <1>12, <1>14, <1>15, <1>17, <1>18 DEF Inv, AllAlone

-----------------------------------------------------------------------------
(* A call goes on.                                                         *)

\* Its own writes are done: they brought what it covers.
LEMMA DrainKeeps == ASSUME Inv, NEW p \in Callers, Drain(p) PROVE Inv'
<1>. DEFINE ws == {w \in Flying : write[w].by = "timer"}
<1>1. /\ call[p].pc = "writing" /\ call[p].waits = {}
      /\ UNCHANGED <<host, starts, faults, doc, made, timer, write, tmp, file, promised, overlap>>
  BY DEF Drain
<1>2. call \in [Callers -> Call] /\ ws \subseteq Writers /\ ws \subseteq Flying
  BY InFlights DEF Inv, TypeOK
<1>3. /\ call'[p] \in Call /\ call'[p].pc = "draining" /\ call'[p].waits = ws
      /\ call'[p].body = call[p].body /\ call'[p].then = call[p].then
      /\ \A q \in Callers : q # p => call'[q] = call[q]
      /\ call' \in [Callers -> Call]
  <2>1. PICK r, n : /\ r = call[p] /\ call' = [call EXCEPT ![p] = n]
                    /\ n = [r EXCEPT !.pc = "draining", !.waits = ws]
    BY Zenon DEF Drain
  <2>2. r \in Call /\ "draining" \in {"none", "writing", "draining"} /\ ws \in SUBSET Writers
    BY <1>2, <2>1
  <2>3. /\ n \in Call /\ n.pc = "draining" /\ n.waits = ws
        /\ n.body = r.body /\ n.then = r.then
    BY <2>1, <2>2, Zenon DEF Call
  <2>. HIDE DEF ws
  <2>. QED BY <1>2, <2>1, <2>3
<1>. HIDE DEF ws
<1>4. TypeOK'
  BY <1>1, <1>3 DEF Inv, TypeOK
<1>5. /\ \A c \in Channels : InFlight(c)' = InFlight(c)
      /\ Flying' = Flying
  BY <1>1 DEF InFlight, Flying
<1>6. Flow' /\ \A c \in Channels : Alone(c) => Alone(c)'
  <2>1. \A q \in Callers : call'[q].waits \subseteq Flying'
    BY <1>2, <1>3, <1>5 DEF Inv, Flow
  <2>2. \A q \in Callers : /\ call'[q].pc # "none" <=> call[q].pc # "none"
                           /\ call'[q].body = call[q].body /\ call'[q].then = call[q].then
    BY <1>1, <1>3
  <2>. QED BY <1>1, <1>5, <2>1, <2>2 DEF Inv, Flow, Alone, Callers
<1>7. Saving => Saving'
  <2>1. InFlight("sidecar")' = InFlight("sidecar")
    BY <1>5 DEF Channels
  <2>2. CASE p = "request"
    BY <1>1, <2>1, <2>2 DEF Saving
  <2>3. CASE p # "request"
    <3>1. call'["request"] = call["request"]
      BY <1>3, <2>3 DEF Callers
    <3>. QED BY <1>1, <2>1, <3>1 DEF Saving
  <2>. QED BY <2>2, <2>3
<1>8. ASSUME Kept PROVE Kept'
  <2>1. \A c \in Channels : \A b : Covered(c, b) => b \subseteq file'[c].body
           /\ \A w \in InFlight(c)' : b \subseteq write'[w].content.body
    BY <1>1, <1>5 DEF Covered
  <2>2. \A c \in Channels : Covered(c, promised)'
    BY <1>1, <1>8, <2>1 DEF Kept, Covered
  <2>3. \A q \in Callers : call'[q].pc # "none" => call[q].pc # "none" /\ call'[q].body = call[q].body
    BY <1>1, <1>3
  <2>4. ASSUME NEW q \in Callers, call'[q].pc # "none" PROVE Flushing(q)'
    <3>1. Flushing(q)
      BY <1>8, <2>3, <2>4 DEF Kept
    <3>2. CASE q = p
      <4>1. \A c \in Channels : Covered(c, call[p].body)
        BY <1>1, <3>1, <3>2 DEF Flushing
      <4>2. \A c \in Channels : Covered(c, call[p].body)'
        <5>1. \A c \in Channels : /\ call[p].body \subseteq file'[c].body
                 /\ \A w \in InFlight(c)' : call[p].body \subseteq write'[w].content.body
          BY <2>1, <4>1
        <5>. QED BY <1>3, <5>1 DEF Covered
      <4>. QED BY <1>1, <1>3, <2>3, <3>1, <3>2, <4>2 DEF Flushing
    <3>3. CASE q # p
      BY <1>1, <1>8, <2>3, <2>4, <3>1, <3>3 DEF Kept, Flushing
    <3>. QED BY <3>2, <3>3
  <2>. QED BY <1>1, <1>8, <2>2, <2>4 DEF Kept
<1>9. \A c \in Channels : Fresh(c) => Fresh(c)'
  BY <1>1, <1>5 DEF Fresh
<1>10. "sidecar" \in Channels /\ "markdown" \in Channels /\ "request" \in Callers
  BY DEF Channels, Callers
<1>11. Made' /\ OneView'
  BY <1>1, <1>5, <1>10 DEF Inv, Made, OneView, Seen, Sees
<1>12. p # "request" => call'["request"] = call["request"]
  BY <1>3, <1>10
<1>13. Stored'
  BY <1>1, <1>5, <1>10, <1>12 DEF Inv, Stored
<1>14. Twin => Twin'
  BY <1>1, <1>5, <1>10, <1>12 DEF Twin
<1>. QED BY <1>1, <1>4, <1>6, <1>7, <1>8, <1>9, <1>11, <1>13, <1>14 DEF Inv, AllAlone

\* It returns: what it covers is promised.
LEMMA ReturnKeeps == ASSUME Inv, NEW p \in Callers, Return(p) PROVE Inv'
<1>1. /\ call[p].pc = "draining" /\ call[p].waits = {}
      /\ promised' = promised \cup call[p].body
      /\ starts' = starts /\ faults' = faults /\ made' = made /\ tmp' = tmp /\ file' = file
      /\ overlap' = overlap
      /\ \/ /\ call[p].then = "answer" /\ call' = [call EXCEPT ![p] = NoCall]
            /\ UNCHANGED <<host, doc, timer, write>>
         \/ /\ call[p].then = "destroy" /\ call' = [call EXCEPT ![p] = NoCall]
            /\ doc' = Closed /\ timer' = [c \in Channels |-> FALSE]
            /\ UNCHANGED <<host, write>>
         \/ Gone
  BY DEF Return, Inv, TypeOK, Call
<1>2. /\ call \in [Callers -> Call] /\ promised \subseteq Text /\ call[p].body \subseteq Text
      /\ tmp \in [Channels -> Content] /\ faults \in 0 .. MaxFaults
  BY DEF Inv, TypeOK, Call
<1>3. promised' \subseteq Text
  BY <1>1, <1>2
<1>4. ASSUME AllAlone PROVE /\ \A c \in Channels : Covered(c, promised')
                            /\ doc.open /\ promised' \subseteq doc.body
                            /\ \A q \in Callers : call[q].pc # "none" => q = p
  <2>1. Kept /\ Flushing(p)
    BY <1>1, <1>4 DEF Inv, Kept
  <2>2. \A c \in Channels : Covered(c, call[p].body)
    BY <1>1, <2>1 DEF Flushing
  <2>3. doc.open /\ promised' \subseteq doc.body /\ \A q \in Callers : call[q].pc # "none" => q = p
    BY <1>1, <2>1 DEF Kept, Flushing
  <2>. QED BY <1>1, <2>1, <2>2, <2>3 DEF Kept, Covered
<1>5. CASE Gone
  <2>1. /\ faults' \in 0 .. MaxFaults /\ tmp' \in [Channels -> Content]
        /\ \A c \in Channels : tmp'[c] = tmp[c] \/ tmp'[c] = NoFile
        /\ AllAlone => \A c \in Channels : promised' \subseteq file[c].body
    BY <1>1, <1>2, <1>4 DEF Covered
  <2>. QED BY <1>1, <1>3, <1>5, <2>1, GoneKeeps
<1>6. ASSUME call' = [call EXCEPT ![p] = NoCall], host' = host, write' = write,
             \/ doc' = doc /\ timer' = timer
             \/ call[p].then = "destroy" /\ doc' = Closed /\ timer' = [c \in Channels |-> FALSE]
      PROVE  Inv'
  <2>1. NoCall \in Call /\ Closed \in Handle
    BY DEF NoCall, Call, Closed, Handle
  <2>2. /\ call' \in [Callers -> Call] /\ call'[p] = NoCall
        /\ \A q \in Callers : q # p => call'[q] = call[q]
    BY <1>2, <1>6, <2>1
  <2>3. TypeOK'
    BY <1>1, <1>3, <1>6, <2>1, <2>2 DEF Inv, TypeOK
  <2>4. /\ \A c \in Channels : InFlight(c)' = InFlight(c)
        /\ Flying' = Flying
    BY <1>6 DEF InFlight, Flying
  <2>5. call[p].then = "destroy" => p = "request"
    BY <1>1 DEF Inv, Flow, Callers
  <2>6. call'["request"].pc # "none" => call'["request"] = call["request"] /\ doc' = doc /\ timer' = timer
    BY <1>6, <2>2, <2>5 DEF NoCall, Callers
  <2>7. Flow'
    <3>1. \A q \in Callers : call'[q].waits \subseteq Flying'
      BY <2>2, <2>4 DEF Inv, Flow, NoCall
    <3>2. (\A c \in Channels : timer'[c] => doc'.open) /\ (~doc'.open => doc'.body = {})
      BY <1>6 DEF Inv, Flow, Closed
    <3>3. call'["signal"].pc # "none" => call'["signal"] = call["signal"]
      BY <2>2 DEF NoCall, Callers
    <3>. QED BY <1>6, <2>6, <3>1, <3>2, <3>3 DEF Inv, Flow
  <2>8. \A c \in Channels : Alone(c) => Alone(c)'
    BY <1>1, <1>6, <2>4 DEF Alone
  <2>9. ASSUME ~overlap["sidecar"] PROVE Saving'
    <3>0. "sidecar" \in Channels
      BY DEF Channels
    <3>1. Saving /\ Alone("sidecar") /\ InFlight("sidecar")' = InFlight("sidecar")
      BY <2>4, <2>9, <3>0 DEF Inv
    <3>2. CASE doc' = doc
      BY <1>1, <1>6, <2>6, <3>1, <3>2 DEF Saving
    <3>3. CASE call[p].then = "destroy" /\ doc' = Closed
      <4>1. file["sidecar"] = [state |-> "whole", body |-> doc.body]
        BY <1>1, <2>5, <3>1, <3>3 DEF Saving
      <4>2. ASSUME NEW w \in InFlight("sidecar") PROVE write[w].content = file["sidecar"]
        <5>1. write[w].content.state = "whole" /\ write[w].content.body = doc.body
          BY <1>1, <2>5, <3>1, <3>3 DEF Saving, Alone
        <5>2. write[w].content \in Content
          BY <3>0, InFlights DEF Inv, TypeOK, Write
        <5>. QED BY <4>1, <5>1, <5>2 DEF Content
      <4>3. call'["request"].pc = "none" /\ ~doc'.open
        BY <2>2, <2>5, <3>3 DEF NoCall, Closed
      <4>. QED BY <1>1, <1>6, <3>1, <4>2, <4>3 DEF Saving
    <3>. QED BY <1>6, <3>2, <3>3
  <2>10. ASSUME AllAlone PROVE Kept'
    <3>1. \A c \in Channels : Covered(c, promised)'
      BY <1>1, <1>4, <1>6, <2>4, <2>10 DEF Covered
    <3>2. doc'.open => promised' \subseteq doc'.body
      BY <1>4, <1>6, <2>10 DEF Closed
    <3>3. \A q \in Callers : call'[q].pc = "none"
      BY <1>4, <2>2, <2>10 DEF NoCall
    <3>. QED BY <3>1, <3>2, <3>3 DEF Kept
  <2>11. \A c \in Channels : Fresh(c) => Fresh(c)'
    BY <1>1, <1>6, <2>4 DEF Fresh, Closed
  <2>12. "sidecar" \in Channels /\ "markdown" \in Channels /\ doc \in Handle
    BY DEF Channels, Inv, TypeOK
  <2>13. Made'
    <3>1. doc'.body \cap Edits \subseteq made
      BY <1>6 DEF Inv, Made, Closed
    <3>. QED BY <1>1, <1>6, <3>1 DEF Inv, Made
  <2>14. OneView'
    <3>1. PICK O \in SUBSET OutsideEdits : Seen(O)
      BY DEF Inv, OneView
    <3>2. doc'.open => doc' = doc
      BY <1>6 DEF Closed
    <3>3. Seen(O)'
      BY <1>1, <1>6, <2>4, <2>12, <3>1, <3>2 DEF Seen, Sees
    <3>. QED BY <3>3 DEF OneView
  <2>15. Stored'
    <3>1. ~doc'.open /\ file["sidecar"].state = "none" => Flying = {}
      <4>1. CASE doc' = doc
        BY <4>1 DEF Inv, Stored
      <4>2. CASE call[p].then = "destroy"
        BY <1>1, <2>5, <4>2 DEF Inv, Stored
      <4>. QED BY <1>6, <4>1, <4>2
    <3>. QED BY <1>1, <1>6, <2>4, <2>6, <2>12, <3>1 DEF Inv, Stored
  <2>16. ASSUME Twin PROVE Twin'
    <3>1. InFlight("markdown")' = InFlight("markdown")
      BY <2>4, <2>12
    <3>2. CASE doc' = doc
      BY <1>1, <1>6, <2>6, <2>16, <3>1, <3>2 DEF Twin
    <3>3. CASE call[p].then = "destroy" /\ doc' = Closed
      <4>1. /\ \A w \in InFlight("markdown") : write[w].content.body = doc.body
            /\ file["markdown"].body \subseteq doc.body \cup OutsideEdits
        BY <1>1, <2>5, <2>16, <3>3 DEF Twin
      <4>2. call'["request"].pc = "none" /\ ~doc'.open
        BY <2>2, <2>5, <3>3 DEF NoCall, Closed
      <4>. QED BY <1>1, <1>6, <3>1, <4>1, <4>2 DEF Twin
    <3>. QED BY <1>6, <3>2, <3>3
  <2>. QED BY <1>1, <2>3, <2>7, <2>8, <2>9, <2>10, <2>11, <2>13, <2>14, <2>15, <2>16 DEF Inv, AllAlone
<1>. QED BY <1>1, <1>5, <1>6

-----------------------------------------------------------------------------
(* The invariant.                                                          *)

\* A vault's new document has what its file has.
LEMMA InitInv == Init => Inv
<1>. SUFFICES ASSUME Init PROVE Inv
     OBVIOUS
<1>1. TypeOK
  BY ConstantsOK DEF Init, TypeOK, Closed, Handle, Idle, Write, NoFile, Content, NoCall, Call, Text
<1>2. /\ \A w \in Writers : write[w] = Idle
      /\ \A p \in Callers : call[p] = NoCall
      /\ ~doc.open /\ doc.body = {} /\ promised = {}
      /\ \A c \in Channels : ~timer[c]
      /\ file["sidecar"] = NoFile
      /\ \A c \in Channels : file[c] = NoFile \/ file[c].state = "whole"
  BY DEF Init, Closed, Channels
<1>3. \A c \in Channels : InFlight(c) = {}
  <2>1. \A c \in Channels : \A w : w \notin InFlight(c)
    BY <1>2, InFlights DEF Idle
  <2>. QED BY <2>1
<1>4. Flow
  BY <1>2 DEF Flow, NoCall, Callers
<1>5. \A c \in Channels : Alone(c) /\ Fresh(c)
  BY <1>2, <1>3 DEF Alone, Fresh
<1>6. Saving
  BY <1>2, <1>3 DEF Saving, NoCall, Callers, Channels
<1>7. Kept
  BY <1>2, <1>3 DEF Kept, Covered, NoCall
<1>8. /\ Flying = {} /\ "sidecar" \in Channels /\ "markdown" \in Channels
      /\ call["request"].pc = "none"
  BY <1>2, <1>3 DEF Flying, Channels, NoCall, Callers
<1>9. Made
  BY <1>2, ConstantsOK DEF Init, Made, Idle, NoFile, Channels
<1>10. Stored /\ Twin
  BY <1>2, <1>3, <1>8 DEF Stored, Twin
<1>11. OneView
  <2>1. Seen({})
    BY <1>2, <1>3, <1>8 DEF Seen, Sees, NoFile
  <2>. QED BY <2>1 DEF OneView
<1>. QED BY <1>1, <1>4, <1>5, <1>6, <1>7, <1>9, <1>10, <1>11 DEF Inv

\* Nothing happens.
LEMMA StutterKeeps == Inv /\ UNCHANGED vars => Inv'
<1>. SUFFICES ASSUME Inv, UNCHANGED vars PROVE Inv'
     OBVIOUS
<1>1. UNCHANGED <<host, starts, faults, doc, made, timer, write, tmp, file, call, promised, overlap>>
  BY DEF vars
<1>2. TypeOK' = TypeOK /\ Flow' = Flow /\ Saving' = Saving /\ Kept' = Kept /\ AllAlone' = AllAlone
  BY <1>1 DEF TypeOK, Flow, Flying, InFlight, Saving, Kept, Covered, Flushing, AllAlone
<1>3. \A c \in Channels : (Alone(c)' <=> Alone(c)) /\ (Fresh(c)' <=> Fresh(c))
  BY <1>1 DEF Alone, Fresh, InFlight
<1>4. Made' = Made /\ Stored' = Stored /\ OneView' = OneView /\ Twin' = Twin
  BY <1>1 DEF Made, Stored, OneView, Seen, Sees, Twin, InFlight, Flying
<1>. QED BY <1>1, <1>2, <1>3, <1>4 DEF Inv

\* Every step keeps the invariant.
LEMMA NextInv == Inv /\ [Next]_vars => Inv'
<1>. SUFFICES ASSUME Inv, [Next]_vars PROVE Inv'
     OBVIOUS
<1>1. CASE Start
  BY <1>1, StartKeeps
<1>2. CASE Die
  BY <1>2, DieKeeps
<1>3. CASE OpenDocument
  BY <1>3, OpenDocumentKeeps
<1>4. CASE Stop
  BY <1>4, StopKeeps
<1>5. ASSUME NEW e \in Edits, Apply(e) PROVE Inv'
  BY <1>5, ApplyKeeps
<1>6. ASSUME NEW x \in OutsideEdits, OutsideEdit(x) PROVE Inv'
  BY <1>6, OutsideEditKeeps
<1>7. ASSUME NEW then \in {"answer", "destroy"}, Flush(then) PROVE Inv'
  BY <1>7, FlushKeeps
<1>8. ASSUME NEW p \in Callers, Drain(p) \/ Return(p) PROVE Inv'
  BY <1>8, DrainKeeps, ReturnKeeps
<1>9. ASSUME NEW c \in Channels, NEW w \in Writers, TimerFires(c, w) PROVE Inv'
  BY <1>9, TimerFiresKeeps
<1>10. ASSUME NEW w \in Writers, Step(w) \/ Fail(w) PROVE Inv'
  BY <1>10, OpenTmpKeeps, WriteBytesKeeps, RenameKeeps, RenameMissingKeeps, UnlinkKeeps,
     FailKeeps DEF Step
<1>11. CASE UNCHANGED vars
  BY <1>11, StutterKeeps
<1>. QED BY <1>1, <1>2, <1>3, <1>4, <1>5, <1>6, <1>7, <1>8, <1>9, <1>10, <1>11 DEF Next

-----------------------------------------------------------------------------
(* Theorems.                                                               *)

\* The invariant holds throughout.
LEMMA Invariant == Spec => []Inv
<1>1. Init => Inv
  BY InitInv
<1>2. Inv /\ [Next]_vars => Inv'
  BY NextInv
<1>. QED BY <1>1, <1>2, PTL DEF Spec

\* The process, the handle, the writes, the files and the calls are of the types they
\* should be.
THEOREM Types == Spec => []TypeOK
<1>1. Inv => TypeOK
  BY DEF Inv
<1>. QED BY <1>1, Invariant, PTL

\* Temp file and rename do protect a file from being found half written, against
\* deaths and failures at any point, but not against a second write of its channel.
THEOREM DamageNeedsOverlap == Spec => []DamageOnlyByOverlap
<1>1. Inv => DamageOnlyByOverlap
  BY DEF Inv, Alone, DamageOnlyByOverlap, NoFile
<1>. QED BY <1>1, Invariant, PTL

\* What a completed flush, close or stop covered stays in both files.
THEOREM FlushedStays == Spec => []PromisedStays
<1>1. Inv => PromisedStays
  BY DEF Inv, AllAlone, Kept, Covered, PromisedStays
<1>. QED BY <1>1, Invariant, PTL

\* When nothing is left to fire or to finish, both files hold the document.
THEOREM QuietMeansSaved == Spec => []QuietDiskIsCurrent
<1>1. Inv => QuietDiskIsCurrent
  <2>. SUFFICES ASSUME Inv, doc.open, Flying = {}, faults = 0,
                       NEW c \in Channels, ~timer[c], ~overlap[c]
                PROVE  doc.body \subseteq file[c].body
       BY DEF QuietDiskIsCurrent
  <2>1. \A w : w \notin InFlight(c)
    BY InFlights
  <2>. QED BY <2>1 DEF Inv, Fresh
<1>. QED BY <1>1, Invariant, PTL

\* As long as its writes do not overlap, a file changes by the rename of one of them
\* only, or, if it is the markdown, from outside.
LEMMA FileUntouched ==
    ASSUME Inv, Next, NEW c \in Channels, ~overlap'[c],
           ~ \E w \in Writers : Rename(w) /\ Channel(w) = c
    PROVE  \/ file'[c] = file[c]
           \/ c = "markdown" /\ file[c].body \subseteq file'[c].body
<1>0. /\ file \in [Channels -> Content] /\ "markdown" \in Channels
  BY DEF Inv, TypeOK, Channels
<1>1. ASSUME NEW w \in Writers, WriteBytes(w) PROVE file'[c] = file[c]
  <2>1. ~overlap[c] /\ write[w].pc = "write"
    BY <1>1 DEF WriteBytes
  <2>2. CASE Channel(w) = c
    <3>1. w \in InFlight(c)
      BY <2>1, <2>2, InFlights
    <3>2. write[w].fd = "tmp"
      BY <2>1, <3>1 DEF Inv, Alone
    <3>. QED BY <1>1, <3>2 DEF WriteBytes
  <2>3. CASE Channel(w) # c
    <3>1. \/ file' = file
          \/ \E new : file' = [file EXCEPT ![Channel(w)] = new]
      <4>1. write[w].fd \in {"tmp", "file", "gone"}
        BY DEF Inv, TypeOK, Write
      <4>. QED BY <1>1, <4>1 DEF WriteBytes
    <3>. QED BY <1>0, <2>3, <3>1
  <2>. QED BY <2>2, <2>3
<1>2. ASSUME NEW w \in Writers, Rename(w), Channel(w) # c PROVE file'[c] = file[c]
  BY <1>0, <1>2 DEF Rename
<1>3. ASSUME NEW w \in Writers, Step(w) \/ Fail(w) PROVE file'[c] = file[c]
  BY <1>1, <1>2, <1>3 DEF Step, OpenTmp, RenameMissing, Unlink, Fail
<1>4. ASSUME NEW x \in OutsideEdits, OutsideEdit(x)
      PROVE  \/ file'[c] = file[c]
             \/ c = "markdown" /\ file[c].body \subseteq file'[c].body
  <2>1. PICK old, new : /\ old = file["markdown"] /\ file' = [file EXCEPT !["markdown"] = new]
                        /\ new = [old EXCEPT !.body = old.body \cup {x}]
    <3>1. file' = [file EXCEPT !["markdown"] =
                     [file["markdown"] EXCEPT !.body = file["markdown"].body \cup {x}]]
      BY <1>4 DEF OutsideEdit
    <3>. QED BY <3>1, Zenon
  <2>2. old \in Content
    BY <1>0, <2>1
  <2>3. new.body = old.body \cup {x}
    BY <2>1, <2>2, Zenon DEF Content
  <2>. QED BY <1>0, <2>1, <2>3
<1>5. ASSUME Start \/ Die \/ OpenDocument \/ Stop PROVE file' = file
  BY <1>5 DEF Start, Die, OpenDocument, Stop
<1>6. ASSUME NEW p \in Callers, Drain(p) \/ Return(p) PROVE file' = file
  BY <1>6 DEF Drain, Return
<1>7. /\ \A e \in Edits : Apply(e) => file' = file
      /\ \A then \in {"answer", "destroy"} : Flush(then) => file' = file
      /\ \A d \in Channels, w \in Writers : TimerFires(d, w) => file' = file
  BY DEF Apply, Flush, TimerFires
<1>. QED BY <1>3, <1>4, <1>5, <1>6, <1>7 DEF Next

\* A write of the markdown never drops from the file a text that the document has,
\* whoever wrote it; a text of another program the document never loaded it may.
THEOREM OnlyUnseenIsOverwritten == Spec => OnlyUnseenTextIsOverwritten
<1>1. ASSUME Inv, Next, ~overlap'["markdown"]
      PROVE  file["markdown"].body \ file'["markdown"].body \subseteq Text \ doc.body
  <2>0. /\ "markdown" \in Channels /\ file \in [Channels -> Content]
    BY <1>1 DEF Channels, Inv, TypeOK
  <2>1. file["markdown"].body \subseteq Text
    BY <2>0 DEF Content
  <2>2. ASSUME NEW w \in Writers, Rename(w), Channel(w) = "markdown"
        PROVE  file["markdown"].body \cap doc.body \subseteq file'["markdown"].body
    <3>1. /\ ~overlap["markdown"] /\ write[w].pc = "rename"
          /\ file' = [file EXCEPT !["markdown"] = tmp["markdown"]]
      BY <1>1, <2>2 DEF Rename
    <3>2. w \in InFlight("markdown")
      BY <2>0, <2>2, <3>1, InFlights
    <3>3. tmp["markdown"] = write[w].content
      BY <1>1, <2>0, <3>1, <3>2 DEF Inv, Alone
    <3>4. CASE doc.open
      <4>1. file["markdown"].body \cap doc.body \subseteq write[w].content.body
        BY <1>1, <3>1, <3>2, <3>4 DEF Inv, Twin
      <4>. QED BY <2>0, <3>1, <3>3, <4>1
    <3>5. CASE ~doc.open
      BY <1>1, <3>5 DEF Inv, Flow
    <3>. QED BY <3>4, <3>5
  <2>3. CASE \E w \in Writers : Rename(w) /\ Channel(w) = "markdown"
    BY <2>1, <2>2, <2>3
  <2>4. CASE ~ \E w \in Writers : Rename(w) /\ Channel(w) = "markdown"
    <3>1. file["markdown"].body \subseteq file'["markdown"].body
      BY <1>1, <2>0, <2>4, FileUntouched
    <3>. QED BY <2>1, <3>1
  <2>. QED BY <2>3, <2>4
<1>2. Inv /\ [Next]_vars =>
        [~overlap'["markdown"] => file["markdown"].body \ file'["markdown"].body
                                    \subseteq Text \ doc.body]_vars
  BY <1>1
<1>. QED BY <1>2, Invariant, PTL DEF Spec, OnlyUnseenTextIsOverwritten

-----------------------------------------------------------------------------
(* Refinement: the sidecar is the saved copy of DurableDoc.                *)

\* The document opens, takes an update, is closed, or stays as it is.
LEMMA DocumentSteps ==
    ASSUME Inv, Next
    PROVE  \/ doc' = doc
           \/ doc' = Closed
           \/ OpenDocument
           \/ \E e \in Edits : Apply(e)
<1>1. ASSUME NEW w \in Writers, NEW writes, Rejected(w, writes) PROVE doc' = doc \/ doc' = Closed
  BY <1>1 DEF Rejected, Gone
<1>2. ASSUME NEW w \in Writers, Thrown(w) PROVE doc' = doc \/ doc' = Closed
  BY <1>1, <1>2 DEF Thrown
<1>3. ASSUME NEW w \in Writers, Step(w) \/ Fail(w) PROVE doc' = doc \/ doc' = Closed
  BY <1>1, <1>2, <1>3 DEF Step, OpenTmp, WriteBytes, Rename, RenameMissing, Unlink, Fail
<1>4. ASSUME Start \/ Die \/ Stop PROVE doc' = doc \/ doc' = Closed
  BY <1>4 DEF Start, Die, Stop, Gone
<1>5. ASSUME NEW p \in Callers, Drain(p) \/ Return(p) PROVE doc' = doc \/ doc' = Closed
  <2>1. CASE Drain(p)
    BY <2>1 DEF Drain
  <2>2. CASE Return(p)
    <3>1. call[p].then \in {"answer", "destroy", "exit"}
      BY DEF Inv, TypeOK, Call
    <3>. QED BY <2>2, <3>1 DEF Return, Gone
  <2>. QED BY <1>5, <2>1, <2>2
<1>6. /\ \A x \in OutsideEdits : OutsideEdit(x) => doc' = doc
      /\ \A then \in {"answer", "destroy"} : Flush(then) => doc' = doc
      /\ \A c \in Channels, w \in Writers : TimerFires(c, w) => doc' = doc
  BY DEF OutsideEdit, Flush, TimerFires
<1>. QED BY <1>3, <1>4, <1>5, <1>6 DEF Next

\* A sidecar write's rename saves the document, or does again what was done.
LEMMA RenameSaves ==
    ASSUME Inv, ~overlap'["sidecar"], NEW w \in Writers, Rename(w), Channel(w) = "sidecar"
    PROVE  \/ doc.open /\ Durable!Save
           \/ UNCHANGED Durable!vars
<1>1. /\ ~overlap["sidecar"] /\ "sidecar" \in Channels /\ doc' = doc /\ write[w].pc = "rename"
      /\ file' = [file EXCEPT !["sidecar"] = tmp["sidecar"]]
      /\ file \in [Channels -> Content] /\ doc \in Handle
  BY DEF Rename, Channels, Inv, TypeOK
<1>2. w \in InFlight("sidecar")
  BY <1>1, InFlights
<1>3. file'["sidecar"] = write[w].content /\ write[w].content.state = "whole"
  BY <1>1, <1>2 DEF Inv, Alone
<1>4. Saving
  BY <1>1 DEF Inv
<1>5. CASE doc.open
  <2>1. /\ write[w].content.body \subseteq doc.body
        /\ file["sidecar"].body \subseteq write[w].content.body
    BY <1>2, <1>4, <1>5 DEF Saving
  <2>2. Durable!Save
    BY <1>1, <1>3, <1>5, <2>1 DEF Durable!Save
  <2>. QED BY <1>5, <2>2
<1>6. CASE ~doc.open
  <2>1. file'["sidecar"] = file["sidecar"]
    BY <1>2, <1>3, <1>4, <1>6 DEF Saving
  <2>. QED BY <1>1, <2>1 DEF Durable!vars
<1>. QED BY <1>5, <1>6

\* Every step is a step of DurableDoc, or none.
LEMMA StepIsDurable ==
    ASSUME Inv, [Next]_vars, ~overlap'["sidecar"]
    PROVE  Durable!Next \/ UNCHANGED Durable!vars
<1>1. CASE UNCHANGED vars
  BY <1>1 DEF vars, Durable!vars
<1>2. CASE \E w \in Writers : Rename(w) /\ Channel(w) = "sidecar"
  BY <1>2, RenameSaves DEF Durable!Next
<1>3. CASE Next /\ ~ \E w \in Writers : Rename(w) /\ Channel(w) = "sidecar"
  <2>1. file'["sidecar"] = file["sidecar"] /\ doc \in Handle /\ (~doc.open => doc.body = {})
    BY <1>3, FileUntouched DEF Inv, TypeOK, Flow, Channels
  <2>2. CASE doc' = doc
    BY <2>1, <2>2 DEF Durable!vars
  <2>3. CASE doc' = Closed
    <3>1. CASE doc.open
      BY <2>1, <2>3, <3>1 DEF Closed, Durable!Next, Durable!Close
    <3>2. CASE ~doc.open
      BY <2>1, <2>3, <3>2 DEF Closed, Handle, Durable!vars
    <3>. QED BY <3>1, <3>2
  <2>4. CASE OpenDocument
    <3>1. ~doc.open /\ doc' = Loaded
      BY <2>4 DEF OpenDocument
    <3>2. /\ doc'.open = TRUE
          /\ file["sidecar"].state # "none" => doc'.body = file["sidecar"].body
          /\ doc'.body \in SUBSET Text
      BY <3>1 DEF Loaded, Inv, TypeOK, Content, Channels
    <3>3. Durable!Open
      BY <2>1, <3>1, <3>2 DEF Durable!Open
    <3>. QED BY <3>3 DEF Durable!Next
  <2>5. ASSUME NEW e \in Edits, Apply(e) PROVE Durable!Next \/ UNCHANGED Durable!vars
    <3>1. doc.open /\ doc' = [doc EXCEPT !.body = doc.body \cup {e}] /\ e \in Text
      BY <2>5 DEF Apply, Text
    <3>2. doc'.open = doc.open /\ doc'.body = doc.body \cup {e}
      BY <2>1, <3>1 DEF Handle
    <3>3. CASE e \in doc.body
      BY <2>1, <3>2, <3>3 DEF Durable!vars
    <3>4. CASE e \notin doc.body
      BY <2>1, <3>1, <3>2, <3>4 DEF Durable!Next, Durable!Edit
    <3>. QED BY <3>3, <3>4
  <2>. QED BY <1>3, <2>2, <2>3, <2>4, <2>5, DocumentSteps
<1>. QED BY <1>1, <1>2, <1>3

\* The vault's document implements DurableDoc while its sidecar writes do not overlap:
\* the saved copy never goes back and is what the next opening starts from.
THEOREM SidecarRefines == Spec => SidecarIsDurable
<1>1. Init => Durable!Init
  BY DEF Init, Durable!Init, Closed, NoFile, Channels
<1>2. Inv /\ [Next]_vars => [overlap'["sidecar"] \/ Durable!Next]_(Durable!vars)
  BY StepIsDurable
<1>. QED BY <1>1, <1>2, Invariant, PTL DEF Spec, SidecarIsDurable

-----------------------------------------------------------------------------
(* The page, the shell and the host: VaultHost.                            *)
(* A line of a process with the id of a command that waits is about that   *)
(* command (Pipes), so an answer says what was done (AppliedIsThere,       *)
(* FlushedIsSaved); and the page shows a document only when the host has   *)
(* it open, so that no doc.open still unread loads it anew (OpenedAtHost). *)

Methods == {"none", "doc.open", "doc.applyUpdate", "doc.flush", "host.shutdown"}
Request == [id : Nat, method : Methods, arg : Nat]
Answers == [id : Nat, ok : BOOLEAN, method : Methods, arg : Nat]
Command == [pc : {"none", "waiting", "ok", "error"}, life : Nat, id : Nat,
            method : Methods, arg : Nat, got : {<<>>} \cup (Nat \X Methods \X Nat)]
View    == [pc : {"list", "opening", "open", "draining", "flushing"}, since : Nat \ {0}, upto : Nat]

ShellTypes ==
    /\ slot \in Nat /\ life \in 0 .. MaxLives /\ alive \in BOOLEAN /\ killer \in BOOLEAN
    /\ nextId \in Nat \ {0} /\ pending \subseteq [life : Nat, id : Nat, by : Roles]
    /\ stdin \in Seq(Request) /\ busy \in Request
    /\ stdout \in [Lives -> Seq(Answers)]
    /\ docOpen \in BOOLEAN /\ body \subseteq Nat /\ disk \subseteq SUBSET Nat
    /\ view \in View /\ views \in Nat
    /\ typed \in 0 .. MaxEdits /\ pump \in Seq(Updates)
    /\ command \in [Roles -> Command]
    /\ failed \subseteq Nat /\ told \subseteq Nat /\ kept \subseteq Nat
    /\ deaths \in Nat /\ errors \in Nat

\* The lines of a pipe; what the running host has still to answer; what a host said.
Lines(s) == {s[i] : i \in DOMAIN s}
Asked    == Lines(stdin) \cup {busy}
Said(l)  == Lines(stdout[l])

\* The calls that have returned are those of the updates 1 .. Done.
Done == typed - Len(pump)

\* The copy on the disk.
Copy == UNION disk

\* Each answer awaited is that of the command of its role.
Waiting ==
    /\ \A p \in pending : /\ command[p.by].pc = "waiting"
                          /\ command[p.by].life = p.life /\ command[p.by].id = p.id
    /\ \A r \in Roles : command[r].life <= life
    /\ \A r \in Roles : command[r].pc = "waiting" =>
          /\ command[r].id >= 1 /\ 1 <= command[r].life
          /\ command[r].life = life => command[r].id < nextId

\* A line of process l with the id of a waiting command is about that command.
Sound(l, q) ==
    /\ l = life => q.id < nextId
    /\ \A r \in Roles :
          command[r].pc = "waiting" /\ command[r].life = l /\ command[r].id = q.id =>
              q.method = command[r].method /\ q.arg = command[r].arg
    /\ q.method = "doc.applyUpdate" => 1 <= q.arg /\ q.arg <= Done + 1 /\ q.arg <= typed

Pipes ==
    /\ \A q \in Asked : Sound(life, q)
    /\ \A l \in Lives : \A a \in Said(l) : l <= life /\ Sound(l, a)
    /\ alive => life >= 1
    /\ ~alive => stdin = <<>> /\ busy = NoBusy

\* The pump calls one update after the other.
Chained ==
    /\ Len(pump) <= typed
    /\ \A i \in 1 .. Len(pump) : pump[i] = Done + i
    /\ told \cup failed = 1 .. Done
    /\ command["pump"].pc # "none" =>
          /\ pump # <<>>
          /\ command["pump"].method = "doc.applyUpdate" /\ command["pump"].arg = Done + 1
    /\ command["view"].pc # "none" =>
          \/ view.pc = "opening" /\ command["view"].method = "doc.open"
          \/ view.pc = "flushing" /\ command["view"].method = "doc.flush"
    /\ view.pc \in {"draining", "flushing"} => view.upto <= typed
    /\ view.pc = "flushing" => view.upto <= Done

\* The disk has one copy, of what the document had; what Back covered is in it.
Saved ==
    /\ disk = {Copy} /\ kept \subseteq Copy
    /\ docOpen => alive /\ Copy \subseteq body
    /\ ~docOpen => body = {}
    /\ \A d \in body \cup Copy : 1 <= d /\ d <= Done + 1 /\ d <= typed
    /\ busy.method = "doc.flush" => docOpen

InView  == view.pc \in {"open", "draining", "flushing"}
Opening == \E q \in Lines(stdin) : q.method = "doc.open"

\* While the document is shown, a doc.open still unread finds it open.
OpenedAtHost ==
    /\ InView /\ Opening => docOpen
    /\ alive => \A a \in Said(life) : a.method = "doc.open" /\ a.ok => docOpen
    /\ view.pc = "opening" /\ command["view"].pc = "ok" /\ command["view"].life = life /\ alive =>
          docOpen
    /\ view.pc = "opening" /\ command["view"].pc \in {"waiting", "ok"} /\ Opening =>
          command["view"].life = life

\* The host has said that the update is applied.
Applied(d) ==
    \/ d \in told
    \/ command["pump"].pc = "ok" /\ command["pump"].arg = d
    \/ \E l \in Lives : \E a \in Said(l) : a.ok /\ a.method = "doc.applyUpdate" /\ a.arg = d

\* Then the document has it, if it was shown before the update and is open, and if no
\* process has died the document or its copy has.
AppliedIsThere ==
    \A d \in Nat : Applied(d) =>
       /\ InView /\ docOpen /\ view.since <= d => d \in body
       /\ deaths = 0 => d \in body \cup Copy

\* The host has answered the flush that Back awaits.
FlushAnswered ==
    \/ command["view"].pc = "ok"
    \/ /\ command["view"].pc = "waiting"
       /\ \E a \in Said(command["view"].life) : a.ok /\ a.id = command["view"].id

FlushedIsSaved ==
    view.pc = "flushing" /\ FlushAnswered => (view.since .. view.upto) \ failed \subseteq Copy

ShellInv ==
    /\ ShellTypes /\ Waiting /\ AnswersMatch /\ Pipes /\ Chained
    /\ Saved /\ OpenedAtHost /\ AppliedIsThere /\ FlushedIsSaved

-----------------------------------------------------------------------------
\* The lines of a pipe when one is written, and when one is read.
LEMMA LinesOf ==
    ASSUME NEW S, NEW s \in Seq(S)
    PROVE  /\ Lines(s) \subseteq S
           /\ \A e \in S : Append(s, e) \in Seq(S) /\ Lines(Append(s, e)) = Lines(s) \cup {e}
           /\ s # <<>> => /\ Head(s) \in S /\ Head(s) \in Lines(s)
                          /\ Tail(s) \in Seq(S) /\ Lines(Tail(s)) \subseteq Lines(s)
<1>1. Len(s) \in Nat /\ DOMAIN s = 1 .. Len(s) /\ \A i \in 1 .. Len(s) : s[i] \in S
  BY LenProperties
<1>2. ASSUME NEW e \in S
      PROVE  Append(s, e) \in Seq(S) /\ Lines(Append(s, e)) = Lines(s) \cup {e}
  <2>. DEFINE t == Append(s, e)
  <2>1. /\ t \in Seq(S) /\ Len(t) = Len(s) + 1
        /\ \A i \in 1 .. Len(s) : t[i] = s[i]
        /\ t[Len(s) + 1] = e
    BY <1>2, AppendProperties
  <2>2. DOMAIN t = 1 .. Len(t)
    BY <2>1, LenProperties
  <2>. HIDE DEF t
  <2>3. Lines(t) = Lines(s) \cup {e}
    BY <1>1, <2>1, <2>2 DEF Lines
  <2>. QED BY <2>1, <2>3 DEF t
<1>3. ASSUME s # <<>>
      PROVE  /\ Head(s) \in S /\ Head(s) \in Lines(s)
             /\ Tail(s) \in Seq(S) /\ Lines(Tail(s)) \subseteq Lines(s)
  <2>. DEFINE t == Tail(s)
  <2>1. /\ Head(s) \in S /\ t \in Seq(S) /\ Len(t) = Len(s) - 1
        /\ \A i \in 1 .. Len(t) : t[i] = s[i + 1]
    BY <1>3, HeadTailProperties
  <2>2. DOMAIN t = 1 .. Len(t) /\ Len(t) \in Nat
    BY <2>1, LenProperties
  <2>3. Head(s) = s[1]
    OBVIOUS
  <2>. HIDE DEF t
  <2>4. Head(s) \in Lines(s)
    BY <1>1, <2>1, <2>2, <2>3 DEF Lines
  <2>5. Lines(t) \subseteq Lines(s)
    BY <1>1, <2>1, <2>2 DEF Lines
  <2>. QED BY <2>1, <2>4, <2>5 DEF t
<1>. QED BY <1>1, <1>2, <1>3 DEF Lines

-----------------------------------------------------------------------------
\* What the types say of the parts.
LEMMA Parts ==
    ASSUME ShellTypes
    PROVE  /\ life \in Nat /\ typed \in Nat /\ Len(pump) \in Nat /\ Done \in Int
           /\ Lines(stdin) \subseteq Request /\ Asked \subseteq Request
           /\ \A l \in Lives : Said(l) \subseteq Answers
           /\ \A r \in Roles : /\ command[r] \in Command
                               /\ command[r].life \in Nat /\ command[r].id \in Nat
                               /\ command[r].arg \in Nat /\ command[r].method \in Methods
           /\ "pump" \in Roles /\ "view" \in Roles
<1>1. life \in Nat /\ typed \in Nat
  BY ShellConstants DEF ShellTypes
<1>2. Len(pump) \in Nat
  BY LenProperties DEF ShellTypes
<1>3. Lines(stdin) \subseteq Request
  BY LinesOf DEF ShellTypes
<1>4. \A l \in Lives : Said(l) \subseteq Answers
  <2>. SUFFICES ASSUME NEW l \in Lives PROVE Said(l) \subseteq Answers
    OBVIOUS
  <2>1. stdout[l] \in Seq(Answers)
    BY DEF ShellTypes
  <2>. QED BY <2>1, LinesOf DEF Said
<1>5. \A r \in Roles : command[r] \in Command
  BY DEF ShellTypes
<1>6. Asked \subseteq Request
  BY <1>3 DEF Asked, ShellTypes
<1>7. Done \in Int
  BY <1>1, <1>2 DEF Done
<1>8. \A r \in Roles : /\ command[r].life \in Nat /\ command[r].id \in Nat
                       /\ command[r].arg \in Nat /\ command[r].method \in Methods
  BY <1>5 DEF Command
<1>. QED BY <1>1, <1>2, <1>3, <1>4, <1>5, <1>6, <1>7, <1>8 DEF Roles

\* A call of the shell: it is written to the process in the slot, or fails at once.
LEMMA RpcEffect ==
    ASSUME ShellTypes, NEW r \in Roles, NEW m \in Methods, NEW a \in Nat, Rpc(r, m, a)
    PROVE  /\ nextId' \in Nat \ {0} /\ pending' \subseteq [life : Nat, id : Nat, by : Roles]
           /\ stdin' \in Seq(Request) /\ command' \in [Roles -> Command]
           /\ command[r].pc = "none"
           /\ \A x \in Roles : x # r => command'[x] = command[x]
           /\ command'[r].method = m /\ command'[r].arg = a /\ command'[r].got = <<>>
           /\ \/ /\ command'[r].pc = "error" /\ command'[r].life = 0
                 /\ pending' = pending /\ stdin' = stdin /\ nextId' = nextId
              \/ /\ Running /\ nextId' = nextId + 1
                 /\ command'[r].pc = "waiting"
                 /\ command'[r].life = life /\ command'[r].id = nextId
                 /\ \E p : /\ p.life = life /\ p.id = nextId /\ p.by = r
                           /\ pending' = pending \cup {p}
                 /\ \E q \in Request : /\ q.id = nextId /\ q.method = m /\ q.arg = a
                                       /\ Lines(stdin') = Lines(stdin) \cup {q}
<1>1. CASE Running
  <2>. DEFINE c == [pc |-> "waiting", life |-> life, id |-> nextId, method |-> m, arg |-> a, got |-> <<>>]
              p == [life |-> life, id |-> nextId, by |-> r]
              q == [id |-> nextId, method |-> m, arg |-> a]
  <2>1. life \in Nat /\ nextId \in Nat \ {0}
    BY Parts DEF ShellTypes
  <2>2. c \in Command /\ c.pc = "waiting" /\ c.life = life /\ c.id = nextId /\ c.method = m /\ c.arg = a /\ c.got = <<>>
    BY <2>1 DEF Command
  <2>3. p \in [life : Nat, id : Nat, by : Roles] /\ p.life = life /\ p.id = nextId /\ p.by = r
    BY <2>1
  <2>4. q \in Request /\ q.id = nextId /\ q.method = m /\ q.arg = a
    BY <2>1 DEF Request
  <2>5. /\ command[r].pc = "none" /\ command' = [command EXCEPT ![r] = c]
        /\ pending' = pending \cup {p} /\ stdin' = Append(stdin, q) /\ nextId' = nextId + 1
    BY <1>1 DEF Rpc
  <2>. HIDE DEF c, p, q
  <2>6. stdin' \in Seq(Request) /\ Lines(stdin') = Lines(stdin) \cup {q}
    BY <2>4, <2>5, LinesOf DEF ShellTypes
  <2>7. /\ command' \in [Roles -> Command] /\ command'[r] = c
        /\ \A x \in Roles : x # r => command'[x] = command[x]
    BY <2>2, <2>5 DEF ShellTypes
  <2>8. pending' \subseteq [life : Nat, id : Nat, by : Roles]
    BY <2>3, <2>5 DEF ShellTypes
  <2>. QED BY <1>1, <2>1, <2>2, <2>3, <2>4, <2>5, <2>6, <2>7, <2>8
<1>2. CASE ~Running
  <2>. DEFINE c == [pc |-> "error", life |-> None, id |-> 0, method |-> m, arg |-> a, got |-> <<>>]
  <2>1. c \in Command /\ c.pc = "error" /\ c.life = 0 /\ c.method = m /\ c.arg = a /\ c.got = <<>>
    BY DEF Command, None
  <2>2. /\ command[r].pc = "none" /\ command' = [command EXCEPT ![r] = c]
        /\ pending' = pending /\ stdin' = stdin /\ nextId' = nextId
    BY <1>2 DEF Rpc
  <2>. HIDE DEF c
  <2>3. /\ command' \in [Roles -> Command] /\ command'[r] = c
        /\ \A x \in Roles : x # r => command'[x] = command[x]
    BY <2>1, <2>2 DEF ShellTypes
  <2>. QED BY <2>1, <2>2, <2>3 DEF ShellTypes
<1>. QED BY <1>1, <1>2

\* An answer is one more line of the running process.
LEMMA AnswerEffect ==
    ASSUME ShellTypes, life \in Lives, NEW q \in Request, NEW ok \in BOOLEAN, Answer(q, ok)
    PROVE  /\ stdout' \in [Lives -> Seq(Answers)]
           /\ \A l \in Lives : l # life => Said(l)' = Said(l)
           /\ \E a \in Answers : /\ a.id = q.id /\ a.ok = ok /\ a.method = q.method /\ a.arg = q.arg
                                 /\ \A l \in Lives : l = life => Said(l)' = Said(l) \cup {a}
<1>. DEFINE a == [id |-> q.id, ok |-> ok, method |-> q.method, arg |-> q.arg]
<1>1. a \in Answers /\ a.id = q.id /\ a.ok = ok /\ a.method = q.method /\ a.arg = q.arg
  BY DEF Answers, Request
<1>2. stdout' = [stdout EXCEPT ![life] = Append(stdout[life], a)]
  BY DEF Answer
<1>. HIDE DEF a
<1>3. stdout[life] \in Seq(Answers)
  BY DEF ShellTypes
<1>4. /\ Append(stdout[life], a) \in Seq(Answers)
      /\ Lines(Append(stdout[life], a)) = Lines(stdout[life]) \cup {a}
  BY <1>1, <1>3, LinesOf
<1>5. /\ stdout' \in [Lives -> Seq(Answers)]
      /\ stdout'[life] = Append(stdout[life], a)
      /\ \A l \in Lives : l # life => stdout'[l] = stdout[l]
  BY <1>2, <1>4 DEF ShellTypes
<1>. QED BY <1>1, <1>4, <1>5 DEF Said

\* A line the host reads.
LEMMA LineEffect ==
    ASSUME ShellTypes, Pipes, NEW m, Line(m)
    PROVE  /\ alive /\ life \in Lives /\ busy = NoBusy
           /\ Head(stdin) \in Request /\ Head(stdin) \in Asked /\ Head(stdin).method = m
           /\ Head(stdin) \in Lines(stdin)
           /\ Tail(stdin) \in Seq(Request) /\ Lines(Tail(stdin)) \subseteq Lines(stdin)
<1>1. alive /\ busy = NoBusy /\ stdin # <<>> /\ Head(stdin).method = m
  BY DEF Line
<1>2. life \in Lives
  BY <1>1, ShellConstants DEF Pipes, ShellTypes, Lives
<1>3. stdin \in Seq(Request)
  BY DEF ShellTypes
<1>. QED BY <1>1, <1>2, <1>3, LinesOf DEF Asked

\* No lines in an empty pipe.
LEMMA NoLines == Lines(<<>>) = {}
BY DEF Lines

\* A line stays sound while commands go on or new ones take new ids.
LEMMA SoundKept ==
    ASSUME ShellTypes, Waiting, NEW l \in Nat, l <= life, NEW q, q.id \in Nat, q.arg \in Nat, Sound(l, q),
           Done \in Int, Done' \in Int, Done <= Done', typed \in Nat, typed' \in Nat, typed <= typed',
           nextId' \in Nat,
           (life' = life /\ nextId <= nextId') \/ life' = life + 1,
           \A r \in Roles : command'[r].pc = "waiting" =>
               \/ /\ command[r].pc = "waiting"
                  /\ command'[r].life = command[r].life /\ command'[r].id = command[r].id
                  /\ command'[r].method = command[r].method /\ command'[r].arg = command[r].arg
               \/ command'[r].life = life /\ command'[r].id = nextId
    PROVE  Sound(l, q)'
<1>1. life \in Nat /\ nextId \in Nat
  BY Parts DEF ShellTypes
<1>2. (l = life' => q.id < nextId')
  BY <1>1 DEF Sound
<1>3. ASSUME NEW r \in Roles, command'[r].pc = "waiting", command'[r].life = l, command'[r].id = q.id
      PROVE  q.method = command'[r].method /\ q.arg = command'[r].arg
  BY <1>1, <1>3 DEF Sound
<1>4. q.method = "doc.applyUpdate" => 1 <= q.arg /\ q.arg <= Done' + 1 /\ q.arg <= typed'
  BY DEF Sound
<1>. QED BY <1>2, <1>3, <1>4 DEF Sound

-----------------------------------------------------------------------------
\* Time goes on: ids and calls grow, commands go on or are new.
Onwards ==
    /\ Done' \in Int /\ Done <= Done' /\ typed' \in Nat /\ typed <= typed' /\ nextId' \in Nat
    /\ (life' = life /\ nextId <= nextId') \/ life' = life + 1
    /\ \A r \in Roles : command'[r].pc = "waiting" =>
           \/ /\ command[r].pc = "waiting"
              /\ command'[r].life = command[r].life /\ command'[r].id = command[r].id
              /\ command'[r].method = command[r].method /\ command'[r].arg = command[r].arg
           \/ command'[r].life = life /\ command'[r].id = nextId

\* The lines that stay, and the answers to lines that were sound, are sound.
LEMMA PipesGoOn ==
    ASSUME ShellTypes, Waiting, Pipes, Onwards,
           \A q \in Asked' : (life' = life /\ q \in Asked) \/ Sound(life, q)',
           \A l \in Lives : \A a \in Said(l)' :
               \/ a \in Said(l)
               \/ /\ a \in Answers /\ l = life
                  /\ \E q \in Asked : a.id = q.id /\ a.method = q.method /\ a.arg = q.arg,
           alive' => life' >= 1, ~alive' => stdin' = <<>> /\ busy' = NoBusy
    PROVE  Pipes'
<1>1. /\ life \in Nat /\ typed \in Nat /\ Done \in Int
      /\ \A q \in Asked : q.id \in Nat /\ q.arg \in Nat
      /\ \A l \in Lives : \A a \in Said(l) : a.id \in Nat /\ a.arg \in Nat
      /\ \A a \in Answers : a.id \in Nat /\ a.arg \in Nat
  <2>1. \A q \in Request : q.id \in Nat /\ q.arg \in Nat
    BY DEF Request
  <2>2. \A a \in Answers : a.id \in Nat /\ a.arg \in Nat
    BY DEF Answers
  <2>. QED BY <2>1, <2>2, Parts
<1>2. ASSUME NEW l \in Nat, l <= life, NEW q, q.id \in Nat, q.arg \in Nat, Sound(l, q)
      PROVE  Sound(l, q)'
  BY <1>1, <1>2, SoundKept DEF Onwards
<1>3. life' \in Nat /\ life <= life' /\ life <= life
  BY <1>1 DEF Onwards
<1>4. ASSUME NEW q \in Asked' PROVE Sound(life, q)'
  <2>1. CASE life' = life /\ q \in Asked
    <3>1. Sound(life, q)
      BY <2>1 DEF Pipes
    <3>2. \A m \in {life} : Sound(m, q)'
      BY <1>1, <1>2, <1>3, <2>1, <3>1
    <3>. QED BY <2>1, <3>2
  <2>2. CASE Sound(life, q)'
    BY <2>2
  <2>. QED BY <1>4, <2>1, <2>2
<1>5. ASSUME NEW l \in Lives, NEW a \in Said(l)' PROVE l <= life' /\ Sound(l, a)'
  <2>1. l \in Nat
    BY DEF Lives
  <2>2. CASE a \in Said(l)
    BY <1>1, <1>2, <1>3, <2>1, <2>2 DEF Pipes
  <2>3. CASE /\ a \in Answers /\ l = life
             /\ \E q \in Asked : a.id = q.id /\ a.method = q.method /\ a.arg = q.arg
    <3>1. PICK q \in Asked : a.id = q.id /\ a.method = q.method /\ a.arg = q.arg
      BY <2>3
    <3>2. Sound(l, q)
      BY <2>3 DEF Pipes
    <3>3. Sound(l, a)
      BY <3>1, <3>2 DEF Sound
    <3>. QED BY <1>1, <1>2, <1>3, <2>1, <2>3, <3>3
  <2>. QED BY <1>5, <2>2, <2>3
<1>. QED BY <1>4, <1>5 DEF Pipes

\* What only the host or its process does.
HostOnly == UNCHANGED <<life, nextId, pending, typed, pump, told, failed, command, view, views, kept>>

\* It leaves the commands and the pump as they are.
LEMMA HostOnlyKeeps ==
    ASSUME ShellInv, HostOnly
    PROVE  /\ Waiting' /\ AnswersMatch' /\ Chained' /\ Onwards
           /\ Done' = Done
<1>1. Done' = Done /\ Done \in Int /\ typed \in Nat /\ nextId \in Nat
  BY Parts DEF HostOnly, Done, ShellInv, ShellTypes
<1>2. Waiting'
  BY DEF HostOnly, ShellInv, Waiting
<1>3. AnswersMatch'
  BY DEF HostOnly, ShellInv, AnswersMatch
<1>4. Chained'
  BY <1>1 DEF HostOnly, ShellInv, Chained
<1>5. Onwards
  BY <1>1 DEF HostOnly, Onwards
<1>. QED BY <1>1, <1>2, <1>3, <1>4, <1>5

\* A request of the running process is answered, with no change of what is saved.
LEMMA Answering ==
    ASSUME ShellInv, HostOnly, alive, alive' = alive, NEW q \in Asked, NEW ok \in BOOLEAN,
           Answer(q, ok), Lines(stdin') \subseteq Lines(stdin), busy' \in Asked \cup {NoBusy}
    PROVE  /\ Pipes' /\ stdout' \in [Lives -> Seq(Answers)]
           /\ \A l \in Lives : l # life => Said(l)' = Said(l)
           /\ \E a \in Answers : /\ a.id = q.id /\ a.ok = ok /\ a.method = q.method /\ a.arg = q.arg
                                 /\ \A l \in Lives : l = life => Said(l)' = Said(l) \cup {a}
<1>1. life \in Lives /\ q \in Request
  BY Parts, ShellConstants DEF ShellInv, Pipes, ShellTypes, Lives
<1>2. /\ stdout' \in [Lives -> Seq(Answers)]
      /\ \A l \in Lives : l # life => Said(l)' = Said(l)
      /\ \E a \in Answers : /\ a.id = q.id /\ a.ok = ok /\ a.method = q.method /\ a.arg = q.arg
                            /\ \A l \in Lives : l = life => Said(l)' = Said(l) \cup {a}
  BY <1>1, AnswerEffect DEF ShellInv
<1>3. Onwards /\ life' = life /\ nextId' = nextId
  BY HostOnlyKeeps DEF HostOnly
<1>4. NoBusy.id = 0 /\ NoBusy.method = "none" /\ NoBusy.arg = 0
  BY DEF NoBusy
<1>5. Sound(life, NoBusy)'
  <2>1. command' = command /\ nextId \in Nat \ {0}
    BY DEF HostOnly, ShellInv, ShellTypes
  <2>2. \A r \in Roles : command[r].pc = "waiting" => command[r].id >= 1
    BY DEF ShellInv, Waiting
  <2>3. \A r \in Roles : command[r].pc = "waiting" => command[r].id # NoBusy.id
    BY <2>2, Parts DEF NoBusy, ShellInv
  <2>4. NoBusy.id < nextId /\ NoBusy.method # "doc.applyUpdate"
    BY <2>1 DEF NoBusy
  <2>. QED BY <1>3, <2>1, <2>3, <2>4 DEF Sound
<1>6. \A x \in Asked' : (life' = life /\ x \in Asked) \/ Sound(life, x)'
  BY <1>3, <1>5 DEF Asked
<1>7. alive' => life' >= 1
  BY <1>1, <1>3 DEF Lives
<1>8. \A l \in Lives : \A a \in Said(l)' :
               \/ a \in Said(l)
               \/ /\ a \in Answers /\ l = life
                  /\ \E x \in Asked : a.id = x.id /\ a.method = x.method /\ a.arg = x.arg
  BY <1>2
<1>9. Pipes'
  BY <1>3, <1>6, <1>7, <1>8, PipesGoOn DEF ShellInv
<1>. QED BY <1>2, <1>9

\* After an answer a, an update the host said is applied is one it said before, or a's.
LEMMA AppliedBefore ==
    ASSUME HostOnly, NEW a, NEW d, Applied(d)',
           \A l \in Lives : Said(l)' \subseteq Said(l) \cup {a}
    PROVE  Applied(d) \/ (a.ok /\ a.method = "doc.applyUpdate" /\ a.arg = d)
<1>1. CASE d \in told' \/ (command["pump"].pc = "ok" /\ command["pump"].arg = d)'
  BY <1>1 DEF HostOnly, Applied
<1>2. CASE \E l \in Lives : \E x \in Said(l)' : x.ok /\ x.method = "doc.applyUpdate" /\ x.arg = d
  BY <1>2 DEF Applied
<1>. QED BY <1>1, <1>2 DEF Applied

\* The flush that Back awaits is answered when a flush is, and succeeds.
LEMMA FlushAnsweredBefore ==
    ASSUME ShellInv, HostOnly, view.pc = "flushing", FlushAnswered', NEW q \in Asked, NEW a,
           a.id = q.id, q.method # "doc.flush" \/ ~a.ok,
           \A l \in Lives : l # life => Said(l)' = Said(l),
           \A l \in Lives : l = life => Said(l)' = Said(l) \cup {a}
    PROVE  FlushAnswered
<1>. DEFINE c == command["view"]
<1>1. c' = c /\ c \in Command /\ "view" \in Roles
  BY Parts DEF HostOnly, ShellInv
<1>2. CASE c.pc = "ok"
  BY <1>2 DEF FlushAnswered
<1>3. CASE c.pc # "ok"
  <2>1. c.pc = "waiting" /\ \E x \in Said(c.life)' : x.ok /\ x.id = c.id
    BY <1>1, <1>3 DEF FlushAnswered
  <2>2. PICK x \in Said(c.life)' : x.ok /\ x.id = c.id
    BY <2>1
  <2>3. c.life \in Lives
    <3>1. 1 <= c.life /\ c.life <= life
      BY <1>1, <2>1 DEF ShellInv, Waiting
    <3>. QED BY <3>1, Parts, ShellConstants DEF ShellInv, ShellTypes, Lives
  <2>4. CASE x \in Said(c.life)
    BY <2>1, <2>2, <2>4 DEF FlushAnswered
  <2>5. CASE x = a /\ c.life = life
    <3>1. Sound(life, q)
      BY DEF ShellInv, Pipes
    <3>2. q.method = c.method
      BY <1>1, <2>1, <2>2, <2>5, <3>1 DEF Sound
    <3>3. c.method = "doc.flush"
      BY <2>1 DEF ShellInv, Chained
    <3>. QED BY <2>2, <2>5, <3>2, <3>3
  <2>6. \A k \in Lives : k = c.life => Said(k)' = Said(c.life)' /\ Said(k) = Said(c.life)
    BY <1>1 DEF Said
  <2>7. \A k \in Lives : k = c.life /\ x \in Said(k)' => x \in Said(k) \/ (x = a /\ k = life)
    OBVIOUS
  <2>. HIDE DEF c
  <2>. QED BY <2>2, <2>3, <2>4, <2>5, <2>6, <2>7
<1>. QED BY <1>2, <1>3

\* doc.open: a document shown is open already, so none is loaded under it.
LEMMA HandleOpenKeeps == ASSUME ShellInv, HandleOpen PROVE ShellInv'
<1>. DEFINE q == Head(stdin)
<1>1. Line("doc.open") /\ Answer(q, TRUE) /\ stdin' = Tail(stdin) /\ busy' = busy
  BY DEF HandleOpen
<1>2. /\ alive /\ life \in Lives /\ q \in Asked /\ q.method = "doc.open" /\ q \in Lines(stdin)
      /\ Tail(stdin) \in Seq(Request) /\ Lines(Tail(stdin)) \subseteq Lines(stdin)
  BY <1>1, LineEffect DEF ShellInv
<1>3. HostOnly /\ UNCHANGED <<alive, killer, slot, deaths, errors>>
  BY DEF HandleOpen, HostOnly, rust, page
<1>4. docOpen' = TRUE /\ disk' = disk /\ Copy' = Copy /\ (docOpen => body' = body) /\ (~docOpen => body' = Copy)
  <2>1. CASE docOpen
    BY <2>1 DEF HandleOpen, hostv, Copy
  <2>2. CASE ~docOpen
    <3>1. disk = {Copy}
      BY DEF ShellInv, Saved
    <3>2. docOpen' = TRUE /\ disk' = disk /\ body' \in disk
      BY <2>2, <3>1 DEF HandleOpen, Document!Open
    <3>. QED BY <2>2, <3>1, <3>2 DEF Copy
  <2>. QED BY <2>1, <2>2
<1>. HIDE DEF q
<1>5. PICK a \in Answers :
         /\ a.id = q.id /\ a.ok = TRUE /\ a.method = q.method /\ a.arg = q.arg
         /\ Pipes' /\ stdout' \in [Lives -> Seq(Answers)]
         /\ \A l \in Lives : l # life => Said(l)' = Said(l)
         /\ \A l \in Lives : l = life => Said(l)' = Said(l) \cup {a}
  BY <1>1, <1>2, <1>3, Answering DEF Asked
<1>6. ShellTypes'
  <2>1. body' \subseteq Nat /\ docOpen' \in BOOLEAN
    BY <1>4 DEF ShellInv, ShellTypes, Copy
  <2>. QED BY <1>1, <1>2, <1>3, <1>4, <1>5, <2>1 DEF ShellInv, ShellTypes, HostOnly
<1>7. Waiting' /\ AnswersMatch' /\ Chained' /\ Done' = Done
  BY <1>3, HostOnlyKeeps
<1>8. Saved'
  BY <1>1, <1>2, <1>3, <1>4, <1>7 DEF ShellInv, Saved, HostOnly
<1>9. OpenedAtHost'
  <2>1. Opening' => Opening
    BY <1>1, <1>2 DEF Opening
  <2>. QED BY <1>3, <1>4, <2>1 DEF ShellInv, OpenedAtHost, HostOnly, InView
<1>10. AppliedIsThere'
  <2>. SUFFICES ASSUME NEW d \in Nat, Applied(d)'
                PROVE  /\ InView' /\ docOpen' /\ view'.since <= d => d \in body'
                       /\ deaths' = 0 => d \in body' \cup Copy'
    BY DEF AppliedIsThere
  <2>1. Applied(d)
    BY <1>2, <1>3, <1>5, AppliedBefore
  <2>2. InView' => InView /\ docOpen
    BY <1>2, <1>3 DEF ShellInv, OpenedAtHost, Opening, HostOnly, InView
  <2>3. ~docOpen => body = {}
    BY DEF ShellInv, Saved
  <2>. QED BY <1>3, <1>4, <2>1, <2>2, <2>3 DEF ShellInv, AppliedIsThere, HostOnly
<1>11. FlushedIsSaved'
  <2>1. view.pc = "flushing" /\ FlushAnswered' => FlushAnswered
    BY <1>2, <1>3, <1>5, FlushAnsweredBefore
  <2>. QED BY <1>3, <1>4, <2>1 DEF ShellInv, FlushedIsSaved, HostOnly
<1>. QED BY <1>5, <1>6, <1>7, <1>8, <1>9, <1>10, <1>11 DEF ShellInv

\* doc.applyUpdate: the update is in the body when the answer says so.
LEMMA HandleApplyKeeps == ASSUME ShellInv, HandleApply PROVE ShellInv'
<1>. DEFINE q == Head(stdin)
<1>1. Line("doc.applyUpdate") /\ Answer(q, docOpen) /\ stdin' = Tail(stdin) /\ busy' = busy
  BY DEF HandleApply
<1>2. /\ alive /\ life \in Lives /\ q \in Asked /\ q.method = "doc.applyUpdate"
      /\ q \in Request /\ docOpen \in BOOLEAN
      /\ Tail(stdin) \in Seq(Request) /\ Lines(Tail(stdin)) \subseteq Lines(stdin)
  BY <1>1, LineEffect DEF ShellInv, ShellTypes
<1>3. HostOnly /\ UNCHANGED <<alive, killer, slot, deaths, errors>>
  BY DEF HandleApply, HostOnly, rust, page
<1>4. /\ docOpen' = docOpen /\ disk' = disk /\ Copy' = Copy
      /\ body' = IF docOpen THEN body \cup {q.arg} ELSE body
  BY DEF HandleApply, Copy
<1>5. q.arg \in Nat /\ 1 <= q.arg /\ q.arg <= Done + 1 /\ q.arg <= typed
  BY <1>2 DEF ShellInv, Pipes, Sound, Request
<1>. HIDE DEF q
<1>6. PICK a \in Answers :
         /\ a.id = q.id /\ a.ok = docOpen /\ a.method = q.method /\ a.arg = q.arg
         /\ Pipes' /\ stdout' \in [Lives -> Seq(Answers)]
         /\ \A l \in Lives : l # life => Said(l)' = Said(l)
         /\ \A l \in Lives : l = life => Said(l)' = Said(l) \cup {a}
  BY <1>1, <1>2, <1>3, Answering DEF Asked
<1>7. ShellTypes'
  <2>1. body' \subseteq Nat
    BY <1>4, <1>5 DEF ShellInv, ShellTypes
  <2>. QED BY <1>1, <1>2, <1>3, <1>4, <1>6, <2>1 DEF ShellInv, ShellTypes, HostOnly
<1>8. Waiting' /\ AnswersMatch' /\ Chained' /\ Done' = Done
  BY <1>3, HostOnlyKeeps
<1>9. Saved'
  BY <1>1, <1>2, <1>3, <1>4, <1>5, <1>8 DEF ShellInv, Saved, HostOnly
<1>10. OpenedAtHost'
  <2>1. Opening' => Opening
    BY <1>1, <1>2 DEF Opening
  <2>. QED BY <1>2, <1>3, <1>4, <1>6, <2>1 DEF ShellInv, OpenedAtHost, HostOnly, InView
<1>11. AppliedIsThere'
  <2>. SUFFICES ASSUME NEW d \in Nat, Applied(d)'
                PROVE  /\ InView' /\ docOpen' /\ view'.since <= d => d \in body'
                       /\ deaths' = 0 => d \in body' \cup Copy'
    BY DEF AppliedIsThere
  <2>1. Applied(d) \/ (docOpen /\ d = q.arg)
    BY <1>2, <1>3, <1>6, AppliedBefore
  <2>. QED BY <1>3, <1>4, <2>1 DEF ShellInv, AppliedIsThere, HostOnly, InView
<1>12. FlushedIsSaved'
  <2>1. view.pc = "flushing" /\ FlushAnswered' => FlushAnswered
    BY <1>2, <1>3, <1>6, FlushAnsweredBefore
  <2>. QED BY <1>3, <1>4, <2>1 DEF ShellInv, FlushedIsSaved, HostOnly
<1>. QED BY <1>6, <1>7, <1>8, <1>9, <1>10, <1>11, <1>12 DEF ShellInv

\* The host says nothing: what has been said, applied and flushed stays.
LEMMA Silent ==
    ASSUME ShellInv, HostOnly, UNCHANGED stdout
    PROVE  /\ \A l \in Lives : Said(l)' = Said(l)
           /\ \A d : Applied(d)' => Applied(d)
           /\ FlushAnswered' = FlushAnswered
<1>1. command' = command /\ told' = told
  BY DEF HostOnly
<1>. QED BY <1>1 DEF Said, Applied, FlushAnswered

\* A step of the host without an answer: what it still has to read was sent before.
LEMMA SilentPipes ==
    ASSUME ShellInv, HostOnly, UNCHANGED stdout,
           \A q \in Asked' : q \in Asked \/ (q.id = 0 /\ q.method # "doc.applyUpdate"),
           alive' => alive, ~alive' => stdin' = <<>> /\ busy' = NoBusy
    PROVE  Pipes'
<1>1. Onwards /\ life' = life
  BY HostOnlyKeeps DEF HostOnly
<1>2. ASSUME NEW q, q.id = 0, q.method # "doc.applyUpdate" PROVE Sound(life, q)'
  <2>1. command' = command /\ nextId' \in Nat \ {0}
    BY DEF HostOnly, ShellInv, ShellTypes
  <2>2. \A r \in Roles : command[r].pc = "waiting" => command[r].id # 0
    BY Parts DEF ShellInv, Waiting
  <2>. QED BY <1>2, <2>1, <2>2 DEF Sound
<1>3. \A q \in Asked' : (life' = life /\ q \in Asked) \/ Sound(life, q)'
  BY <1>1, <1>2
<1>4. alive' => life' >= 1
  BY <1>1 DEF ShellInv, Pipes
<1>5. \A l \in Lives : Said(l)' = Said(l)
  BY Silent
<1>. QED BY <1>1, <1>3, <1>4, <1>5, PipesGoOn DEF ShellInv

\* doc.flush: taken up for an open document, refused otherwise.
LEMMA HandleFlushKeeps == ASSUME ShellInv, HandleFlush PROVE ShellInv'
<1>. DEFINE q == Head(stdin)
<1>1. /\ Line("doc.flush") /\ stdin' = Tail(stdin)
      /\ \/ docOpen /\ busy' = q /\ stdout' = stdout
         \/ ~docOpen /\ busy' = busy /\ Answer(q, FALSE)
  BY DEF HandleFlush
<1>2. /\ alive /\ life \in Lives /\ q \in Asked /\ q.method = "doc.flush" /\ q \in Request
      /\ Tail(stdin) \in Seq(Request) /\ Lines(Tail(stdin)) \subseteq Lines(stdin)
      /\ busy = NoBusy
  BY <1>1, LineEffect DEF ShellInv, ShellTypes
<1>3. HostOnly /\ UNCHANGED <<alive, killer, slot, deaths, errors, docOpen, body, disk>> /\ Copy' = Copy
  BY DEF HandleFlush, HostOnly, rust, page, hostv, Copy
<1>. HIDE DEF q
<1>4. /\ Pipes' /\ stdout' \in [Lives -> Seq(Answers)]
      /\ \A d : Applied(d)' => Applied(d)
      /\ view.pc = "flushing" /\ FlushAnswered' => FlushAnswered
      /\ \A l \in Lives : \A x \in Said(l)' : x \in Said(l) \/ ~x.ok
  <2>1. CASE docOpen
    <3>1. stdout' = stdout /\ \A x \in Asked' : x \in Asked
      BY <1>1, <1>2, <2>1 DEF Asked
    <3>2. Pipes'
      BY <1>2, <1>3, <3>1, SilentPipes
    <3>. QED BY <1>3, <3>1, <3>2, Silent DEF ShellInv, ShellTypes
  <2>2. CASE ~docOpen
    <3>1. PICK a \in Answers :
         /\ a.id = q.id /\ a.ok = FALSE /\ a.method = q.method /\ a.arg = q.arg
         /\ Pipes' /\ stdout' \in [Lives -> Seq(Answers)]
         /\ \A l \in Lives : l # life => Said(l)' = Said(l)
         /\ \A l \in Lives : l = life => Said(l)' = Said(l) \cup {a}
      BY <1>1, <1>2, <1>3, <2>2, Answering DEF Asked
    <3>2. \A d : Applied(d)' => Applied(d)
      BY <1>3, <3>1, AppliedBefore
    <3>3. view.pc = "flushing" /\ FlushAnswered' => FlushAnswered
      BY <1>2, <1>3, <3>1, FlushAnsweredBefore
    <3>. QED BY <3>1, <3>2, <3>3
  <2>. QED BY <2>1, <2>2
<1>5. ShellTypes'
  BY <1>1, <1>2, <1>3, <1>4 DEF ShellInv, ShellTypes, HostOnly
<1>6. Waiting' /\ AnswersMatch' /\ Chained' /\ Done' = Done
  BY <1>3, HostOnlyKeeps
<1>7. Saved'
  BY <1>1, <1>2, <1>3, <1>6 DEF ShellInv, Saved, HostOnly
<1>8. OpenedAtHost'
  <2>1. Opening' => Opening
    BY <1>1, <1>2 DEF Opening
  <2>. QED BY <1>2, <1>3, <1>4, <2>1 DEF ShellInv, OpenedAtHost, HostOnly, InView
<1>9. AppliedIsThere'
  BY <1>3, <1>4 DEF ShellInv, AppliedIsThere, HostOnly, InView
<1>10. FlushedIsSaved'
  BY <1>3, <1>4 DEF ShellInv, FlushedIsSaved, HostOnly
<1>. QED BY <1>4, <1>5, <1>6, <1>7, <1>8, <1>9, <1>10 DEF ShellInv

\* host.shutdown is answered before the host closes.
LEMMA HandleShutdownKeeps == ASSUME ShellInv, HandleShutdown PROVE ShellInv'
<1>. DEFINE q == Head(stdin)
<1>1. Line("host.shutdown") /\ Answer(q, TRUE) /\ stdin' = Tail(stdin) /\ busy' = q
  BY DEF HandleShutdown
<1>2. /\ alive /\ life \in Lives /\ q \in Asked /\ q.method = "host.shutdown" /\ q \in Request
      /\ Tail(stdin) \in Seq(Request) /\ Lines(Tail(stdin)) \subseteq Lines(stdin)
  BY <1>1, LineEffect DEF ShellInv, ShellTypes
<1>3. HostOnly /\ UNCHANGED <<alive, killer, slot, deaths, errors, docOpen, body, disk>> /\ Copy' = Copy
  BY DEF HandleShutdown, HostOnly, rust, page, hostv, Copy
<1>. HIDE DEF q
<1>4. PICK a \in Answers :
         /\ a.id = q.id /\ a.ok = TRUE /\ a.method = q.method /\ a.arg = q.arg
         /\ Pipes' /\ stdout' \in [Lives -> Seq(Answers)]
         /\ \A l \in Lives : l # life => Said(l)' = Said(l)
         /\ \A l \in Lives : l = life => Said(l)' = Said(l) \cup {a}
  BY <1>1, <1>2, <1>3, Answering DEF Asked
<1>5. ShellTypes'
  BY <1>1, <1>2, <1>3, <1>4 DEF ShellInv, ShellTypes, HostOnly
<1>6. Waiting' /\ AnswersMatch' /\ Chained' /\ Done' = Done
  BY <1>3, HostOnlyKeeps
<1>7. Saved'
  BY <1>1, <1>2, <1>3, <1>6 DEF ShellInv, Saved, HostOnly
<1>8. OpenedAtHost'
  <2>1. Opening' => Opening
    BY <1>1, <1>2 DEF Opening
  <2>. QED BY <1>2, <1>3, <1>4, <2>1 DEF ShellInv, OpenedAtHost, HostOnly, InView
<1>9. AppliedIsThere'
  <2>1. \A d : Applied(d)' => Applied(d)
    BY <1>2, <1>3, <1>4, AppliedBefore
  <2>. QED BY <1>3, <2>1 DEF ShellInv, AppliedIsThere, HostOnly, InView
<1>10. FlushedIsSaved'
  <2>1. view.pc = "flushing" /\ FlushAnswered' => FlushAnswered
    BY <1>2, <1>3, <1>4, FlushAnsweredBefore
  <2>. QED BY <1>3, <2>1 DEF ShellInv, FlushedIsSaved, HostOnly
<1>. QED BY <1>4, <1>5, <1>6, <1>7, <1>8, <1>9, <1>10 DEF ShellInv

\* The document shown has every update whose call has returned without an error.
LEMMA ShownIsApplied ==
    ASSUME ShellInv, InView, docOpen, NEW d \in Nat, view.since <= d, d <= Done, d \notin failed
    PROVE  d \in body
<1>1. view.since \in Nat \ {0} /\ Done \in Int
  BY Parts DEF ShellInv, ShellTypes, View
<1>2. d \in 1 .. Done
  BY <1>1
<1>3. d \in told
  BY <1>2 DEF ShellInv, Chained
<1>. QED BY <1>3 DEF ShellInv, AppliedIsThere, Applied

\* The flush is answered when the copy on the disk is what the document shows.
LEMMA FlushedKeeps == ASSUME ShellInv, NEW ok \in BOOLEAN, Flushed(ok) PROVE ShellInv'
<1>. DEFINE q == busy
<1>1. /\ q.method = "doc.flush" /\ Answer(q, ok) /\ stdin' = stdin /\ busy' = NoBusy
      /\ disk' = (IF ok THEN {body} ELSE disk) /\ errors' \in Nat
  BY DEF Flushed, ShellInv, ShellTypes
<1>2. /\ docOpen /\ alive /\ life \in Lives /\ q \in Asked /\ Copy \subseteq body /\ NoBusy \in Request
      /\ disk = {Copy} /\ NoBusy.method = "none"
  BY <1>1, ShellConstants DEF ShellInv, Saved, Pipes, Asked, Lives, ShellTypes, NoBusy, Request, Methods
<1>3. HostOnly /\ UNCHANGED <<alive, killer, slot, deaths, docOpen, body>>
  BY DEF Flushed, HostOnly, rust, page
<1>4. /\ Copy \subseteq Copy' /\ disk' = {Copy'} /\ Copy' \subseteq body
      /\ ok => Copy' = body
  <2>1. ok => UNION disk' = body
    BY <1>1
  <2>2. ~ok => UNION disk' = UNION disk
    BY <1>1
  <2>. QED BY <1>1, <1>2, <2>1, <2>2 DEF Copy
<1>. HIDE DEF q
<1>5. PICK a \in Answers :
         /\ a.id = q.id /\ a.ok = ok /\ a.method = q.method /\ a.arg = q.arg
         /\ Pipes' /\ stdout' \in [Lives -> Seq(Answers)]
         /\ \A l \in Lives : l # life => Said(l)' = Said(l)
         /\ \A l \in Lives : l = life => Said(l)' = Said(l) \cup {a}
  <2>1. Lines(stdin') \subseteq Lines(stdin) /\ busy' \in Asked \cup {NoBusy}
    BY <1>1
  <2>. QED BY <1>1, <1>2, <1>3, <2>1, Answering
<1>6. ShellTypes'
  <2>1. disk' \subseteq SUBSET Nat
    BY <1>1 DEF ShellInv, ShellTypes
  <2>. QED BY <1>1, <1>2, <1>3, <1>5, <2>1 DEF ShellInv, ShellTypes, HostOnly
<1>7. Waiting' /\ AnswersMatch' /\ Chained' /\ Done' = Done
  BY <1>3, HostOnlyKeeps
<1>8. Saved'
  BY <1>1, <1>2, <1>3, <1>4, <1>7 DEF ShellInv, Saved, HostOnly
<1>9. OpenedAtHost'
  BY <1>1, <1>2, <1>3 DEF ShellInv, OpenedAtHost, HostOnly, InView, Opening
<1>10. AppliedIsThere'
  <2>1. \A d : Applied(d)' => Applied(d)
    BY <1>1, <1>3, <1>5, AppliedBefore
  <2>. QED BY <1>3, <1>4, <2>1 DEF ShellInv, AppliedIsThere, HostOnly, InView
<1>11. FlushedIsSaved'
  <2>1. CASE ok
    <3>. SUFFICES ASSUME view.pc = "flushing", NEW d \in (view.since .. view.upto) \ failed
                  PROVE  d \in Copy'
      BY <1>3 DEF FlushedIsSaved, HostOnly
    <3>1. d \in Nat /\ view.since <= d /\ d <= view.upto /\ view.upto <= Done /\ view.upto \in Nat
      BY DEF ShellInv, Chained, ShellTypes, View
    <3>2. d <= Done
      BY <3>1, Parts DEF ShellInv
    <3>. QED BY <1>2, <1>4, <2>1, <3>1, <3>2, ShownIsApplied DEF InView
  <2>2. CASE ~ok
    <3>1. view.pc = "flushing" /\ FlushAnswered' => FlushAnswered
      BY <1>2, <1>3, <1>5, <2>2, FlushAnsweredBefore
    <3>. QED BY <1>3, <1>4, <3>1 DEF ShellInv, FlushedIsSaved, HostOnly
  <2>. QED BY <2>1, <2>2
<1>. QED BY <1>5, <1>6, <1>7, <1>8, <1>9, <1>10, <1>11 DEF ShellInv

\* The host's process ends; what it saved at the end is what the document had.
LEMMA EndKeeps ==
    ASSUME ShellInv, HostOnly, ProcessGone, UNCHANGED <<stdout, slot, errors>>, killer' \in BOOLEAN,
           disk' = {Copy'}, Copy \subseteq Copy', Copy' \subseteq body \cup Copy,
           deaths' \in Nat, deaths' = 0 => deaths = 0 /\ body \subseteq Copy'
    PROVE  ShellInv'
<1>1. /\ alive /\ alive' = FALSE /\ docOpen' = FALSE /\ body' = {}
      /\ stdin' = <<>> /\ busy' = NoBusy
  BY DEF ProcessGone
<1>2. NoBusy \in Request /\ NoBusy.id = 0 /\ NoBusy.method = "none"
  BY DEF NoBusy, Request, Methods
<1>3. /\ \A l \in Lives : Said(l)' = Said(l)
      /\ \A d : Applied(d)' => Applied(d)
      /\ FlushAnswered' = FlushAnswered
  BY Silent
<1>4. Asked' = {NoBusy} /\ Lines(stdin') = {}
  BY <1>1, NoLines DEF Asked
<1>5. Pipes'
  <2>1. \A q \in Asked' : q \in Asked \/ (q.id = 0 /\ q.method # "doc.applyUpdate")
    BY <1>2, <1>4
  <2>. QED BY <1>1, <2>1, SilentPipes
<1>6. ShellTypes'
  <2>1. disk' \subseteq SUBSET Nat
    BY DEF ShellInv, ShellTypes, Copy
  <2>2. stdin' \in Seq(Request)
    BY <1>1
  <2>. QED BY <1>1, <1>2, <2>1, <2>2 DEF ShellInv, ShellTypes, HostOnly
<1>7. Waiting' /\ AnswersMatch' /\ Chained' /\ Done' = Done
  BY HostOnlyKeeps
<1>8. Saved'
  BY <1>1, <1>2, <1>7 DEF ShellInv, Saved, HostOnly
<1>9. OpenedAtHost'
  BY <1>1, <1>4 DEF ShellInv, OpenedAtHost, HostOnly, InView, Opening
<1>10. AppliedIsThere'
  BY <1>1, <1>3 DEF ShellInv, AppliedIsThere
<1>11. FlushedIsSaved'
  BY <1>3 DEF ShellInv, FlushedIsSaved, HostOnly
<1>. QED BY <1>5, <1>6, <1>7, <1>8, <1>9, <1>10, <1>11 DEF ShellInv

\* The process dies: the copy stays, and there is a death to blame.
LEMMA HostDiesKeeps == ASSUME ShellInv, HostDies PROVE ShellInv'
<1>1. HostOnly /\ ProcessGone /\ UNCHANGED <<stdout, slot, errors>> /\ killer' = killer
  BY DEF HostDies, HostOnly, page
<1>2. disk' = {Copy'} /\ Copy' = Copy
  BY DEF HostDies, Copy, ShellInv, Saved
<1>3. deaths' \in Nat /\ deaths' # 0 /\ killer' \in BOOLEAN
  BY <1>1 DEF HostDies, ShellInv, ShellTypes
<1>. QED BY <1>1, <1>2, <1>3, EndKeeps

\* A process that was told to stop saves the body first.
LEMMA ShutDownKeeps == ASSUME ShellInv, ShutDown PROVE ShellInv'
<1>1. HostOnly /\ ProcessGone /\ UNCHANGED <<stdout, slot, errors>> /\ killer' = killer /\ deaths' = deaths
  BY DEF ShutDown, HostOnly, page
<1>2. disk' = (IF docOpen THEN {body} ELSE disk) /\ disk = {Copy}
  BY DEF ShutDown, ShellInv, Saved
<1>3. UNION {body} = body
  OBVIOUS
<1>4. /\ disk' = {Copy'} /\ Copy \subseteq Copy' /\ Copy' \subseteq body \cup Copy
      /\ body \subseteq Copy'
  BY <1>2, <1>3 DEF Copy, ShellInv, Saved
<1>5. killer' \in BOOLEAN /\ deaths' \in Nat
  BY <1>1 DEF ShellInv, ShellTypes
<1>. QED BY <1>1, <1>4, <1>5, EndKeeps

\* A debounced write saves what the document has.
LEMMA TimerSaveKeeps == ASSUME ShellInv, TimerSave PROVE ShellInv'
<1>1. HostOnly /\ UNCHANGED <<stdin, busy, stdout, alive, killer, slot, deaths, errors, docOpen, body>>
  BY DEF TimerSave, HostOnly, rust, page, pipes, Document!Save
<1>2. PICK new \in SUBSET body : (\A old \in disk : old \subseteq new) /\ disk' = {new}
  BY DEF TimerSave, Document!Save
<1>3. docOpen /\ disk = {Copy}
  BY DEF TimerSave, Document!Save, ShellInv, Saved
<1>4. UNION {new} = new
  OBVIOUS
<1>5. disk' = {Copy'} /\ Copy \subseteq Copy' /\ Copy' \subseteq body
  BY <1>2, <1>3, <1>4 DEF Copy
<1>6. /\ \A l \in Lives : Said(l)' = Said(l)
      /\ \A d : Applied(d)' => Applied(d)
      /\ FlushAnswered' = FlushAnswered
  BY <1>1, Silent
<1>7. Pipes'
  <2>1. \A q \in Asked' : q \in Asked
    BY <1>1 DEF Asked
  <2>2. ~alive => stdin = <<>> /\ busy = NoBusy
    BY DEF ShellInv, Pipes
  <2>. QED BY <1>1, <2>1, <2>2, SilentPipes
<1>8. ShellTypes'
  <2>1. disk' \subseteq SUBSET Nat
    BY <1>2 DEF ShellInv, ShellTypes
  <2>. QED BY <1>1, <2>1 DEF ShellInv, ShellTypes, HostOnly
<1>9. Waiting' /\ AnswersMatch' /\ Chained' /\ Done' = Done
  BY <1>1, HostOnlyKeeps
<1>10. Saved'
  BY <1>1, <1>3, <1>5, <1>9 DEF ShellInv, Saved, HostOnly
<1>11. OpenedAtHost'
  BY <1>1 DEF ShellInv, OpenedAtHost, HostOnly, InView, Opening, Said
<1>12. AppliedIsThere'
  BY <1>1, <1>5, <1>6 DEF ShellInv, AppliedIsThere, HostOnly, InView
<1>13. FlushedIsSaved'
  BY <1>1, <1>5, <1>6 DEF ShellInv, FlushedIsSaved, HostOnly
<1>. QED BY <1>7, <1>8, <1>9, <1>10, <1>11, <1>12, <1>13 DEF ShellInv

\* A step that leaves the document, the page and what has been said.
LEMMA RestKeeps ==
    ASSUME ShellInv, HostOnly, UNCHANGED <<stdout, docOpen, body, disk, deaths>>
    PROVE  /\ Waiting' /\ AnswersMatch' /\ Chained' /\ Done' = Done /\ Copy' = Copy
           /\ AppliedIsThere' /\ FlushedIsSaved'
<1>1. /\ \A d : Applied(d)' => Applied(d)
      /\ FlushAnswered' = FlushAnswered
  BY Silent
<1>2. Copy' = Copy
  BY DEF Copy
<1>3. AppliedIsThere'
  BY <1>1, <1>2 DEF ShellInv, AppliedIsThere, HostOnly, InView
<1>4. FlushedIsSaved'
  BY <1>1, <1>2 DEF ShellInv, FlushedIsSaved, HostOnly
<1>. QED BY <1>2, <1>3, <1>4, HostOnlyKeeps

\* vault_host_stop: its line answers no command.
LEMMA StopHostKeeps == ASSUME ShellInv, StopHost PROVE ShellInv'
<1>. DEFINE q == [id |-> 0, method |-> "host.shutdown", arg |-> 0]
<1>1. /\ slot' = 0 /\ HostOnly
      /\ UNCHANGED <<alive, stdout, busy, docOpen, body, disk, deaths, errors>>
      /\ \/ Running /\ stdin' = Append(stdin, q) /\ killer' = TRUE
         \/ stdin' = stdin /\ killer' = killer
  BY DEF StopHost, HostOnly, page, hostv, None
<1>2. q \in Request /\ q.id = 0 /\ q.method = "host.shutdown"
  BY DEF Request, Methods
<1>. HIDE DEF q
<1>3. /\ stdin' \in Seq(Request) /\ Lines(stdin') \subseteq Lines(stdin) \cup {q}
      /\ alive \/ stdin' = stdin
  <2>1. stdin \in Seq(Request)
    BY DEF ShellInv, ShellTypes
  <2>2. Append(stdin, q) \in Seq(Request) /\ Lines(Append(stdin, q)) = Lines(stdin) \cup {q}
    BY <1>2, <2>1, LinesOf
  <2>3. Running => alive
    BY DEF Running
  <2>. QED BY <1>1, <2>1, <2>2, <2>3
<1>4. /\ Waiting' /\ AnswersMatch' /\ Chained' /\ Done' = Done /\ Copy' = Copy
      /\ AppliedIsThere' /\ FlushedIsSaved'
  BY <1>1, RestKeeps
<1>5. Pipes'
  <2>1. \A x \in Asked' : x \in Asked \/ (x.id = 0 /\ x.method # "doc.applyUpdate")
    BY <1>1, <1>2, <1>3 DEF Asked
  <2>2. ~alive => stdin = <<>> /\ busy = NoBusy
    BY DEF ShellInv, Pipes
  <2>. QED BY <1>1, <1>3, <2>1, <2>2, SilentPipes
<1>6. ShellTypes'
  BY <1>1, <1>3 DEF ShellInv, ShellTypes, HostOnly
<1>7. Saved'
  BY <1>1, <1>4 DEF ShellInv, Saved, HostOnly
<1>8. OpenedAtHost'
  <2>1. Opening' => Opening
    BY <1>2, <1>3 DEF Opening
  <2>. QED BY <1>1, <2>1 DEF ShellInv, OpenedAtHost, HostOnly, InView, Said
<1>. QED BY <1>4, <1>5, <1>6, <1>7, <1>8 DEF ShellInv

\* The process is gone by then, or is killed.
LEMMA AfterSleepKeeps == ASSUME ShellInv, AfterSleep PROVE ShellInv'
<1>1. HostOnly /\ UNCHANGED <<stdout, slot, errors, disk>> /\ killer' = FALSE
  BY DEF AfterSleep, HostOnly, page
<1>2. disk' = {Copy'} /\ Copy' = Copy
  BY <1>1 DEF Copy, ShellInv, Saved
<1>3. CASE alive
  <2>1. ProcessGone /\ deaths' \in Nat /\ deaths' # 0
    BY <1>3 DEF AfterSleep, ShellInv, ShellTypes
  <2>. QED BY <1>1, <1>2, <2>1, EndKeeps
<1>4. CASE ~alive
  <2>1. UNCHANGED <<alive, docOpen, body, stdin, busy, deaths>>
    BY <1>4 DEF AfterSleep
  <2>2. /\ Waiting' /\ AnswersMatch' /\ Chained' /\ Done' = Done
        /\ AppliedIsThere' /\ FlushedIsSaved'
    BY <1>1, <2>1, RestKeeps
  <2>3. Pipes'
    <3>1. \A x \in Asked' : x \in Asked
      BY <2>1 DEF Asked
    <3>2. ~alive => stdin = <<>> /\ busy = NoBusy
      BY DEF ShellInv, Pipes
    <3>. QED BY <1>1, <2>1, <3>1, <3>2, SilentPipes
  <2>4. ShellTypes'
    BY <1>1, <2>1 DEF ShellInv, ShellTypes, HostOnly
  <2>5. Saved'
    BY <1>1, <1>2, <2>1, <2>2 DEF ShellInv, Saved, HostOnly
  <2>6. OpenedAtHost'
    BY <1>1, <2>1 DEF ShellInv, OpenedAtHost, HostOnly, InView, Said, Opening
  <2>. QED BY <2>2, <2>3, <2>4, <2>5, <2>6 DEF ShellInv
<1>. QED BY <1>3, <1>4

\* A new process: its ids begin again, the commands of the last one wait for that one.
LEMMA StartHostKeeps == ASSUME ShellInv, StartHost PROVE ShellInv'
<1>1. /\ ~alive /\ life < MaxLives
      /\ life' = life + 1 /\ slot' = life + 1 /\ alive' = TRUE /\ nextId' = 1 /\ stdin' = <<>>
      /\ UNCHANGED <<killer, pending, stdout, busy, docOpen, body, disk, command, deaths, errors>>
      /\ UNCHANGED <<view, views, typed, pump, failed, told, kept>>
  BY DEF StartHost, hostv, page
<1>2. /\ life \in Nat /\ typed \in Nat /\ Done \in Int /\ Done' = Done /\ Copy' = Copy
      /\ \A r \in Roles : command[r].life \in Nat /\ command[r].id \in Nat
  BY <1>1, Parts DEF ShellInv, Done, Copy
<1>3. stdin = <<>> /\ busy = NoBusy
  BY <1>1 DEF ShellInv, Pipes
<1>4. Onwards
  BY <1>1, <1>2 DEF Onwards
<1>5. \A l \in Lives : Said(l)' = Said(l)
  BY <1>1 DEF Said
<1>6. \A l \in Lives : l = life' => Said(l) = {}
  <2>. SUFFICES ASSUME NEW l \in Lives, l = life + 1, NEW a \in Said(l) PROVE FALSE
    BY <1>1
  <2>1. l <= life
    BY DEF ShellInv, Pipes
  <2>. QED BY <1>2, <2>1
<1>7. Lines(stdin') = {} /\ Asked' = {NoBusy}
  BY <1>1, <1>3, NoLines DEF Asked
<1>8. Waiting'
  BY <1>1, <1>2 DEF ShellInv, Waiting
<1>9. AnswersMatch' /\ Chained'
  BY <1>1, <1>2 DEF ShellInv, AnswersMatch, Chained
<1>10. Pipes'
  <2>1. NoBusy.id = 0 /\ NoBusy.method = "none"
    BY DEF NoBusy
  <2>2. \A r \in Roles : command[r].pc = "waiting" => command[r].id # 0
    BY <1>2 DEF ShellInv, Waiting
  <2>3. Sound(life, NoBusy)'
    BY <1>1, <2>1, <2>2 DEF Sound
  <2>4. \A q \in Asked' : (life' = life /\ q \in Asked) \/ Sound(life, q)'
    BY <1>7, <2>3
  <2>. QED BY <1>1, <1>2, <1>4, <1>5, <2>4, PipesGoOn DEF ShellInv
<1>11. ShellTypes'
  <2>1. stdin' \in Seq(Request) /\ life' \in 0 .. MaxLives /\ nextId' \in Nat \ {0} /\ slot' \in Nat
    BY <1>1, <1>2, ShellConstants
  <2>. QED BY <1>1, <2>1 DEF ShellInv, ShellTypes
<1>12. Saved'
  BY <1>1, <1>2 DEF ShellInv, Saved
<1>13. OpenedAtHost'
  <2>1. ~Opening'
    BY <1>7 DEF Opening
  <2>2. command["view"].pc = "ok" /\ view.pc = "opening" => command["view"].life # life'
    BY <1>1, <1>2, Parts DEF ShellInv, Waiting
  <2>3. \A l \in Lives : l = life' => Said(l)' = {}
    BY <1>5, <1>6
  <2>4. life' \in Lives
    BY <1>1, <1>2, ShellConstants DEF Lives
  <2>5. Said(life)' = {}
    BY <2>3, <2>4 DEF Said
  <2>. QED BY <1>1, <2>1, <2>2, <2>5 DEF OpenedAtHost
<1>14. /\ \A d : Applied(d)' => Applied(d)
       /\ FlushAnswered' = FlushAnswered
  BY <1>1, <1>5 DEF Applied, FlushAnswered, Said
<1>15. AppliedIsThere' /\ FlushedIsSaved'
  BY <1>1, <1>2, <1>14 DEF ShellInv, AppliedIsThere, FlushedIsSaved, InView
<1>. QED BY <1>8, <1>9, <1>10, <1>11, <1>12, <1>13, <1>15 DEF ShellInv

-----------------------------------------------------------------------------
\* The host and its pipes stay, but for answers that are read.
HostStays ==
    /\ UNCHANGED <<life, alive, stdin, busy, docOpen, body, disk, deaths>>
    /\ \A l \in Lives : Said(l)' \subseteq Said(l)

\* Then the lines stay sound and the copy and the document as they are.
LEMMA HostStaysKeeps ==
    ASSUME ShellInv, HostStays, Onwards
    PROVE  /\ Pipes' /\ Copy' = Copy
           /\ kept' \subseteq Copy => Saved'
<1>1. Asked' = Asked /\ life' = life
  BY DEF HostStays, Asked
<1>2. Pipes'
  <2>1. \A q \in Asked' : (life' = life /\ q \in Asked) \/ Sound(life, q)'
    BY <1>1
  <2>2. (alive' => life' >= 1) /\ (~alive' => stdin' = <<>> /\ busy' = NoBusy)
    BY DEF HostStays, ShellInv, Pipes
  <2>3. \A l \in Lives : \A a \in Said(l)' : a \in Said(l)
    BY DEF HostStays
  <2>. QED BY <2>1, <2>2, <2>3, PipesGoOn DEF ShellInv
<1>3. Copy' = Copy
  BY DEF HostStays, Copy
<1>4. ASSUME kept' \subseteq Copy PROVE Saved'
  <2>1. \A d \in body \cup Copy : d \in Nat
    BY DEF ShellInv, ShellTypes, Copy
  <2>2. \A d \in body \cup Copy : 1 <= d /\ d <= Done' + 1 /\ d <= typed'
    BY <2>1, Parts DEF ShellInv, Saved, Onwards
  <2>. QED BY <1>3, <1>4, <2>2 DEF HostStays, ShellInv, Saved
<1>. QED BY <1>2, <1>3, <1>4

\* A command that an answer ends: the answer is to its request.
LEMMA DeliverEffect ==
    ASSUME ShellInv, NEW l \in Lives, Deliver(l)
    PROVE  /\ stdout' \in [Lives -> Seq(Answers)] /\ \A k \in Lives : Said(k)' \subseteq Said(k)
           /\ command' \in [Roles -> Command]
           /\ \E a \in Said(l) :
                 /\ pending' = pending \ Awaiting(l, a.id)
                 /\ \A r \in Roles :
                       \/ /\ command'[r] = command[r]
                          /\ \A p \in Awaiting(l, a.id) : p.by # r
                       \/ /\ command[r].pc = "waiting" /\ command[r].life = l /\ command[r].id = a.id
                          /\ command[r].method = a.method /\ command[r].arg = a.arg
                          /\ command'[r].pc = (IF a.ok THEN "ok" ELSE "error")
                          /\ command'[r].life = l /\ command'[r].id = command[r].id
                          /\ command'[r].method = a.method /\ command'[r].arg = a.arg
                          /\ command'[r].got = <<l, a.method, a.arg>>
<1>. DEFINE a == Head(stdout[l])
            W == Awaiting(l, a.id)
            done(r) == [command[r] EXCEPT !.pc = IF a.ok THEN "ok" ELSE "error",
                                          !.got = <<l, a.method, a.arg>>]
<1>1. /\ stdout[l] # <<>> /\ stdout' = [stdout EXCEPT ![l] = Tail(stdout[l])]
      /\ pending' = pending \ W
      /\ command' = [r \in Roles |-> IF \E p \in W : p.by = r THEN done(r) ELSE command[r]]
  BY DEF Deliver
<1>2. stdout[l] \in Seq(Answers) /\ stdout \in [Lives -> Seq(Answers)]
  BY DEF ShellInv, ShellTypes
<1>3. /\ a \in Answers /\ a \in Said(l)
      /\ Tail(stdout[l]) \in Seq(Answers) /\ Lines(Tail(stdout[l])) \subseteq Lines(stdout[l])
  BY <1>1, <1>2, LinesOf DEF Said
<1>4. stdout' \in [Lives -> Seq(Answers)] /\ \A k \in Lives : Said(k)' \subseteq Said(k)
  BY <1>1, <1>2, <1>3 DEF Said
<1>5. l \in Nat /\ a.id \in Nat /\ a.method \in Methods /\ a.arg \in Nat /\ a.ok \in BOOLEAN
  BY <1>3 DEF Answers, Lives
<1>6. ASSUME NEW r \in Roles
      PROVE  /\ done(r) \in Command
             /\ done(r).pc = (IF a.ok THEN "ok" ELSE "error")
             /\ done(r).life = command[r].life /\ done(r).id = command[r].id
             /\ done(r).method = command[r].method /\ done(r).arg = command[r].arg
             /\ done(r).got = <<l, a.method, a.arg>>
  <2>. HIDE DEF a
  <2>1. command[r] \in Command
    BY Parts DEF ShellInv
  <2>. QED BY <1>5, <2>1 DEF Command
<1>. HIDE DEF a
<1>7. ASSUME NEW r \in Roles, NEW p \in W, p.by = r
      PROVE  /\ command[r].pc = "waiting" /\ command[r].life = l /\ command[r].id = a.id
             /\ command[r].method = a.method /\ command[r].arg = a.arg
  <2>1. p \in pending /\ p.life = l /\ p.id = a.id
    BY <1>7 DEF Awaiting
  <2>2. Sound(l, a)
    BY <1>3 DEF ShellInv, Pipes
  <2>. QED BY <1>7, <2>1, <2>2 DEF ShellInv, Waiting, Sound
<1>. HIDE DEF done, W
<1>8. command' \in [Roles -> Command]
  BY <1>1, <1>6, Parts DEF ShellInv
<1>9. ASSUME NEW r \in Roles
      PROVE  \/ /\ command'[r] = command[r]
                /\ \A p \in W : p.by # r
             \/ /\ command[r].pc = "waiting" /\ command[r].life = l /\ command[r].id = a.id
                /\ command[r].method = a.method /\ command[r].arg = a.arg
                /\ command'[r].pc = (IF a.ok THEN "ok" ELSE "error")
                /\ command'[r].life = l /\ command'[r].id = command[r].id
                /\ command'[r].method = a.method /\ command'[r].arg = a.arg
                /\ command'[r].got = <<l, a.method, a.arg>>
  <2>1. CASE \E p \in W : p.by = r
    <3>1. command'[r] = done(r)
      BY <1>1, <2>1
    <3>2. PICK p \in W : p.by = r
      BY <2>1
    <3>. QED BY <1>6, <1>7, <3>1, <3>2
  <2>2. CASE ~ \E p \in W : p.by = r
    BY <1>1, <2>2
  <2>. QED BY <2>1, <2>2
<1>. QED BY <1>1, <1>3, <1>4, <1>8, <1>9 DEF W

\* An answer is delivered to the command it is for, or to none.
LEMMA DeliverKeeps == ASSUME ShellInv, NEW l \in Lives, Deliver(l) PROVE ShellInv'
<1>1. PICK a \in Said(l) :
         /\ stdout' \in [Lives -> Seq(Answers)] /\ \A k \in Lives : Said(k)' \subseteq Said(k)
         /\ command' \in [Roles -> Command]
         /\ pending' = pending \ Awaiting(l, a.id)
         /\ \A r \in Roles :
               \/ /\ command'[r] = command[r]
                  /\ \A p \in Awaiting(l, a.id) : p.by # r
               \/ /\ command[r].pc = "waiting" /\ command[r].life = l /\ command[r].id = a.id
                  /\ command[r].method = a.method /\ command[r].arg = a.arg
                  /\ command'[r].pc = (IF a.ok THEN "ok" ELSE "error")
                  /\ command'[r].life = l /\ command'[r].id = command[r].id
                  /\ command'[r].method = a.method /\ command'[r].arg = a.arg
                  /\ command'[r].got = <<l, a.method, a.arg>>
  BY DeliverEffect
<1>2. UNCHANGED <<slot, life, alive, killer, nextId, stdin, busy, docOpen, body, disk, deaths, errors,
                  view, views, typed, pump, failed, told, kept>>
  BY DEF Deliver, hostv, page
<1>3. HostStays
  BY <1>1, <1>2 DEF HostStays
<1>4. /\ typed \in Nat /\ Done \in Int /\ Done' = Done /\ nextId \in Nat
      /\ "view" \in Roles /\ "pump" \in Roles
  BY <1>2, Parts DEF ShellInv, ShellTypes, Done
<1>5. \A r \in Roles : command'[r].pc = "waiting" => command'[r] = command[r]
  BY <1>1
<1>6. Onwards
  BY <1>2, <1>4, <1>5 DEF Onwards
<1>7. \A r \in Roles : /\ command'[r].life = command[r].life /\ command'[r].id = command[r].id
                       /\ command'[r].method = command[r].method /\ command'[r].arg = command[r].arg
                       /\ command'[r].pc # "none" => command[r].pc # "none"
  BY <1>1
<1>8. Waiting'
  <2>1. ASSUME NEW p \in pending'
        PROVE  /\ command'[p.by].pc = "waiting"
               /\ command'[p.by].life = p.life /\ command'[p.by].id = p.id
    <3>1. p \in pending /\ p \notin Awaiting(l, a.id)
      BY <1>1, <2>1
    <3>2. /\ p.by \in Roles /\ command[p.by].pc = "waiting"
          /\ command[p.by].life = p.life /\ command[p.by].id = p.id
      BY <3>1 DEF ShellInv, ShellTypes, Waiting
    <3>3. ~(p.life = l /\ p.id = a.id)
      BY <3>1 DEF Awaiting
    <3>. QED BY <1>1, <3>2, <3>3
  <2>2. \A r \in Roles : command'[r].life <= life'
    BY <1>2, <1>7 DEF ShellInv, Waiting
  <2>3. \A r \in Roles : command'[r].pc = "waiting" =>
          /\ command'[r].id >= 1 /\ 1 <= command'[r].life
          /\ command'[r].life = life' => command'[r].id < nextId'
    BY <1>2, <1>5 DEF ShellInv, Waiting
  <2>. QED BY <2>1, <2>2, <2>3 DEF Waiting
<1>9. AnswersMatch'
  <2>. SUFFICES ASSUME NEW r \in Roles, command'[r].got # <<>>
                PROVE  command'[r].got = <<command'[r].life, command'[r].method, command'[r].arg>>
    BY DEF AnswersMatch
  <2>1. CASE command'[r] = command[r]
    BY <2>1 DEF ShellInv, AnswersMatch
  <2>2. CASE command'[r] # command[r]
    BY <1>1, <2>2
  <2>. QED BY <2>1, <2>2
<1>10. Pipes' /\ Copy' = Copy /\ Saved'
  BY <1>2, <1>3, <1>6, HostStaysKeeps DEF ShellInv, Saved
<1>11. Chained'
  BY <1>2, <1>4, <1>7 DEF ShellInv, Chained
<1>12. ShellTypes'
  BY <1>1, <1>2 DEF ShellInv, ShellTypes
<1>13. l <= life /\ a.ok \in BOOLEAN
  BY Parts DEF ShellInv, Pipes, Answers
<1>14. OpenedAtHost'
  <2>1. ASSUME view.pc = "opening", command'["view"].pc = "ok", command'["view"].life = life, alive
        PROVE  docOpen
    <3>1. CASE command'["view"] = command["view"]
      BY <1>4, <2>1, <3>1 DEF ShellInv, OpenedAtHost
    <3>2. CASE command'["view"] # command["view"]
      <4>1. /\ command["view"].pc = "waiting" /\ l = life /\ a.ok
            /\ command["view"].method = a.method
        BY <1>1, <1>4, <2>1, <3>2
      <4>2. a.method = "doc.open"
        BY <2>1, <4>1 DEF ShellInv, Chained
      <4>. QED BY <2>1, <4>1, <4>2 DEF ShellInv, OpenedAtHost
    <3>. QED BY <3>1, <3>2
  <2>2. command'["view"].pc \in {"waiting", "ok"} => command["view"].pc \in {"waiting", "ok"}
    BY <1>1, <1>4
  <2>3. alive => life \in Lives
    BY ShellConstants DEF ShellInv, Pipes, ShellTypes, Lives
  <2>4. alive => Said(life)' \subseteq Said(life)
    BY <1>1, <1>2, <2>3 DEF Said
  <2>. QED BY <1>2, <1>4, <1>7, <2>1, <2>2, <2>4 DEF ShellInv, OpenedAtHost, InView, Opening
<1>15. AppliedIsThere'
  <2>. SUFFICES ASSUME NEW d \in Nat, Applied(d)' PROVE Applied(d)
    BY <1>2, <1>10 DEF ShellInv, AppliedIsThere, InView
  <2>1. CASE command'["pump"].pc = "ok" /\ command'["pump"].arg = d
    <3>1. CASE command'["pump"] = command["pump"]
      BY <2>1, <3>1 DEF Applied
    <3>2. CASE command'["pump"] # command["pump"]
      <4>1. a.ok /\ command["pump"].method = a.method /\ a.arg = d /\ command["pump"].pc = "waiting"
        BY <1>1, <1>4, <2>1, <3>2
      <4>2. a.method = "doc.applyUpdate"
        BY <4>1 DEF ShellInv, Chained
      <4>. QED BY <4>1, <4>2 DEF Applied
    <3>. QED BY <3>1, <3>2
  <2>2. CASE d \in told'
    BY <1>2, <2>2 DEF Applied
  <2>3. CASE \E k \in Lives : \E x \in Said(k)' : x.ok /\ x.method = "doc.applyUpdate" /\ x.arg = d
    BY <1>1, <2>3 DEF Applied
  <2>. QED BY <2>1, <2>2, <2>3 DEF Applied
<1>16. FlushedIsSaved'
  <2>. SUFFICES ASSUME view.pc = "flushing", FlushAnswered' PROVE FlushAnswered
    BY <1>2, <1>10 DEF ShellInv, FlushedIsSaved
  <2>1. CASE command'["view"] = command["view"]
    <3>1. CASE command["view"].pc = "waiting"
      <4>1. command["view"].life \in Lives
        BY <1>4, <3>1, Parts, ShellConstants DEF ShellInv, Waiting, ShellTypes, Lives
      <4>2. Said(command["view"].life)' \subseteq Said(command["view"].life)
        BY <1>1, <2>1, <4>1 DEF Said
      <4>. QED BY <2>1, <3>1, <4>2 DEF FlushAnswered
    <3>2. CASE command["view"].pc # "waiting"
      BY <2>1, <3>2 DEF FlushAnswered
    <3>. QED BY <3>1, <3>2
  <2>2. CASE command'["view"] # command["view"]
    <3>1. /\ command["view"].pc = "waiting" /\ command["view"].life = l /\ command["view"].id = a.id
          /\ command'["view"].pc = (IF a.ok THEN "ok" ELSE "error")
      BY <1>1, <1>4, <2>2
    <3>2. a.ok
      BY <3>1 DEF FlushAnswered
    <3>. QED BY <3>1, <3>2 DEF FlushAnswered
  <2>. QED BY <2>1, <2>2
<1>. QED BY <1>8, <1>9, <1>10, <1>11, <1>12, <1>14, <1>15, <1>16 DEF ShellInv

\* A command gives up: its answer will find nobody waiting.
LEMMA TimeOutKeeps == ASSUME ShellInv, NEW r \in Roles, TimeOut(r) PROVE ShellInv'
<1>. DEFINE c == [command[r] EXCEPT !.pc = "error"]
<1>1. /\ command[r].pc = "waiting" /\ pending' = {p \in pending : p.by # r}
      /\ command' = [command EXCEPT ![r] = c] /\ errors' \in Nat
      /\ UNCHANGED <<slot, life, alive, killer, nextId, stdin, stdout, busy, docOpen, body, disk, deaths,
                     view, views, typed, pump, failed, told, kept>>
  BY DEF TimeOut, pipes, hostv, page, ShellInv, ShellTypes
<1>2. command[r] \in Command
  BY Parts DEF ShellInv
<1>3. /\ c \in Command /\ c.pc = "error" /\ c.life = command[r].life /\ c.id = command[r].id
      /\ c.method = command[r].method /\ c.arg = command[r].arg /\ c.got = command[r].got
  BY <1>2 DEF Command
<1>. HIDE DEF c
<1>4. /\ command' \in [Roles -> Command] /\ command'[r] = c
      /\ \A x \in Roles : x # r => command'[x] = command[x]
  BY <1>1, <1>3 DEF ShellInv, ShellTypes
<1>5. \A x \in Roles : /\ command'[x].life = command[x].life /\ command'[x].id = command[x].id
                       /\ command'[x].method = command[x].method /\ command'[x].arg = command[x].arg
                       /\ command'[x].got = command[x].got
                       /\ command'[x].pc # "none" => command[x].pc # "none"
                       /\ command'[x].pc = "waiting" => command[x].pc = "waiting"
                       /\ command'[x].pc = "ok" => command[x].pc = "ok"
  BY <1>1, <1>3, <1>4
<1>6. Done' = Done /\ Done \in Int /\ typed \in Nat /\ nextId \in Nat /\ "view" \in Roles /\ "pump" \in Roles
  BY <1>1, Parts DEF ShellInv, ShellTypes, Done
<1>7. Onwards
  BY <1>1, <1>5, <1>6 DEF Onwards
<1>8. HostStays
  BY <1>1 DEF HostStays, Said
<1>9. Waiting'
  <2>1. \A p \in pending' : p \in pending /\ p.by \in Roles /\ p.by # r
    BY <1>1 DEF ShellInv, ShellTypes
  <2>2. \A p \in pending' : command'[p.by] = command[p.by] /\ p \in pending
    BY <1>4, <2>1
  <2>. QED BY <1>1, <1>5, <2>2 DEF ShellInv, Waiting
<1>10. AnswersMatch'
  BY <1>5 DEF ShellInv, AnswersMatch
<1>11. Pipes' /\ Copy' = Copy /\ Saved'
  BY <1>1, <1>7, <1>8, HostStaysKeeps DEF ShellInv, Saved
<1>12. Chained'
  BY <1>1, <1>5, <1>6 DEF ShellInv, Chained
<1>13. ShellTypes'
  BY <1>1, <1>4 DEF ShellInv, ShellTypes
<1>14. OpenedAtHost'
  BY <1>1, <1>5, <1>6 DEF ShellInv, OpenedAtHost, InView, Opening, Said
<1>15. AppliedIsThere'
  <2>1. \A d : Applied(d)' => Applied(d)
    BY <1>1, <1>5, <1>6 DEF Applied, Said
  <2>. QED BY <1>1, <1>11, <2>1 DEF ShellInv, AppliedIsThere, InView
<1>16. FlushedIsSaved'
  <2>1. FlushAnswered' => FlushAnswered
    BY <1>1, <1>5, <1>6 DEF FlushAnswered, Said
  <2>. QED BY <1>1, <1>11, <2>1 DEF ShellInv, FlushedIsSaved
<1>. QED BY <1>9, <1>10, <1>11, <1>12, <1>13, <1>14, <1>15, <1>16 DEF ShellInv

-----------------------------------------------------------------------------
\* A command that has returned is taken off.
LEMMA TakenOff ==
    ASSUME ShellInv, NEW r \in Roles, command[r].pc \in {"ok", "error"},
           command' = [command EXCEPT ![r] = NoCommand],
           UNCHANGED <<rust, pipes, hostv, deaths, errors>>,
           Done' \in Int, Done <= Done', typed' = typed
    PROVE  /\ command' \in [Roles -> Command] /\ command'[r].pc = "none"
           /\ \A x \in Roles : x # r => command'[x] = command[x]
           /\ Waiting' /\ AnswersMatch' /\ Pipes' /\ Copy' = Copy
           /\ UNCHANGED <<slot, life, alive, killer, nextId, pending, stdin, stdout, busy,
                          docOpen, body, disk, deaths, errors>>
           /\ kept' \subseteq Copy => Saved'
<1>1. UNCHANGED <<slot, life, alive, killer, nextId, pending, stdin, stdout, busy,
                  docOpen, body, disk, deaths, errors>>
  BY DEF rust, pipes, hostv
<1>2. NoCommand \in Command /\ NoCommand.pc = "none" /\ NoCommand.life = 0 /\ NoCommand.got = <<>>
  BY DEF NoCommand, Command, Methods, None
<1>3. /\ command' \in [Roles -> Command] /\ command'[r] = NoCommand
      /\ \A x \in Roles : x # r => command'[x] = command[x]
  BY <1>2 DEF ShellInv, ShellTypes
<1>4. life \in Nat /\ typed \in Nat /\ Done \in Int /\ nextId \in Nat
  BY Parts DEF ShellInv, ShellTypes
<1>5. Waiting'
  <2>1. \A p \in pending : p.by \in Roles /\ p.by # r
    BY DEF ShellInv, ShellTypes, Waiting
  <2>2. \A p \in pending : command'[p.by] = command[p.by]
    BY <1>3, <2>1
  <2>3. \A x \in Roles : command'[x].life <= life
    BY <1>2, <1>3, <1>4 DEF ShellInv, Waiting
  <2>. QED BY <1>1, <1>2, <1>3, <2>2, <2>3 DEF ShellInv, Waiting
<1>6. AnswersMatch'
  BY <1>2, <1>3 DEF ShellInv, AnswersMatch
<1>7. Onwards
  BY <1>1, <1>2, <1>3, <1>4 DEF Onwards
<1>8. HostStays
  BY <1>1 DEF HostStays, Said
<1>. QED BY <1>1, <1>2, <1>3, <1>5, <1>6, <1>7, <1>8, HostStaysKeeps

\* The page shows the document: what it shows was there before any later update.
LEMMA OpenedKeeps == ASSUME ShellInv, Opened PROVE ShellInv'
<1>1. /\ view.pc = "opening" /\ command["view"].pc \in {"ok", "error"}
      /\ command' = [command EXCEPT !["view"] = NoCommand]
      /\ UNCHANGED <<views, typed, pump, failed, told, kept>>
      /\ UNCHANGED <<rust, pipes, hostv, deaths, errors>>
  BY DEF Opened
<1>2. /\ typed \in Nat /\ Len(pump) \in Nat /\ Done \in Int /\ Done' = Done /\ Done <= typed
      /\ "view" \in Roles /\ "pump" \in Roles
  BY <1>1, Parts DEF ShellInv, Done, Chained
<1>3. /\ command' \in [Roles -> Command] /\ command'["view"].pc = "none"
      /\ command'["pump"] = command["pump"]
      /\ Waiting' /\ AnswersMatch' /\ Pipes' /\ Copy' = Copy /\ Saved'
      /\ UNCHANGED <<slot, life, alive, killer, nextId, pending, stdin, stdout, busy,
                     docOpen, body, disk, deaths, errors>>
  <2>1. Done' \in Int /\ Done <= Done' /\ typed' = typed /\ kept' = kept
    BY <1>1, <1>2
  <2>. QED BY <1>1, <1>2, <2>1, TakenOff DEF ShellInv, Saved
<1>4. /\ view' \in View
      /\ \/ command["view"].pc = "ok" /\ view'.pc = "open" /\ view'.since = typed + 1
         \/ command["view"].pc = "error" /\ view'.pc = "list"
  <2>. DEFINE o == [pc |-> "open", since |-> typed + 1, upto |-> 0]
              e == [view EXCEPT !.pc = "list"]
  <2>1. o \in View /\ o.pc = "open" /\ o.since = typed + 1
    BY <1>2 DEF View
  <2>2. e \in View /\ e.pc = "list"
    BY DEF ShellInv, ShellTypes, View
  <2>3. view' = IF command["view"].pc = "ok" THEN o ELSE e
    BY DEF Opened
  <2>. HIDE DEF o, e
  <2>. QED BY <1>1, <2>1, <2>2, <2>3
<1>5. ShellTypes'
  BY <1>1, <1>3, <1>4 DEF ShellInv, ShellTypes
<1>6. Chained'
  BY <1>1, <1>2, <1>3, <1>4 DEF ShellInv, Chained
<1>7. OpenedAtHost'
  <2>1. Opening => alive
    BY NoLines DEF Opening, ShellInv, Pipes
  <2>. QED BY <1>1, <1>3, <1>4, <2>1 DEF ShellInv, OpenedAtHost, InView, Opening, Said
<1>8. AppliedIsThere'
  <2>. SUFFICES ASSUME NEW d \in Nat, Applied(d)'
                PROVE  Applied(d) /\ d <= typed
    BY <1>1, <1>2, <1>3, <1>4 DEF ShellInv, AppliedIsThere, InView
  <2>1. Applied(d)
    BY <1>1, <1>3 DEF Applied, Said
  <2>2. CASE d \in told
    <3>1. d \in 1 .. Done
      BY <2>2 DEF ShellInv, Chained
    <3>. QED BY <1>2, <2>1, <3>1
  <2>3. CASE command["pump"].pc = "ok" /\ command["pump"].arg = d
    <3>1. pump # <<>> /\ d = Done + 1
      BY <2>3 DEF ShellInv, Chained
    <3>2. pump \in Seq(Updates)
      BY DEF ShellInv, ShellTypes
    <3>3. Len(pump) # 0
      BY <3>1, <3>2, EmptySeq
    <3>4. Done = typed - Len(pump)
      BY DEF Done
    <3>. HIDE DEF Done
    <3>. QED BY <1>2, <2>1, <3>1, <3>3, <3>4
  <2>4. CASE \E l \in Lives : \E a \in Said(l) : a.ok /\ a.method = "doc.applyUpdate" /\ a.arg = d
    <3>1. PICK l \in Lives : \E a \in Said(l) : a.ok /\ a.method = "doc.applyUpdate" /\ a.arg = d
      BY <2>4
    <3>2. PICK a \in Said(l) : a.ok /\ a.method = "doc.applyUpdate" /\ a.arg = d
      BY <3>1
    <3>3. Sound(l, a)
      BY DEF ShellInv, Pipes
    <3>. QED BY <2>1, <3>2, <3>3 DEF Sound
  <2>. QED BY <2>1, <2>2, <2>3, <2>4 DEF Applied
<1>9. FlushedIsSaved'
  BY <1>4 DEF FlushedIsSaved
<1>. QED BY <1>3, <1>5, <1>6, <1>7, <1>8, <1>9 DEF ShellInv

\* The call of the first update in the pump has returned.
LEMMA PumpReturnedKeeps == ASSUME ShellInv, PumpReturned PROVE ShellInv'
<1>1. /\ command["pump"].pc \in {"ok", "error"} /\ pump' = Tail(pump)
      /\ command' = [command EXCEPT !["pump"] = NoCommand]
      /\ UNCHANGED <<view, views, typed, kept>>
      /\ UNCHANGED <<rust, pipes, hostv, deaths, errors>>
      /\ \/ command["pump"].pc = "ok" /\ told' = told \cup {command["pump"].arg} /\ failed' = failed
         \/ failed' = failed \cup {command["pump"].arg} /\ told' = told
  BY DEF PumpReturned
<1>2. /\ typed \in Nat /\ Len(pump) \in Nat /\ Done \in Int /\ Done <= typed /\ Done >= 0
      /\ "view" \in Roles /\ "pump" \in Roles
  BY <1>1, Parts DEF ShellInv, Done, Chained
<1>3. pump # <<>> /\ command["pump"].arg = Done + 1
  BY <1>1 DEF ShellInv, Chained
<1>4. /\ pump' \in Seq(Updates) /\ Len(pump') = Len(pump) - 1
      /\ \A i \in 1 .. Len(pump') : pump'[i] = pump[i + 1]
  BY <1>1, <1>3, HeadTailProperties DEF ShellInv, ShellTypes
<1>5. Done' = Done + 1 /\ Len(pump') \in Nat
  BY <1>1, <1>2, <1>4, LenProperties DEF Done
<1>6. /\ command' \in [Roles -> Command] /\ command'["pump"].pc = "none"
      /\ command'["view"] = command["view"]
      /\ Waiting' /\ AnswersMatch' /\ Pipes' /\ Copy' = Copy /\ Saved'
      /\ UNCHANGED <<slot, life, alive, killer, nextId, pending, stdin, stdout, busy,
                     docOpen, body, disk, deaths, errors>>
  <2>1. Done' \in Int /\ Done <= Done' /\ typed' = typed /\ kept' = kept
    BY <1>1, <1>2, <1>5
  <2>. QED BY <1>1, <1>2, <2>1, TakenOff DEF ShellInv, Saved
<1>7. ShellTypes'
  <2>1. told' \subseteq Nat /\ failed' \subseteq Nat
    <3>1. command["pump"].arg \in Nat /\ told \subseteq Nat /\ failed \subseteq Nat
      BY <1>2, Parts DEF ShellInv, ShellTypes
    <3>. QED BY <1>1, <3>1
  <2>. QED BY <1>1, <1>4, <1>6, <2>1 DEF ShellInv, ShellTypes
<1>8. Chained'
  <2>1. \A i \in 1 .. Len(pump') : pump'[i] = Done' + i
    BY <1>2, <1>4, <1>5 DEF ShellInv, Chained
  <2>2. told' \cup failed' = 1 .. Done'
    <3>1. told' \cup failed' = (told \cup failed) \cup {Done + 1}
      BY <1>1, <1>3
    <3>2. 1 .. Done + 1 = (1 .. Done) \cup {Done + 1}
      BY <1>2
    <3>. QED BY <1>5, <3>1, <3>2 DEF ShellInv, Chained
  <2>3. Len(pump') <= typed
    BY <1>2, <1>4, <1>5 DEF ShellInv, Chained
  <2>4. view.upto \in Nat
    BY DEF ShellInv, ShellTypes, View
  <2>5. view.pc = "flushing" => view.upto <= Done'
    BY <1>2, <1>5, <2>4 DEF ShellInv, Chained
  <2>. QED BY <1>1, <1>6, <2>1, <2>2, <2>3, <2>5 DEF ShellInv, Chained
<1>9. OpenedAtHost'
  BY <1>1, <1>6 DEF ShellInv, OpenedAtHost, InView, Opening, Said
<1>10. AppliedIsThere'
  <2>1. \A d : Applied(d)' => Applied(d)
    BY <1>1, <1>6 DEF Applied, Said
  <2>. QED BY <1>1, <1>6, <2>1 DEF ShellInv, AppliedIsThere, InView
<1>11. FlushedIsSaved'
  <2>1. FlushAnswered' = FlushAnswered /\ failed \subseteq failed'
    BY <1>1, <1>6 DEF FlushAnswered, Said
  <2>. QED BY <1>1, <1>6, <2>1 DEF ShellInv, FlushedIsSaved
<1>. QED BY <1>6, <1>7, <1>8, <1>9, <1>10, <1>11 DEF ShellInv

\* Back is done: if its flush was answered, what it covers is saved.
LEMMA BackReturnsKeeps == ASSUME ShellInv, BackReturns PROVE ShellInv'
<1>1. /\ view.pc = "flushing" /\ command["view"].pc \in {"ok", "error"}
      /\ command' = [command EXCEPT !["view"] = NoCommand]
      /\ view' = [view EXCEPT !.pc = "list"]
      /\ kept' = IF command["view"].pc = "ok"
                 THEN kept \cup ((view.since .. view.upto) \ failed) ELSE kept
      /\ UNCHANGED <<views, typed, pump, failed, told>>
      /\ UNCHANGED <<rust, pipes, hostv, deaths, errors>>
  BY DEF BackReturns
<1>2. /\ typed \in Nat /\ Done \in Int /\ Done' = Done
      /\ "view" \in Roles /\ "pump" \in Roles
  BY <1>1, Parts DEF ShellInv, Done
<1>3. kept' \subseteq Copy
  BY <1>1 DEF ShellInv, Saved, FlushedIsSaved, FlushAnswered
<1>4. /\ command' \in [Roles -> Command] /\ command'["view"].pc = "none"
      /\ command'["pump"] = command["pump"]
      /\ Waiting' /\ AnswersMatch' /\ Pipes' /\ Copy' = Copy /\ Saved'
      /\ UNCHANGED <<slot, life, alive, killer, nextId, pending, stdin, stdout, busy,
                     docOpen, body, disk, deaths, errors>>
  <2>1. Done' \in Int /\ Done <= Done' /\ typed' = typed
    BY <1>1, <1>2
  <2>. QED BY <1>1, <1>2, <1>3, <2>1, TakenOff
<1>5. view' \in View /\ view'.pc = "list"
  BY <1>1 DEF ShellInv, ShellTypes, View
<1>6. ShellTypes'
  <2>1. kept' \subseteq Nat
    BY <1>3 DEF Copy, ShellInv, ShellTypes
  <2>. QED BY <1>1, <1>4, <1>5, <2>1 DEF ShellInv, ShellTypes
<1>7. Chained'
  BY <1>1, <1>2, <1>4, <1>5 DEF ShellInv, Chained
<1>8. OpenedAtHost'
  BY <1>1, <1>4, <1>5 DEF ShellInv, OpenedAtHost, InView, Opening, Said
<1>9. AppliedIsThere'
  <2>1. \A d : Applied(d)' => Applied(d)
    BY <1>1, <1>4 DEF Applied, Said
  <2>. QED BY <1>1, <1>4, <1>5, <2>1 DEF ShellInv, AppliedIsThere, InView
<1>10. FlushedIsSaved'
  BY <1>5 DEF FlushedIsSaved
<1>. QED BY <1>4, <1>6, <1>7, <1>8, <1>9, <1>10 DEF ShellInv

\* A call: its line is sound, and nothing that was said, applied or saved changes.
LEMMA RpcKeeps ==
    ASSUME ShellInv, NEW r \in Roles, NEW m \in Methods, NEW a \in Nat, Rpc(r, m, a),
           UNCHANGED <<typed, pump, failed, told, kept>>,
           m = "doc.applyUpdate" => a = Done + 1 /\ pump # <<>>
    PROVE  /\ Waiting' /\ AnswersMatch' /\ Pipes' /\ Saved' /\ Copy' = Copy /\ Done' = Done
           /\ UNCHANGED <<slot, life, alive, killer, stdout, busy, docOpen, body, disk, deaths, errors>>
           /\ nextId' \in Nat \ {0} /\ pending' \subseteq [life : Nat, id : Nat, by : Roles]
           /\ stdin' \in Seq(Request) /\ command' \in [Roles -> Command]
           /\ \A x \in Roles : x # r => command'[x] = command[x]
           /\ command[r].pc = "none" /\ command'[r].method = m /\ command'[r].arg = a
           /\ command'[r].pc \in {"waiting", "error"}
           /\ Opening' => Opening \/ m = "doc.open"
           /\ command'[r].pc = "waiting" => command'[r].life = life /\ command'[r].id = nextId
           /\ \A d : Applied(d)' => Applied(d)
<1>1. /\ nextId' \in Nat \ {0} /\ pending' \subseteq [life : Nat, id : Nat, by : Roles]
      /\ stdin' \in Seq(Request) /\ command' \in [Roles -> Command]
      /\ command[r].pc = "none"
      /\ \A x \in Roles : x # r => command'[x] = command[x]
      /\ command'[r].method = m /\ command'[r].arg = a /\ command'[r].got = <<>>
      /\ \/ /\ command'[r].pc = "error" /\ command'[r].life = 0
            /\ pending' = pending /\ stdin' = stdin /\ nextId' = nextId
         \/ /\ Running /\ nextId' = nextId + 1
            /\ command'[r].pc = "waiting"
            /\ command'[r].life = life /\ command'[r].id = nextId
            /\ \E p : /\ p.life = life /\ p.id = nextId /\ p.by = r
                      /\ pending' = pending \cup {p}
            /\ \E q \in Request : /\ q.id = nextId /\ q.method = m /\ q.arg = a
                                  /\ Lines(stdin') = Lines(stdin) \cup {q}
  BY RpcEffect DEF ShellInv
<1>2. UNCHANGED <<slot, life, alive, killer, stdout, busy, docOpen, body, disk, deaths, errors>>
  BY DEF Rpc, hostv
<1>3. /\ life \in Nat /\ nextId \in Nat \ {0} /\ typed \in Nat /\ Done \in Int /\ Len(pump) \in Nat
      /\ Copy' = Copy /\ Done' = Done
      /\ \A x \in Roles : command[x].id \in Nat /\ command[x].life \in Nat
  BY <1>2, Parts DEF ShellInv, ShellTypes, Copy, Done
<1>4. Running => alive /\ life >= 1
  BY DEF Running, ShellInv, Pipes
<1>5. Waiting'
  <2>1. \A p \in pending : p.by \in Roles /\ p.by # r
    BY <1>1 DEF ShellInv, ShellTypes, Waiting
  <2>2. \A p \in pending' : /\ command'[p.by].pc = "waiting"
                            /\ command'[p.by].life = p.life /\ command'[p.by].id = p.id
    <3>1. CASE pending' = pending
      BY <1>1, <2>1, <3>1 DEF ShellInv, Waiting
    <3>2. CASE pending' # pending
      <4>1. PICK p : p.life = life /\ p.id = nextId /\ p.by = r /\ pending' = pending \cup {p}
        BY <1>1, <3>2
      <4>2. command'[r].pc = "waiting" /\ command'[r].life = life /\ command'[r].id = nextId
        BY <1>1, <3>2
      <4>3. \A x \in pending : command'[x.by] = command[x.by]
        BY <1>1, <2>1
      <4>. QED BY <4>1, <4>2, <4>3 DEF ShellInv, Waiting
    <3>. QED BY <3>1, <3>2
  <2>3. \A x \in Roles : command'[x].life <= life'
    BY <1>1, <1>2, <1>3 DEF ShellInv, Waiting
  <2>4. ASSUME NEW x \in Roles, command'[x].pc = "waiting"
        PROVE  /\ command'[x].id >= 1 /\ 1 <= command'[x].life
               /\ command'[x].life = life' => command'[x].id < nextId'
    <3>1. CASE x = r
      BY <1>1, <1>2, <1>3, <1>4, <2>4, <3>1
    <3>2. CASE x # r
      <4>1. /\ command'[x] = command[x] /\ command[x].id >= 1 /\ 1 <= command[x].life
            /\ command[x].life = life => command[x].id < nextId
        BY <1>1, <2>4, <3>2 DEF ShellInv, Waiting
      <4>2. nextId <= nextId' /\ nextId' \in Nat
        BY <1>1, <1>3
      <4>. QED BY <1>2, <1>3, <4>1, <4>2
    <3>. QED BY <3>1, <3>2
  <2>. QED BY <2>2, <2>3, <2>4 DEF Waiting
<1>6. AnswersMatch'
  BY <1>1 DEF ShellInv, AnswersMatch
<1>7. Onwards
  <2>1. nextId <= nextId'
    BY <1>1, <1>3
  <2>2. \A x \in Roles : command'[x].pc = "waiting" =>
           \/ /\ command[x].pc = "waiting"
              /\ command'[x].life = command[x].life /\ command'[x].id = command[x].id
              /\ command'[x].method = command[x].method /\ command'[x].arg = command[x].arg
           \/ command'[x].life = life /\ command'[x].id = nextId
    BY <1>1
  <2>. QED BY <1>1, <1>2, <1>3, <2>1, <2>2 DEF Onwards
<1>8. Pipes'
  <2>1. ASSUME NEW q \in Request, q.id = nextId, q.method = m, q.arg = a, Running,
               nextId' = nextId + 1, command'[r].pc = "waiting"
        PROVE  Sound(life, q)'
    <3>1. life' = life => q.id < nextId'
      BY <1>3, <2>1
    <3>2. ASSUME NEW x \in Roles, command'[x].pc = "waiting", command'[x].life = life',
                 command'[x].id = q.id
          PROVE  q.method = command'[x].method /\ q.arg = command'[x].arg
      <4>1. CASE x = r
        BY <1>1, <2>1, <4>1
      <4>2. CASE x # r
        <5>1. command[x].pc = "waiting" /\ command[x].life = life /\ command[x].id = nextId
          BY <1>1, <1>2, <2>1, <3>2, <4>2
        <5>2. command[x].id < nextId
          BY <5>1 DEF ShellInv, Waiting
        <5>. QED BY <1>3, <5>1, <5>2
      <4>. QED BY <4>1, <4>2
    <3>3. ASSUME q.method = "doc.applyUpdate"
          PROVE  1 <= q.arg /\ q.arg <= Done' + 1 /\ q.arg <= typed'
      <4>1. a = Done + 1 /\ pump \in Seq(Updates) /\ Len(pump) # 0
        BY <2>1, <3>3, EmptySeq DEF ShellInv, ShellTypes
      <4>2. Done = typed - Len(pump) /\ Len(pump) <= typed
        BY DEF Done, ShellInv, Chained
      <4>. HIDE DEF Done
      <4>. QED BY <1>3, <2>1, <4>1, <4>2
    <3>. QED BY <1>2, <3>1, <3>2, <3>3 DEF Sound
  <2>2. ASSUME NEW q \in Asked' PROVE (life' = life /\ q \in Asked) \/ Sound(life, q)'
    <3>1. CASE Lines(stdin') = Lines(stdin)
      BY <1>2, <2>2, <3>1 DEF Asked
    <3>2. CASE Lines(stdin') # Lines(stdin)
      <4>1. PICK x \in Request : /\ x.id = nextId /\ x.method = m /\ x.arg = a
                                 /\ Lines(stdin') = Lines(stdin) \cup {x}
        BY <1>1, <3>2
      <4>2. Running /\ nextId' = nextId + 1 /\ command'[r].pc = "waiting"
        BY <1>1, <3>2
      <4>3. Sound(life, x)'
        BY <2>1, <4>1, <4>2
      <4>4. q \in Asked \/ q = x
        BY <1>2, <2>2, <4>1 DEF Asked
      <4>. QED BY <1>2, <4>3, <4>4
    <3>. QED BY <3>1, <3>2
  <2>3. \A l \in Lives : \A x \in Said(l)' : x \in Said(l)
    BY <1>2 DEF Said
  <2>4. (alive' => life' >= 1) /\ (~alive' => stdin' = <<>> /\ busy' = NoBusy)
    BY <1>1, <1>2, <1>4 DEF ShellInv, Pipes
  <2>. QED BY <1>7, <2>2, <2>3, <2>4, PipesGoOn DEF ShellInv
<1>9. Saved'
  BY <1>2, <1>3 DEF ShellInv, Saved
<1>10. Opening' => Opening \/ m = "doc.open"
  BY <1>1 DEF Opening
<1>11. \A d : Applied(d)' => Applied(d)
  <2>1. command'["pump"].pc = "ok" => command'["pump"] = command["pump"]
    BY <1>1 DEF Roles
  <2>. QED BY <1>2, <2>1 DEF Applied, Said
<1>. QED BY <1>1, <1>2, <1>3, <1>5, <1>6, <1>8, <1>9, <1>10, <1>11

\* The page calls doc.open.
LEMMA ShowDocumentKeeps == ASSUME ShellInv, ShowDocument PROVE ShellInv'
<1>. DEFINE r == "view"  m == "doc.open"
<1>1. /\ view.pc = "list" /\ Rpc(r, m, 0) /\ view' = [view EXCEPT !.pc = "opening"]
      /\ views' = views + 1
      /\ UNCHANGED <<typed, pump, failed, told, kept>>
  BY DEF ShowDocument
<1>2. r \in Roles /\ m \in Methods /\ "pump" \in Roles /\ "pump" # r /\ m # "doc.applyUpdate"
  BY DEF Roles, Methods
<1>3. /\ Waiting' /\ AnswersMatch' /\ Pipes' /\ Saved' /\ Copy' = Copy /\ Done' = Done
      /\ UNCHANGED <<slot, life, alive, killer, stdout, busy, docOpen, body, disk, deaths, errors>>
      /\ nextId' \in Nat \ {0} /\ pending' \subseteq [life : Nat, id : Nat, by : Roles]
      /\ stdin' \in Seq(Request) /\ command' \in [Roles -> Command]
      /\ \A x \in Roles : x # r => command'[x] = command[x]
      /\ command'[r].method = m /\ command'[r].pc \in {"waiting", "error"}
      /\ command'[r].pc = "waiting" => command'[r].life = life
      /\ \A d : Applied(d)' => Applied(d)
  BY <1>1, <1>2, RpcKeeps
<1>4. view' \in View /\ view'.pc = "opening" /\ view'.since = view.since /\ view'.upto = view.upto
  BY <1>1 DEF ShellInv, ShellTypes, View
<1>5. ShellTypes'
  <2>1. views' \in Nat
    BY <1>1 DEF ShellInv, ShellTypes
  <2>. QED BY <1>1, <1>3, <1>4, <2>1 DEF ShellInv, ShellTypes
<1>6. Chained'
  BY <1>1, <1>2, <1>3, <1>4 DEF ShellInv, Chained
<1>7. OpenedAtHost'
  BY <1>1, <1>2, <1>3, <1>4 DEF ShellInv, OpenedAtHost, InView, Said
<1>8. AppliedIsThere'
  BY <1>1, <1>3, <1>4 DEF ShellInv, AppliedIsThere, InView
<1>9. FlushedIsSaved'
  BY <1>4 DEF FlushedIsSaved
<1>. QED BY <1>3, <1>5, <1>6, <1>7, <1>8, <1>9 DEF ShellInv

\* The pump calls for the update after those whose calls have returned.
LEMMA PumpNextKeeps == ASSUME ShellInv, PumpNext PROVE ShellInv'
<1>. DEFINE r == "pump"  m == "doc.applyUpdate"  a == Head(pump)
<1>1. /\ pump # <<>> /\ Rpc(r, m, a)
      /\ UNCHANGED <<view, views, typed, pump, failed, told, kept>>
  BY DEF PumpNext, page
<1>2. r \in Roles /\ m \in Methods /\ "view" \in Roles /\ "view" # r
  BY DEF Roles, Methods
<1>3. a = Done + 1 /\ a \in Nat
  <2>1. pump \in Seq(Updates) /\ Len(pump) \in Nat \ {0}
    BY <1>1, EmptySeq DEF ShellInv, ShellTypes
  <2>2. a = pump[1]
    BY <1>1, <2>1
  <2>3. a \in Updates
    BY <1>1, <2>1, HeadTailProperties
  <2>. HIDE DEF a
  <2>. QED BY <2>1, <2>2, <2>3 DEF ShellInv, Chained, Updates
<1>. HIDE DEF a
<1>4. /\ Waiting' /\ AnswersMatch' /\ Pipes' /\ Saved' /\ Copy' = Copy /\ Done' = Done
      /\ UNCHANGED <<slot, life, alive, killer, stdout, busy, docOpen, body, disk, deaths, errors>>
      /\ nextId' \in Nat \ {0} /\ pending' \subseteq [life : Nat, id : Nat, by : Roles]
      /\ stdin' \in Seq(Request) /\ command' \in [Roles -> Command]
      /\ \A x \in Roles : x # r => command'[x] = command[x]
      /\ command'[r].method = m /\ command'[r].arg = a
      /\ Opening' => Opening \/ m = "doc.open"
      /\ \A d : Applied(d)' => Applied(d)
  BY <1>1, <1>2, <1>3, RpcKeeps
<1>5. command'["view"] = command["view"]
  BY <1>2, <1>4
<1>6. ShellTypes'
  BY <1>1, <1>4 DEF ShellInv, ShellTypes
<1>7. Chained'
  BY <1>1, <1>3, <1>4, <1>5 DEF ShellInv, Chained
<1>8. OpenedAtHost'
  BY <1>1, <1>4, <1>5 DEF ShellInv, OpenedAtHost, InView, Said
<1>9. AppliedIsThere'
  BY <1>1, <1>4 DEF ShellInv, AppliedIsThere, InView
<1>10. FlushedIsSaved'
  BY <1>1, <1>4, <1>5 DEF ShellInv, FlushedIsSaved, FlushAnswered, Said
<1>. QED BY <1>4, <1>6, <1>7, <1>8, <1>9, <1>10 DEF ShellInv

\* Back calls doc.flush: the calls it awaited have returned.
LEMMA BackFlushesKeeps == ASSUME ShellInv, BackFlushes PROVE ShellInv'
<1>. DEFINE r == "view"  m == "doc.flush"
<1>1. /\ view.pc = "draining" /\ Rpc(r, m, 0) /\ view' = [view EXCEPT !.pc = "flushing"]
      /\ \A i \in 1 .. Len(pump) : pump[i] > view.upto
      /\ UNCHANGED <<views, typed, pump, failed, told, kept>>
  BY DEF BackFlushes
<1>2. r \in Roles /\ m \in Methods /\ "pump" \in Roles /\ "pump" # r /\ m # "doc.applyUpdate"
  BY DEF Roles, Methods
<1>3. /\ Waiting' /\ AnswersMatch' /\ Pipes' /\ Saved' /\ Copy' = Copy /\ Done' = Done
      /\ UNCHANGED <<slot, life, alive, killer, stdout, busy, docOpen, body, disk, deaths, errors>>
      /\ nextId' \in Nat \ {0} /\ pending' \subseteq [life : Nat, id : Nat, by : Roles]
      /\ stdin' \in Seq(Request) /\ command' \in [Roles -> Command]
      /\ \A x \in Roles : x # r => command'[x] = command[x]
      /\ command'[r].method = m /\ command'[r].pc \in {"waiting", "error"}
      /\ command'[r].pc = "waiting" => command'[r].life = life /\ command'[r].id = nextId
      /\ Opening' => Opening \/ m = "doc.open"
      /\ \A d : Applied(d)' => Applied(d)
  BY <1>1, <1>2, RpcKeeps
<1>4. view' \in View /\ view'.pc = "flushing" /\ view'.since = view.since /\ view'.upto = view.upto
  BY <1>1 DEF ShellInv, ShellTypes, View
<1>5. view.upto <= Done
  <2>1. /\ Len(pump) \in Nat /\ typed \in Nat /\ Done = typed - Len(pump) /\ view.upto \in Nat
        /\ view.upto <= typed
    BY <1>1, Parts DEF ShellInv, ShellTypes, View, Chained, Done
  <2>2. Len(pump) # 0 => pump[1] > view.upto /\ pump[1] = Done + 1
    BY <1>1, <2>1 DEF ShellInv, Chained
  <2>. HIDE DEF Done
  <2>. QED BY <2>1, <2>2
<1>6. ShellTypes'
  BY <1>1, <1>3, <1>4 DEF ShellInv, ShellTypes
<1>7. Chained'
  BY <1>1, <1>2, <1>3, <1>4, <1>5 DEF ShellInv, Chained
<1>8. OpenedAtHost'
  BY <1>1, <1>2, <1>3, <1>4 DEF ShellInv, OpenedAtHost, InView, Said
<1>9. AppliedIsThere'
  BY <1>1, <1>3, <1>4 DEF ShellInv, AppliedIsThere, InView
<1>10. ~FlushAnswered'
  <2>1. CASE command'[r].pc = "error"
    BY <2>1 DEF FlushAnswered
  <2>2. CASE command'[r].pc = "waiting"
    <3>1. command'[r].life = life /\ command'[r].id = nextId /\ stdout' = stdout
      BY <1>3, <2>2
    <3>2. life \in Lives
      BY <1>3, <2>2, <3>1, ShellConstants, Parts DEF ShellInv, Waiting, ShellTypes, Lives
    <3>3. \A a \in Said(life) : a.id < nextId /\ a.id \in Nat /\ nextId \in Nat
      <4>1. \A a \in Said(life) : Sound(life, a) /\ a \in Answers
        BY <3>2, Parts DEF ShellInv, Pipes
      <4>2. \A a \in Answers : a.id \in Nat
        BY DEF Answers
      <4>. QED BY <4>1, <4>2 DEF Sound, ShellInv, ShellTypes
    <3>. QED BY <2>2, <3>1, <3>3 DEF FlushAnswered, Said
  <2>. QED BY <1>3, <2>1, <2>2
<1>11. FlushedIsSaved'
  BY <1>10 DEF FlushedIsSaved
<1>. QED BY <1>3, <1>6, <1>7, <1>8, <1>9, <1>11 DEF ShellInv

\* An edit is the last in the pump.
LEMMA TypeKeeps == ASSUME ShellInv, Type PROVE ShellInv'
<1>1. /\ InView /\ typed < MaxEdits /\ typed' = typed + 1 /\ pump' = Append(pump, typed + 1)
      /\ UNCHANGED <<slot, life, alive, killer, nextId, pending, stdin, stdout, busy, docOpen, body, disk,
                     view, views, failed, told, kept, command, deaths, errors>>
  BY DEF Type, InView, rust, pipes, hostv
<1>2. typed \in Nat /\ Len(pump) \in Nat /\ Done = typed - Len(pump) /\ typed' \in Updates /\ typed' \in 0 .. MaxEdits
  BY <1>1, Parts, ShellConstants DEF ShellInv, Done, Updates
<1>3. /\ pump' \in Seq(Updates) /\ Len(pump') = Len(pump) + 1 /\ pump' # <<>>
      /\ \A i \in 1 .. Len(pump) : pump'[i] = pump[i]
      /\ pump'[Len(pump) + 1] = typed + 1
  BY <1>1, <1>2, AppendProperties DEF ShellInv, ShellTypes
<1>4. Done' = Done /\ Done \in Int
  BY <1>1, <1>2, <1>3 DEF Done
<1>5. Onwards /\ HostStays
  BY <1>1, <1>2, <1>4, Parts DEF Onwards, HostStays, Said, ShellInv, ShellTypes
<1>6. Pipes' /\ Copy' = Copy /\ Saved'
  BY <1>1, <1>5, HostStaysKeeps DEF ShellInv, Saved
<1>7. Waiting' /\ AnswersMatch'
  BY <1>1 DEF ShellInv, Waiting, AnswersMatch
<1>8. ShellTypes'
  BY <1>1, <1>2, <1>3 DEF ShellInv, ShellTypes
<1>9. Chained'
  <2>1. \A i \in 1 .. Len(pump') : pump'[i] = Done + i
    <3>. HIDE DEF Done
    <3>. SUFFICES ASSUME NEW i \in 1 .. Len(pump') PROVE pump'[i] = Done + i
      OBVIOUS
    <3>1. CASE i \in 1 .. Len(pump)
      BY <1>3, <3>1 DEF ShellInv, Chained
    <3>2. CASE i = Len(pump) + 1
      BY <1>2, <1>3, <3>2
    <3>. QED BY <1>2, <1>3, <3>1, <3>2
  <2>2. view.upto <= typed => view.upto <= typed'
    BY <1>1, <1>2 DEF ShellInv, ShellTypes, View
  <2>3. Len(pump') <= typed'
    BY <1>1, <1>2, <1>3 DEF ShellInv, Chained
  <2>. QED BY <1>1, <1>3, <1>4, <2>1, <2>2, <2>3 DEF ShellInv, Chained
<1>10. OpenedAtHost' /\ AppliedIsThere' /\ FlushedIsSaved'
  BY <1>1, <1>6 DEF ShellInv, OpenedAtHost, AppliedIsThere, FlushedIsSaved, InView, Opening, Said,
                    Applied, FlushAnswered
<1>. QED BY <1>6, <1>7, <1>8, <1>9, <1>10 DEF ShellInv

\* Back notes which edits it covers.
LEMMA BackKeeps == ASSUME ShellInv, Back PROVE ShellInv'
<1>1. /\ view.pc = "open" /\ view' = [view EXCEPT !.pc = "draining", !.upto = typed]
      /\ UNCHANGED <<slot, life, alive, killer, nextId, pending, stdin, stdout, busy, docOpen, body, disk,
                     views, typed, pump, failed, told, kept, command, deaths, errors>>
  BY DEF Back, rust, pipes, hostv
<1>2. typed \in Nat /\ Done' = Done /\ Done \in Int /\ "view" \in Roles
  BY <1>1, Parts DEF ShellInv, Done
<1>3. view' \in View /\ view'.pc = "draining" /\ view'.since = view.since /\ view'.upto = typed
  BY <1>1, <1>2 DEF ShellInv, ShellTypes, View
<1>4. Onwards /\ HostStays
  BY <1>1, <1>2 DEF Onwards, HostStays, Said, ShellInv, ShellTypes
<1>5. Pipes' /\ Copy' = Copy /\ Saved'
  BY <1>1, <1>4, HostStaysKeeps DEF ShellInv, Saved
<1>6. Waiting' /\ AnswersMatch'
  BY <1>1 DEF ShellInv, Waiting, AnswersMatch
<1>7. ShellTypes'
  BY <1>1, <1>3 DEF ShellInv, ShellTypes
<1>8. Chained'
  BY <1>1, <1>2, <1>3 DEF ShellInv, Chained
<1>9. OpenedAtHost'
  BY <1>1, <1>3 DEF ShellInv, OpenedAtHost, InView, Opening, Said
<1>10. AppliedIsThere'
  BY <1>1, <1>3, <1>5 DEF ShellInv, AppliedIsThere, InView, Applied, Said
<1>11. FlushedIsSaved'
  BY <1>3 DEF FlushedIsSaved
<1>. QED BY <1>5, <1>6, <1>7, <1>8, <1>9, <1>10, <1>11 DEF ShellInv

-----------------------------------------------------------------------------
\* The invariant holds at first.
LEMMA ShellStart == ShellInit => ShellInv
<1>. SUFFICES ASSUME ShellInit PROVE ShellInv
  OBVIOUS
<1>1. /\ NoBusy \in Request /\ NoBusy.id = 0 /\ NoBusy.method = "none"
      /\ NoCommand \in Command /\ NoCommand.pc = "none" /\ NoCommand.life = 0 /\ NoCommand.got = <<>>
  BY DEF NoBusy, NoCommand, Request, Command, Methods, None
<1>2. /\ life = 0 /\ alive = FALSE /\ nextId = 1 /\ pending = {} /\ stdin = <<>> /\ busy = NoBusy
      /\ stdout = [l \in Lives |-> <<>>] /\ docOpen = FALSE /\ body = {} /\ disk = {{}}
      /\ typed = 0 /\ pump = <<>> /\ failed = {} /\ told = {} /\ kept = {} /\ deaths = 0
      /\ command \in [Roles -> {NoCommand}] /\ view.pc = "list" /\ view \in View
  BY DEF ShellInit, None, View
<1>3. ShellTypes
  <2>1. command \in [Roles -> Command] /\ stdout \in [Lives -> Seq(Answers)]
    BY <1>1, <1>2, EmptySeq
  <2>2. stdin \in Seq(Request) /\ pump \in Seq(Updates)
    BY <1>2, EmptySeq
  <2>3. slot = 0 /\ killer = FALSE /\ views = 0 /\ errors = 0
    BY DEF ShellInit, None
  <2>4. /\ disk \subseteq SUBSET Nat /\ body \subseteq Nat /\ pending \subseteq [life : Nat, id : Nat, by : Roles]
        /\ failed \subseteq Nat /\ told \subseteq Nat /\ kept \subseteq Nat
    BY <1>2
  <2>5. life \in 0 .. MaxLives /\ typed \in 0 .. MaxEdits /\ nextId \in Nat \ {0}
    BY <1>2, ShellConstants
  <2>6. slot \in Nat /\ alive \in BOOLEAN /\ killer \in BOOLEAN /\ docOpen \in BOOLEAN /\ views \in Nat
        /\ deaths \in Nat /\ errors \in Nat
    BY <1>2, <2>3
  <2>. QED BY <1>1, <1>2, <2>1, <2>2, <2>4, <2>5, <2>6 DEF ShellTypes
<1>4. \A r \in Roles : command[r] = NoCommand
  BY <1>2
<1>5. Asked = {NoBusy} /\ Lines(stdin) = {} /\ \A l \in Lives : Said(l) = {}
  BY <1>2, NoLines DEF Asked, Said
<1>6. Done = 0 /\ Copy = {}
  <2>1. Len(pump) = 0
    BY <1>2, EmptySeq
  <2>2. UNION {{}} = {}
    OBVIOUS
  <2>3. typed = 0 /\ disk = {{}}
    BY <1>2
  <2>4. Done = 0
    BY <2>1, <2>3 DEF Done
  <2>5. Copy = {}
    BY <2>2, <2>3 DEF Copy
  <2>. QED BY <2>4, <2>5
<1>7. "view" \in Roles /\ "pump" \in Roles
  BY DEF Roles
<1>8. Waiting /\ AnswersMatch
  BY <1>1, <1>2, <1>4 DEF Waiting, AnswersMatch
<1>9. Pipes
  BY <1>1, <1>2, <1>4, <1>5 DEF Pipes, Sound
<1>10. Chained
  BY <1>1, <1>2, <1>4, <1>6, <1>7 DEF Chained
<1>11. Saved
  BY <1>1, <1>2, <1>6 DEF Saved
<1>12. OpenedAtHost /\ FlushedIsSaved
  BY <1>2, <1>5 DEF OpenedAtHost, FlushedIsSaved, InView, Opening
<1>13. AppliedIsThere
  BY <1>1, <1>2, <1>4, <1>5, <1>7 DEF AppliedIsThere, Applied
<1>. QED BY <1>3, <1>8, <1>9, <1>10, <1>11, <1>12, <1>13 DEF ShellInv

\* A step that changes nothing keeps it.
LEMMA ShellStutters == ShellInv /\ UNCHANGED shell => ShellInv'
<1>. SUFFICES ASSUME ShellInv, UNCHANGED shell PROVE ShellInv'
  OBVIOUS
<1>1. UNCHANGED <<slot, life, alive, killer, nextId, pending, stdin, stdout, busy, docOpen, body, disk,
                  view, views, typed, pump, failed, told, kept, command, deaths, errors>>
  BY DEF shell, rust, pipes, hostv, page
<1>2. Done' = Done /\ Copy' = Copy
  BY <1>1 DEF Done, Copy
<1>3. ShellTypes' /\ Waiting' /\ AnswersMatch'
  BY <1>1 DEF ShellInv, ShellTypes, Waiting, AnswersMatch
<1>4. Pipes'
  BY <1>1, <1>2 DEF ShellInv, Pipes, Sound, Asked, Said
<1>5. Chained' /\ Saved'
  BY <1>1, <1>2 DEF ShellInv, Chained, Saved
<1>6. OpenedAtHost' /\ AppliedIsThere' /\ FlushedIsSaved'
  BY <1>1, <1>2 DEF ShellInv, OpenedAtHost, AppliedIsThere, FlushedIsSaved, InView, Opening, Said,
                    Applied, FlushAnswered
<1>. QED BY <1>3, <1>4, <1>5, <1>6 DEF ShellInv

\* The invariant: every step keeps it.
LEMMA ShellInvariant == ShellSpec => []ShellInv
<1>1. ASSUME ShellInv, ShellNext PROVE ShellInv'
  <2>1. CASE Page
    BY <1>1, <2>1, OpenedKeeps, PumpNextKeeps, PumpReturnedKeeps, BackFlushesKeeps, BackReturnsKeeps DEF Page
  <2>2. CASE ShowDocument \/ Type \/ Back
    BY <1>1, <2>2, ShowDocumentKeeps, TypeKeeps, BackKeeps
  <2>3. CASE Host
    BY <1>1, <2>3, HandleOpenKeeps, HandleApplyKeeps, HandleFlushKeeps, HandleShutdownKeeps,
       FlushedKeeps, ShutDownKeeps DEF Host
  <2>4. CASE TimerSave \/ StartHost \/ StopHost \/ AfterSleep \/ HostDies
    BY <1>1, <2>4, TimerSaveKeeps, StartHostKeeps, StopHostKeeps, AfterSleepKeeps, HostDiesKeeps
  <2>5. CASE \E l \in Lives : Deliver(l)
    BY <1>1, <2>5, DeliverKeeps
  <2>6. CASE \E r \in Roles : TimeOut(r)
    BY <1>1, <2>6, TimeOutKeeps
  <2>. QED BY <1>1, <2>1, <2>2, <2>3, <2>4, <2>5, <2>6 DEF ShellNext
<1>2. ShellInv /\ [ShellNext]_shell => ShellInv'
  BY <1>1, ShellStutters
<1>. QED BY <1>2, ShellStart, PTL DEF ShellSpec

\* A command returns the answer to its own request: an id is given once by a process,
\* and each process has its pending map.
THEOREM CommandsGetTheirAnswers == ShellSpec => []AnswersMatch
<1>1. ShellInv => AnswersMatch
  BY DEF ShellInv
<1>. QED BY <1>1, ShellInvariant, PTL

\* The pump calls in the order of the edits, and an update whose call has returned
\* without an error is in the document, if that was shown before it.
THEOREM NoUnexplainedGap == ShellSpec => []GapsOnlyWhereACallFailed
<1>1. ShellInv => GapsOnlyWhereACallFailed
  <2>. SUFFICES ASSUME ShellInv, view.pc = "open", docOpen, NEW e \in body, NEW d \in Updates,
                       view.since <= d, d < e, d \notin failed
                PROVE  d \in body
    BY DEF GapsOnlyWhereACallFailed
  <2>1. e <= Done + 1 /\ e \in Nat /\ d \in Nat /\ Done \in Int
    BY Parts DEF ShellInv, Saved, ShellTypes, Updates
  <2>. HIDE DEF Done
  <2>. QED BY <2>1, ShownIsApplied DEF InView
<1>. QED BY <1>1, ShellInvariant, PTL

\* Back flushes when the calls before it have returned, so what it covers is saved; and
\* what was reported applied the document or its copy has while no process has died.
THEOREM LeavingSaves == ShellSpec => []BackSaves
<1>1. ShellInv => BackSaves
  <2>. SUFFICES ASSUME ShellInv
                PROVE  /\ kept \subseteq Copy /\ disk = {Copy}
                       /\ deaths = 0 => told \subseteq body \cup Copy
    BY DEF BackSaves
  <2>1. \A d \in told : d \in Nat /\ Applied(d)
    BY DEF ShellInv, ShellTypes, Applied
  <2>. QED BY <2>1 DEF ShellInv, Saved, AppliedIsThere
<1>. QED BY <1>1, ShellInvariant, PTL

=============================================================================
