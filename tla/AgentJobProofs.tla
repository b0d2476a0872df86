--------------------------- MODULE AgentJobProofs ---------------------------
(***************************************************************************)
(* The invariants of AgentJob for every set of jobs and requests, every    *)
(* quota, number of deliveries and number of faults; then, of JobStream,   *)
(* what the client of an event stream was told, for every number of        *)
(* deliveries, rows and connections, when deliveries overlap and when not. *)
(***************************************************************************)
EXTENDS AgentJob, JobStream, TLAPS, SequenceTheorems, FiniteSetTheorems, WellFoundedInduction

Closed    == {"return", "returned", "crashed"}
Stopping  == {"cancel0", "cancel0Ev", "cancel1", "cancel1Ev", "cancel2", "cancel2Ev"}
PaidPC    == InTry \cup {"err", "errEv"}
Unwritten == {"off", "poll0", "running", "start", "count", "log", "quotaErr",
              "quotaErrEv", "poll1", "scan", "poll2", "write"} \cup Stopping

\* What pg-boss's row says of the deliveries.
Queueing ==
    \A j \in Jobs :
        /\ submit[j] \in {"none", "inserted"} => boss[j] = "none"
        /\ boss[j] \in {"none", "created"} => attempts[j] = 0
        /\ boss[j] = "retry" => attempts[j] < MaxAttempts
        /\ \A a \in Attempts : a > attempts[j] => pc[j][a] = "off"

\* What the place of a handler says of the rows it has left behind.
Ledger ==
    \A j \in Jobs, a \in Attempts :
        /\ pc[j][a] \in PaidPC => <<j, a>> \in invocations
        /\ pc[j][a] \in Unwritten => <<j, a>> \notin findings
        /\ pc[j][a] = "invoke" => j \notin Scans
        /\ j \in Scans /\ pc[j][a] \in {"done", "doneEv"} => <<j, a>> \in findings

\* A handler that gave its verdict is past its last statement.
Said ==
    \A j \in Jobs : \A i \in DOMAIN events[j] :
        events[j][i].kind = "progress" \/ pc[j][events[j][i].by] \in Closed

Requested(j) == \E c \in Requests : cancel[c].pc = "applied" /\ cancel[c].job = j

\* Where the wish to cancel is known, a request was applied.
Asked ==
    /\ \A c \in Requests : cancel[c].pc = "update" => cancel[c].job \in Jobs
    /\ \A j \in Jobs :
          /\ status[j] \in {"cancelling", "cancelled"} => Requested(j)
          /\ \A a \in Attempts : pc[j][a] \in Stopping => Requested(j)
          /\ \A i \in DOMAIN events[j] : events[j][i].kind = "cancelled" => Requested(j)

IInv ==
    /\ TypeOK /\ Queueing /\ Ledger /\ Said /\ Asked
    /\ WorkIsPaid /\ VerdictTellsTheWrites /\ OneVerdictPerDelivery

-----------------------------------------------------------------------------
(* The initial state, and the steps that append no event.                  *)

\* Deliveries are numbered from 1 to MaxAttempts.
LEMMA AttemptsFact == \A a \in Attempts : a \in Nat /\ a >= 1 /\ a <= MaxAttempts
BY ConstantsOK, SMT DEF Attempts

\* What is read from a log is an event of some delivery.
LEMMA EventFact ==
    TypeOK => \A j \in Jobs : \A i \in DOMAIN events[j] :
                  events[j][i].kind \in EventKind /\ events[j][i].by \in Attempts
<1> SUFFICES ASSUME TypeOK, NEW j \in Jobs, NEW i \in DOMAIN events[j]
             PROVE  events[j][i].kind \in EventKind /\ events[j][i].by \in Attempts
  OBVIOUS
<1>1. events[j] \in Seq(Event)
  BY DEF TypeOK
<1>2. events[j][i] \in Event
  BY <1>1, SMT
<1> QED BY <1>2, SMT DEF Event

\* Before the first request there are no rows, jobs or handlers.
LEMMA InitIInv == Init => IInv
<1> SUFFICES ASSUME Init PROVE IInv
  OBVIOUS
<1> USE DEF Init
<1>1. TypeOK
  <2>1. <<>> \in Seq(Event)
    BY SMT
  <2>2. \A j \in Jobs : [a \in Attempts |-> "off"] \in [Attempts -> PC]
    BY DEF PC
  <2>3. [pc |-> "idle", job |-> NoJob] \in CancelRequest
    BY DEF CancelRequest
  <2>4. 0 \in 0 .. MaxAttempts /\ 0 \in 0 .. MaxFaults
    BY ConstantsOK, SMT
  <2> QED BY <2>1, <2>2, <2>3, <2>4, SMT DEF TypeOK, Status
<1>2. Queueing /\ Ledger
  BY SMT DEF Queueing, Ledger, PaidPC, InTry
<1>3. Said /\ WorkIsPaid /\ VerdictTellsTheWrites /\ OneVerdictPerDelivery
  <2>1. \A j \in Jobs : DOMAIN events[j] = {}
    BY SMT
  <2> QED BY <2>1, ConstantsOK, SMT DEF Said, WorkIsPaid, VerdictTellsTheWrites, OneVerdictPerDelivery
<1>4. Asked
  BY SMT DEF Asked, Stopping
<1> QED BY <1>1, <1>2, <1>3, <1>4 DEF IInv

\* The parts of IInv that speak of rows only are kept by a step that changes no
\* row of the log and of the two ledgers.
LEMMA RowsKept ==
    ASSUME WorkIsPaid, VerdictTellsTheWrites, OneVerdictPerDelivery,
           UNCHANGED <<events, findings, invocations>>
    PROVE  WorkIsPaid' /\ VerdictTellsTheWrites' /\ OneVerdictPerDelivery'
BY SMT DEF WorkIsPaid, VerdictTellsTheWrites, OneVerdictPerDelivery

\* Each step of the web app's submission keeps the invariant: it inserts the
\* row, hands it to pg-boss, or takes the row back when that failed.
LEMMA SubmitStep == ASSUME IInv, NEW j \in Jobs, Submit(j) PROVE IInv'
<1> USE DEF IInv
<1>1. CASE InsertJob(j)
  <2>1. TypeOK' /\ Queueing'
    BY <1>1, SMT DEF InsertJob, TypeOK, Queueing, queue, Status, Cancellable
  <2>2. Ledger' /\ Said' /\ Asked'
    BY <1>1, SMT DEF InsertJob, Ledger, Said, Asked, Requested, TypeOK
  <2> QED BY <1>1, <2>1, <2>2, RowsKept DEF InsertJob
<1>2. CASE EnqueueOk(j)
  <2>1. TypeOK' /\ Queueing'
    BY <1>2, SMT DEF EnqueueOk, TypeOK, Queueing, row
  <2>2. Ledger' /\ Said' /\ Asked'
    BY <1>2, SMT DEF EnqueueOk, Ledger, Said, Asked, Requested, row
  <2> QED BY <1>2, <2>1, <2>2, RowsKept DEF EnqueueOk, row
<1>3. CASE EnqueueNull(j)
  <2>1. TypeOK' /\ Queueing'
    BY <1>3, ConstantsOK, SMT DEF EnqueueNull, Fault, TypeOK, Queueing, row, queue
  <2>2. Ledger' /\ Said' /\ Asked'
    BY <1>3, SMT DEF EnqueueNull, Ledger, Said, Asked, Requested, row
  <2> QED BY <1>3, <2>1, <2>2, RowsKept DEF EnqueueNull, row
<1>4. CASE EnqueueThrows(j)
  <2>1. TypeOK' /\ Queueing'
    BY <1>4, ConstantsOK, SMT DEF EnqueueThrows, Fault, TypeOK, Queueing, row
  <2>2. Ledger' /\ Said' /\ Asked'
    BY <1>4, SMT DEF EnqueueThrows, Ledger, Said, Asked, Requested, row
  <2> QED BY <1>4, <2>1, <2>2, RowsKept DEF EnqueueThrows, row
<1>5. CASE RollBack(j)
  <2>0. <<>> \in Seq(Event)
    BY SMT
  <2>1. TypeOK' /\ Queueing'
    BY <1>5, <2>0, SMT DEF RollBack, TypeOK, Queueing, queue, Status
  <2>2. Ledger' /\ Said' /\ Asked'
    BY <1>5, SMT DEF RollBack, Ledger, Said, Asked, Requested, queue, TypeOK
  <2>3. WorkIsPaid' /\ VerdictTellsTheWrites' /\ OneVerdictPerDelivery'
    <3>1. \A i \in Jobs : \/ DOMAIN events'[i] = {}
                          \/ events'[i] = events[i]
      BY <1>5, SMT DEF RollBack, TypeOK
    <3>2. findings' = findings /\ invocations' = invocations
      BY <1>5 DEF RollBack
    <3> QED BY <3>1, <3>2, ConstantsOK, SMT DEF WorkIsPaid, VerdictTellsTheWrites, OneVerdictPerDelivery
  <2> QED BY <2>1, <2>2, <2>3
<1> QED BY <1>1, <1>2, <1>3, <1>4, <1>5 DEF Submit

\* Each step of the cancel route keeps the invariant: its UPDATE is itself the
\* request that Asked wants.
LEMMA CancelRouteStep == ASSUME IInv, NEW c \in Requests, CancelStep(c) PROVE IInv'
<1> USE DEF IInv
<1>1. ASSUME NEW j \in Jobs, ReadForCancel(c, j) PROVE IInv'
  <2>1. TypeOK' /\ Queueing'
    BY <1>1, SMT DEF ReadForCancel, TypeOK, Queueing, queue, row, CancelRequest
  <2>2. Ledger' /\ Said'
    BY <1>1, SMT DEF ReadForCancel, Ledger, Said, row
  <2>3. Asked'
    <3>1. \A i \in Jobs : Requested(i) => Requested(i)'
      BY <1>1, SMT DEF ReadForCancel, Requested, TypeOK
    <3>2. \A d \in Requests : cancel'[d].pc = "update" => cancel'[d].job \in Jobs
      BY <1>1, SMT DEF ReadForCancel, Asked, TypeOK
    <3> QED BY <1>1, <3>1, <3>2, SMT DEF ReadForCancel, Asked, row
  <2> QED BY <1>1, <2>1, <2>2, <2>3, RowsKept DEF ReadForCancel, row
<1>2. CASE ApplyCancel(c)
  <2>1. cancel[c].job \in Jobs
    BY <1>2 DEF ApplyCancel, Asked
  <2>2. TypeOK' /\ Queueing'
    <3>1. cancel' \in [Requests -> CancelRequest]
      <4>1. cancel[c] \in CancelRequest
        BY DEF TypeOK
      <4>2. [cancel[c] EXCEPT !.pc = "applied"] \in CancelRequest
        BY <4>1, SMT DEF CancelRequest
      <4> QED BY <1>2, <4>2, SMT DEF ApplyCancel, TypeOK
    <3>2. status' \in [Jobs -> Status]
      BY <1>2, <2>1, SMT DEF ApplyCancel, SetStatus, TypeOK, Status
    <3> QED BY <1>2, <3>1, <3>2 DEF ApplyCancel, TypeOK, Queueing, queue
  <2>3. Ledger' /\ Said'
    BY <1>2, SMT DEF ApplyCancel, Ledger, Said
  <2>4. Asked'
    <3>1. \A i \in Jobs : Requested(i) => Requested(i)'
      BY <1>2, SMT DEF ApplyCancel, Requested, TypeOK
    <3>2. \A d \in Requests : cancel'[d].pc = "update" => cancel'[d].job \in Jobs
      BY <1>2, SMT DEF ApplyCancel, Asked, TypeOK
    <3>3. Requested(cancel[c].job)'
      BY <1>2, <2>1, SMT DEF ApplyCancel, Requested, TypeOK, CancelRequest
    <3>4. \A i \in Jobs : i # cancel[c].job => status'[i] = status[i]
      BY <1>2, SMT DEF ApplyCancel, SetStatus, TypeOK
    <3> QED BY <1>2, <3>1, <3>2, <3>3, <3>4, SMT DEF ApplyCancel, Asked
  <2> QED BY <1>2, <2>2, <2>3, <2>4, RowsKept DEF ApplyCancel
<1> QED BY <1>1, <1>2 DEF CancelStep

\* What a settled delivery does to pg-boss's row.
LEMMA GiveUpSettles ==
    ASSUME TypeOK, NEW j \in Jobs, NEW a \in Attempts, GiveUp(j, a) \/ boss' = boss
    PROVE  /\ boss' \in [Jobs -> {"none", "created", "active", "retry", "completed", "failed"}]
           /\ \A i \in Jobs :
                 \/ boss'[i] = boss[i]
                 \/ boss[i] = "active" /\ boss'[i] \in {"failed", "completed"}
                 \/ boss[i] = "active" /\ boss'[i] = "retry" /\ attempts[i] < MaxAttempts
<1>1. boss \in [Jobs -> {"none", "created", "active", "retry", "completed", "failed"}]
  BY DEF TypeOK
<1>2. CASE boss' = boss
  BY <1>1, <1>2
<1>3. CASE GiveUp(j, a) /\ a = attempts[j] /\ boss[j] = "active"
  <2>1. boss' = [boss EXCEPT ![j] = IF a < MaxAttempts THEN "retry" ELSE "failed"]
    BY <1>3 DEF GiveUp
  <2>2. CASE a < MaxAttempts
    BY <1>1, <1>3, <2>1, <2>2, SMT
  <2>3. CASE ~(a < MaxAttempts)
    BY <1>1, <1>3, <2>1, <2>3, SMT
  <2> QED BY <2>2, <2>3
<1> QED BY <1>2, <1>3 DEF GiveUp

\* pg-boss's own steps (delivery, expiry with or without a live handler) keep
\* the invariant.
LEMMA BossStep ==
    ASSUME IInv, NEW j \in Jobs, Deliver(j) \/ Expire(j) \/ Overrun(j)
    PROVE  IInv'
<1> USE DEF IInv
<1>1. CASE Deliver(j)
  <2>1. attempts[j] + 1 \in Attempts /\ pc[j][attempts[j] + 1] = "off"
    BY <1>1, ConstantsOK, SMT DEF Deliver, TypeOK, Queueing, Attempts
  <2>2. TypeOK' /\ Queueing'
    BY <1>1, <2>1, ConstantsOK, SMT DEF Deliver, TypeOK, Queueing, row, PC, Live, Bare, Attempts
  <2>3. Ledger'
    <3>1. pc'[j][attempts[j] + 1] = "poll0"
      BY <1>1, <2>1, SMT DEF Deliver, TypeOK
    <3>2. \A i \in Jobs, a \in Attempts :
             pc'[i][a] = pc[i][a] \/ (i = j /\ a = attempts[j] + 1)
      BY <1>1, SMT DEF Deliver, TypeOK
    <3>3. invocations' = invocations /\ findings' = findings
      BY <1>1 DEF Deliver
    <3>4. "poll0" \notin PaidPC /\ "off" \in Unwritten
      BY DEF PaidPC, InTry, Unwritten
    <3>5. <<j, attempts[j] + 1>> \notin findings
      BY <2>1, <3>4 DEF Ledger
    <3>6. \A i \in Jobs, a \in Attempts : ~(i = j /\ a = attempts[j] + 1) =>
             (Ledger => /\ pc'[i][a] \in PaidPC => <<i, a>> \in invocations'
                        /\ pc'[i][a] \in Unwritten => <<i, a>> \notin findings'
                        /\ pc'[i][a] = "invoke" => i \notin Scans
                        /\ i \in Scans /\ pc'[i][a] \in {"done", "doneEv"}
                              => <<i, a>> \in findings')
      BY <3>2, <3>3 DEF Ledger
    <3> QED BY <3>1, <3>3, <3>4, <3>5, <3>6 DEF Ledger
  <2>4. Said'
    BY <1>1, <2>1, SMT DEF Deliver, Said, TypeOK, row, Closed
  <2>5. Asked'
    BY <1>1, <2>1, SMT DEF Deliver, Asked, Requested, TypeOK, row, Stopping
  <2> QED BY <1>1, <2>2, <2>3, <2>4, <2>5, RowsKept DEF Deliver, row
<1>2. CASE Expire(j) \/ Overrun(j)
  <2>1. TypeOK' /\ Queueing'
    <3>1. attempts[j] \in Attempts /\ GiveUp(j, attempts[j])
      BY <1>2, SMT DEF Expire, Overrun, TypeOK, Attempts
    <3>2. faults' \in 0 .. MaxFaults
      BY <1>2, ConstantsOK, SMT DEF Expire, Overrun, Fault, TypeOK
    <3>3. UNCHANGED <<row, findings, invocations, submit, attempts, pc, cancel>>
      BY <1>2 DEF Expire, Overrun
    <3>4. TypeOK'
      BY <3>1, <3>2, <3>3, GiveUpSettles DEF TypeOK, row
    <3>5. Queueing'
      BY <3>1, <3>3, GiveUpSettles, SMT DEF Queueing
    <3> QED BY <3>4, <3>5
  <2>2. Ledger' /\ Said' /\ Asked'
    BY <1>2, SMT DEF Expire, Overrun, Ledger, Said, Asked, Requested, row
  <2> QED BY <1>2, <2>1, <2>2, RowsKept DEF Expire, Overrun, row
<1> QED BY <1>1, <1>2

-----------------------------------------------------------------------------
(* The steps of a handler.                                                 *)

\* What a step of the handler of delivery a may do to the shared rows: the two
\* ledgers grow by its own row, pg-boss's row only settles, and the status
\* becomes 'cancelling' or 'cancelled' only at somebody's request.
HandlerEffect(j, a, to) ==
    /\ pc[j][a] \in Live /\ to \in PC \ {"off"}
    /\ pc' = [pc EXCEPT ![j][a] = to]
    /\ invocations' \in {invocations, invocations \cup {<<j, a>>}}
    /\ \/ findings' = findings
       \/ <<j, a>> \in invocations /\ findings' = findings \cup {<<j, a>>}
    /\ to \in PaidPC => <<j, a>> \in invocations'
    /\ to \in Unwritten => <<j, a>> \notin findings'
    /\ to = "invoke" => j \notin Scans
    /\ j \in Scans /\ to \in {"done", "doneEv"} => <<j, a>> \in findings'
    /\ to \in Stopping => Requested(j)
    /\ status' \in [Jobs -> Status]
    /\ \A i \in Jobs : \/ status'[i] = status[i]
                       \/ status'[i] \notin {"cancelling", "cancelled"}
                       \/ i = j /\ Requested(j)
    /\ errorClass' \in [Jobs -> {"none", "quota-exceeded", "failure"}]
    /\ boss' \in [Jobs -> {"none", "created", "active", "retry", "completed", "failed"}]
    /\ \A i \in Jobs : \/ boss'[i] = boss[i]
                       \/ boss[i] = "active" /\ boss'[i] \in {"failed", "completed"}
                       \/ boss[i] = "active" /\ boss'[i] = "retry" /\ attempts[i] < MaxAttempts
    /\ faults' \in 0 .. MaxFaults
    /\ UNCHANGED <<submit, attempts, cancel>>

\* A statement of one handler moves that handler and no other.
LEMMA EffectMovesPc ==
    ASSUME TypeOK, NEW j \in Jobs, NEW a \in Attempts, NEW to, HandlerEffect(j, a, to)
    PROVE  /\ pc'[j][a] = to
           /\ \A i \in Jobs, b \in Attempts : (i # j \/ b # a) => pc'[i][b] = pc[i][b]
           /\ pc' \in [Jobs -> [Attempts -> PC]]
<1>1. pc' = [pc EXCEPT ![j][a] = to] /\ to \in PC /\ pc \in [Jobs -> [Attempts -> PC]]
  BY DEF HandlerEffect, TypeOK
<1> QED BY <1>1, SMT

\* An effect keeps everything that does not speak of the log.
LEMMA EffectKeeps ==
    ASSUME IInv, NEW j \in Jobs, NEW a \in Attempts, NEW to, HandlerEffect(j, a, to)
    PROVE  /\ Queueing' /\ Ledger'
           /\ events' \in [Jobs -> Seq(Event)] => TypeOK'
           /\ \A c \in Requests : cancel'[c].pc = "update" => cancel'[c].job \in Jobs
           /\ \A i \in Jobs : Requested(i)' <=> Requested(i)
           /\ \A i \in Jobs :
                 /\ status'[i] \in {"cancelling", "cancelled"} => Requested(i)
                 /\ \A b \in Attempts : pc'[i][b] \in Stopping => Requested(i)
<1> USE DEF IInv
<1>1. /\ pc'[j][a] = to
      /\ \A i \in Jobs, b \in Attempts : (i # j \/ b # a) => pc'[i][b] = pc[i][b]
      /\ pc' \in [Jobs -> [Attempts -> PC]]
  BY EffectMovesPc DEF IInv
<1>2. /\ findings \subseteq findings' /\ findings' \subseteq findings \cup {<<j, a>>}
      /\ invocations \subseteq invocations' /\ invocations' \subseteq invocations \cup {<<j, a>>}
  BY DEF HandlerEffect
<1>3. events' \in [Jobs -> Seq(Event)] => TypeOK'
  <2>1. findings' \subseteq Jobs \X Attempts /\ invocations' \subseteq Jobs \X Attempts
    BY <1>2 DEF TypeOK
  <2> QED BY <1>1, <2>1 DEF HandlerEffect, TypeOK
<1>4. Queueing'
  <2>1. \A i \in Jobs : submit'[i] \in {"none", "inserted"} => boss'[i] = "none"
    BY SMT DEF HandlerEffect, Queueing
  <2>2. \A i \in Jobs : /\ boss'[i] \in {"none", "created"} => attempts'[i] = 0
                        /\ boss'[i] = "retry" => attempts'[i] < MaxAttempts
    BY SMT DEF HandlerEffect, Queueing
  <2>3. pc[j][a] # "off"
    BY SMT DEF HandlerEffect, Live, InTry, Bare
  <2>4. \A i \in Jobs, b \in Attempts : b > attempts'[i] => pc'[i][b] = "off"
    BY <1>1, <2>3 DEF HandlerEffect, Queueing
  <2> QED BY <2>1, <2>2, <2>4 DEF Queueing
<1>5. Ledger'
  <2>1. \A i \in Jobs, b \in Attempts : (i # j \/ b # a) =>
           /\ <<i, b>> \in invocations' <=> <<i, b>> \in invocations
           /\ <<i, b>> \in findings' <=> <<i, b>> \in findings
    BY <1>2, SMT
  <2> SUFFICES ASSUME NEW i \in Jobs, NEW b \in Attempts
               PROVE /\ pc'[i][b] \in PaidPC => <<i, b>> \in invocations'
                     /\ pc'[i][b] \in Unwritten => <<i, b>> \notin findings'
                     /\ pc'[i][b] = "invoke" => i \notin Scans
                     /\ i \in Scans /\ pc'[i][b] \in {"done", "doneEv"} => <<i, b>> \in findings'
    BY DEF Ledger
  <2>2. CASE i = j /\ b = a
    BY <1>1, <2>2 DEF HandlerEffect
  <2>3. CASE i # j \/ b # a
    BY <1>1, <2>1, <2>3 DEF Ledger
  <2> QED BY <2>2, <2>3
<1>6. \A i \in Jobs : Requested(i)' <=> Requested(i)
  BY DEF HandlerEffect, Requested
<1>7. \A c \in Requests : cancel'[c].pc = "update" => cancel'[c].job \in Jobs
  BY DEF HandlerEffect, Asked
<1>8. \A i \in Jobs : /\ status'[i] \in {"cancelling", "cancelled"} => Requested(i)
                      /\ \A b \in Attempts : pc'[i][b] \in Stopping => Requested(i)
  BY <1>1 DEF HandlerEffect, Asked
<1> QED BY <1>3, <1>4, <1>5, <1>6, <1>7, <1>8

\* A handler step that appends nothing.
LEMMA SilentStep ==
    ASSUME IInv, NEW j \in Jobs, NEW a \in Attempts, NEW to, HandlerEffect(j, a, to),
           events' = events, pc[j][a] \notin Closed \/ (to \in Closed /\ findings' = findings)
    PROVE  IInv'
<1> USE DEF IInv
<1>1. /\ pc'[j][a] = to
      /\ \A i \in Jobs, b \in Attempts : (i # j \/ b # a) => pc'[i][b] = pc[i][b]
  BY EffectMovesPc DEF IInv
<1>2. Said'
  <2>1. \A i \in Jobs : \A n \in DOMAIN events[i] : events[i][n].by \in Attempts
    BY EventFact
  <2> QED BY <1>1, <2>1 DEF Said
<1>3. Asked'
  BY EffectKeeps DEF Asked
<1>4. TypeOK' /\ Queueing' /\ Ledger'
  BY EffectKeeps DEF TypeOK
<1>5. WorkIsPaid' /\ OneVerdictPerDelivery'
  <2>1. invocations \subseteq invocations' /\ findings' \subseteq invocations'
    BY DEF HandlerEffect, WorkIsPaid
  <2> QED BY <2>1 DEF WorkIsPaid, OneVerdictPerDelivery
<1>6. VerdictTellsTheWrites'
  <2>1. CASE findings' = findings
    BY <2>1, SMT DEF VerdictTellsTheWrites
  <2>2. CASE findings' # findings
    <3>1. findings' = findings \cup {<<j, a>>} /\ pc[j][a] \notin Closed
      BY <2>2 DEF HandlerEffect
    <3>2. \A n \in DOMAIN events[j] : events[j][n].by = a => events[j][n].kind # "cancelled"
      BY <3>1 DEF Said
    <3> QED BY <3>1, <3>2, ConstantsOK, SMT DEF VerdictTellsTheWrites
  <2> QED BY <2>1, <2>2
<1> QED BY <1>2, <1>3, <1>4, <1>5, <1>6

\* A handler step that appends an event.
LEMMA TellingStep ==
    ASSUME IInv, NEW j \in Jobs, NEW a \in Attempts, NEW to, NEW k \in Verdict \cup {"progress"},
           HandlerEffect(j, a, to), UNCHANGED <<findings, invocations>>,
           events' = [events EXCEPT ![j] = Append(@, [kind |-> k, by |-> a])],
           pc[j][a] \notin Closed,
           k = "progress" \/ to \in Closed,
           k = "done" => <<j, a>> \in invocations /\ (j \in Scans => <<j, a>> \in findings),
           k = "cancelled" => <<j, a>> \notin findings /\ Requested(j)
    PROVE  IInv'
<1> DEFINE e == [kind |-> k, by |-> a]
<1> USE DEF IInv
<1>1. e \in Event /\ e.kind = k /\ e.by = a
  BY SMT DEF Event, EventKind
<1>2. \A i \in Jobs : events[i] \in Seq(Event)
  BY DEF TypeOK
<1> HIDE DEF e
<1>3. /\ events' \in [Jobs -> Seq(Event)]
      /\ events'[j] = Append(events[j], e)
      /\ \A i \in Jobs : i # j => events'[i] = events[i]
  BY <1>1, <1>2, SMT DEF TypeOK, e
<1>4. \A n \in DOMAIN events'[j] :
          \/ n \in DOMAIN events[j] /\ n < Len(events[j]) + 1 /\ events'[j][n] = events[j][n]
          \/ n = Len(events[j]) + 1 /\ events'[j][n] = e
  BY <1>1, <1>2, <1>3, SMT
<1>5. /\ pc'[j][a] = to
      /\ \A i \in Jobs, b \in Attempts : (i # j \/ b # a) => pc'[i][b] = pc[i][b]
  BY EffectMovesPc DEF IInv
<1>6. TypeOK' /\ Queueing' /\ Ledger'
  BY <1>3, EffectKeeps
<1>7. \A n \in DOMAIN events[j] : events[j][n].by = a => events[j][n].kind = "progress"
  BY DEF Said
<1>8. Said'
  <2>1. \A i \in Jobs : \A n \in DOMAIN events'[i] :
           events'[i][n].kind = "progress" \/ pc'[i][events'[i][n].by] \in Closed
    <3> SUFFICES ASSUME NEW i \in Jobs, NEW n \in DOMAIN events'[i],
                        events'[i][n].kind # "progress"
                 PROVE  pc'[i][events'[i][n].by] \in Closed
      OBVIOUS
    <3>1. CASE n \in DOMAIN events[i] /\ events'[i][n] = events[i][n]
      BY <3>1, <1>5, <1>7, EventFact DEF Said
    <3>2. CASE i = j /\ events'[i][n] = e
      BY <3>2, <1>1, <1>5
    <3> QED BY <3>1, <3>2, <1>3, <1>4
  <2> QED BY <2>1 DEF Said
<1>9. Asked'
  <2>1. \A i \in Jobs : \A n \in DOMAIN events'[i] :
           events'[i][n].kind = "cancelled" => Requested(i)
    BY <1>1, <1>3, <1>4 DEF Asked
  <2> QED BY <2>1, EffectKeeps DEF Asked
<1>10. WorkIsPaid'
  <2>1. \A i \in Jobs : \A n \in DOMAIN events'[i] :
           events'[i][n].kind = "done" => <<i, events'[i][n].by>> \in invocations
    <3>1. \A n \in DOMAIN events'[j] :
             events'[j][n].kind = "done" => <<j, events'[j][n].by>> \in invocations
      BY <1>1, <1>4 DEF WorkIsPaid
    <3>2. \A i \in Jobs : i # j => \A n \in DOMAIN events'[i] :
             events'[i][n].kind = "done" => <<i, events'[i][n].by>> \in invocations
      BY <1>3 DEF WorkIsPaid
    <3> QED BY <3>1, <3>2
  <2> QED BY <2>1 DEF WorkIsPaid
<1>11. VerdictTellsTheWrites'
  <2>1. \A i \in Scans : \A n \in DOMAIN events'[i] :
           /\ events'[i][n].kind = "done" => <<i, events'[i][n].by>> \in findings
           /\ events'[i][n].kind = "cancelled" => <<i, events'[i][n].by>> \notin findings
    <3>1. j \in Scans => \A n \in DOMAIN events'[j] :
             /\ events'[j][n].kind = "done" => <<j, events'[j][n].by>> \in findings
             /\ events'[j][n].kind = "cancelled" => <<j, events'[j][n].by>> \notin findings
      BY <1>1, <1>4 DEF VerdictTellsTheWrites
    <3>2. \A i \in Scans : i # j => \A n \in DOMAIN events'[i] :
             /\ events'[i][n].kind = "done" => <<i, events'[i][n].by>> \in findings
             /\ events'[i][n].kind = "cancelled" => <<i, events'[i][n].by>> \notin findings
      BY <1>3, ConstantsOK DEF VerdictTellsTheWrites
    <3> QED BY <3>1, <3>2
  <2> QED BY <2>1 DEF VerdictTellsTheWrites
<1>12. OneVerdictPerDelivery'
  <2> SUFFICES ASSUME NEW i \in Jobs, NEW n \in DOMAIN events'[i], NEW m \in DOMAIN events'[i],
                      n < m, events'[i][n].by = events'[i][m].by
               PROVE  events'[i][n].kind = "progress"
    BY DEF OneVerdictPerDelivery
  <2>1. CASE i # j
    BY <2>1, <1>3 DEF OneVerdictPerDelivery
  <2>2. CASE i = j
    <3>1. CASE m \in DOMAIN events[j] /\ m < Len(events[j]) + 1 /\ events'[j][m] = events[j][m]
      <4>1. n \in DOMAIN events[j] /\ events'[j][n] = events[j][n]
        BY <3>1, <2>2, <1>2, <1>4, SMT
      <4> QED BY <4>1, <3>1, <2>2 DEF OneVerdictPerDelivery
    <3>2. CASE m = Len(events[j]) + 1 /\ events'[j][m] = e
      <4>1. n \in DOMAIN events[j] /\ events'[j][n] = events[j][n]
        BY <3>2, <2>2, <1>2, <1>4, SMT
      <4> QED BY <4>1, <3>2, <2>2, <1>1, <1>7
    <3> QED BY <3>1, <3>2, <2>2, <1>4
  <2> QED BY <2>1, <2>2
<1> QED BY <1>6, <1>8, <1>9, <1>10, <1>11, <1>12

-----------------------------------------------------------------------------
(* Each action of a handler has such an effect.                            *)

\* What an UPDATE of the status does; only a step that stops writes 'cancelled'.
LEMMA StatusSet ==
    ASSUME TypeOK, NEW j \in Jobs, NEW s \in Status, SetStatus(j, s)
    PROVE  /\ status' \in [Jobs -> Status]
           /\ \A i \in Jobs : i # j => status'[i] = status[i]
           /\ status'[j] \in {s, "absent"}
<1>1. status \in [Jobs -> Status] /\ "absent" \in Status
  BY DEF TypeOK, Status
<1> QED BY <1>1, SMT DEF SetStatus

\* A poll changes no row: it stops the handler where a cancel was applied, or
\* lets it go on.
LEMMA PollStep ==
    ASSUME IInv, NEW j \in Jobs, NEW a \in Attempts, NEW from, NEW stop, NEW goOn,
           Poll(j, a, from, stop, goOn),
           from \in {"poll0", "poll1", "poll2"}, stop \in {"cancel0", "cancel1", "cancel2"},
           goOn \in {"running", "scan", "invoke", "write"},
           (stop \in PaidPC \/ goOn \in PaidPC) => from \in PaidPC,
           goOn = "invoke" => j \notin Scans
    PROVE  IInv'
<1> DEFINE to == IF status[j] = "cancelling" THEN stop ELSE goOn
<1>1. pc[j][a] = from /\ pc' = [pc EXCEPT ![j][a] = to]
  BY DEF Poll, Goto
<1>2. \/ to = goOn
      \/ to = stop /\ Requested(j)
  BY DEF IInv, Asked
<1> HIDE DEF to
<1>3. from \in Live /\ from \in Unwritten /\ from \notin Closed
  BY SMT DEF Live, InTry, Bare, Unwritten, Closed
<1>4. to \in PC \ {"off"} /\ to \notin {"done", "doneEv"} /\ (goOn \notin Stopping)
  BY <1>2, SMT DEF PC, Live, InTry, Bare, Stopping
<1>5. <<j, a>> \notin findings /\ (to \in PaidPC => <<j, a>> \in invocations)
  BY <1>1, <1>2, <1>3 DEF IInv, Ledger
<1>6. (to \in Stopping => Requested(j)) /\ (to = "invoke" => j \notin Scans)
  BY <1>2, <1>4, SMT
<1>7. UNCHANGED <<status, errorClass, events, findings, invocations, submit, boss, attempts, cancel, faults>>
  BY DEF Poll, row, queue
<1>8. HandlerEffect(j, a, to)
  BY <1>1, <1>3, <1>4, <1>5, <1>6, <1>7 DEF HandlerEffect, IInv, TypeOK
<1> QED BY <1>1, <1>3, <1>7, <1>8, SilentStep

\* The status UPDATEs of a handler keep the invariant: the only one that says
\* cancelled comes from a poll that saw a cancel.
LEMMA MarkStep ==
    ASSUME IInv, NEW j \in Jobs, NEW a \in Attempts, NEW from, NEW s \in Status, NEW to,
           Mark(j, a, from, s, to) \/ \E class \in {"quota-exceeded", "failure"} :
               s = "error" /\ MarkError(j, a, from, class, to),
           from \in Live \ Closed, to \in Live \ (Closed \cup {"invoke", "done"}),
           to \in PaidPC => from \in PaidPC,
           to \in Unwritten => from \in Unwritten,
           to = "doneEv" => from = "done",
           to \in Stopping => from \in Stopping,
           s = "cancelled" => from \in Stopping,
           s # "cancelling"
    PROVE  IInv'
<1>1. pc[j][a] = from /\ pc' = [pc EXCEPT ![j][a] = to] /\ SetStatus(j, s)
  BY DEF Mark, MarkError, Goto
<1>2. UNCHANGED <<events, findings, invocations, submit, boss, attempts, cancel, faults>>
  BY DEF Mark, MarkError, queue
<1>3. errorClass' \in [Jobs -> {"none", "quota-exceeded", "failure"}]
  <2>1. errorClass \in [Jobs -> {"none", "quota-exceeded", "failure"}]
    BY DEF IInv, TypeOK
  <2>2. errorClass' = errorClass \/ \E class \in {"quota-exceeded", "failure"} :
           errorClass' = [errorClass EXCEPT ![j] = IF status[j] = "absent" THEN @ ELSE class]
    BY DEF Mark, MarkError
  <2> QED BY <2>1, <2>2, SMT
<1>4. /\ status' \in [Jobs -> Status]
      /\ \A i \in Jobs : i # j => status'[i] = status[i]
      /\ status'[j] \in {s, "absent"}
  BY <1>1, StatusSet DEF IInv
<1>5. from \in Stopping => Requested(j)
  BY <1>1 DEF IInv, Asked
<1>6. \A i \in Jobs : \/ status'[i] = status[i]
                      \/ status'[i] \notin {"cancelling", "cancelled"}
                      \/ i = j /\ Requested(j)
  BY <1>4, <1>5
<1>7. to \in PC \ {"off"} /\ from \in Live
  BY DEF PC, Live, InTry, Bare
<1>8. /\ to \in PaidPC => <<j, a>> \in invocations
      /\ to \in Unwritten => <<j, a>> \notin findings
      /\ j \in Scans /\ to \in {"done", "doneEv"} => <<j, a>> \in findings
  BY <1>1 DEF IInv, Ledger
<1>9. HandlerEffect(j, a, to)
  BY <1>1, <1>2, <1>3, <1>4, <1>5, <1>6, <1>7, <1>8 DEF HandlerEffect, IInv, TypeOK
<1> QED BY <1>1, <1>2, <1>9, SilentStep

\* A failed statement, an event refused by its foreign key, a crash.
LEMMA FallStep ==
    ASSUME IInv, NEW j \in Jobs, NEW a \in Attempts, NEW to \in {"err", "threw", "crashed"},
           pc[j][a] \in Live, pc' = [pc EXCEPT ![j][a] = to],
           to = "err" => pc[j][a] \in InTry,
           pc[j][a] \in Closed => to \in Closed,
           GiveUp(j, a) \/ boss' = boss, faults' \in 0 .. MaxFaults,
           UNCHANGED <<status, errorClass, events, findings, invocations, submit, attempts, cancel>>
    PROVE  IInv'
<1>1. to \in PC \ {"off"} /\ to \notin Unwritten /\ to \notin Stopping
      /\ to \notin {"invoke", "done", "doneEv"}
  BY SMT DEF PC, Live, Bare, Unwritten, Stopping
<1>2. to \in PaidPC => to = "err"
  BY SMT DEF PaidPC, InTry
<1>3. to \in PaidPC => <<j, a>> \in invocations
  BY <1>2 DEF PaidPC, IInv, Ledger
<1>4. HandlerEffect(j, a, to)
  BY <1>1, <1>3, GiveUpSettles DEF HandlerEffect, IInv, TypeOK
<1> QED BY <1>4, SilentStep

\* A handler that throws lets pg-boss retry or fail the job, and writes nothing.
LEMMA ThrowStep ==
    ASSUME IInv, NEW j \in Jobs, NEW a \in Attempts, Throw(j, a), faults' \in 0 .. MaxFaults,
           UNCHANGED <<status, errorClass, events, findings, invocations, submit, attempts, cancel>>
    PROVE  IInv'
<1>1. \A p \in InTry \cup Bare : p \in Live /\ p \notin Closed
  BY SMT DEF Live, InTry, Bare, Closed
<1>2. CASE pc[j][a] \in InTry /\ pc' = [pc EXCEPT ![j][a] = "err"] /\ UNCHANGED boss
  BY <1>1, <1>2, FallStep
<1>3. CASE pc[j][a] \in Bare /\ pc' = [pc EXCEPT ![j][a] = "threw"] /\ GiveUp(j, a)
  BY <1>1, <1>3, FallStep
<1> QED BY <1>2, <1>3 DEF Throw

\* An event appended by a handler is the verdict its last statements earned.
LEMMA EmitStep ==
    ASSUME IInv, NEW j \in Jobs, NEW a \in Attempts, NEW from, NEW k \in Verdict \cup {"progress"},
           NEW to \in {"return", "count"}, Emit(j, a, from, k, to),
           from \in Live \ Closed,
           k = "progress" <=> to = "count", to = "count" => from = "start",
           k = "done" => from = "doneEv",
           k = "cancelled" => from \in Stopping
    PROVE  IInv'
<1>1. UNCHANGED <<status, errorClass, findings, invocations, submit, attempts, cancel, faults>>
  BY DEF Emit
<1>2. faults \in 0 .. MaxFaults
  BY DEF IInv, TypeOK
<1>3. CASE Throw(j, a) /\ UNCHANGED events
  BY <1>1, <1>2, <1>3, ThrowStep
<1>4. CASE /\ Goto(j, a, from, to) /\ UNCHANGED boss
           /\ events' = [events EXCEPT ![j] = Append(@, [kind |-> k, by |-> a])]
  <2>1. pc[j][a] = from /\ pc' = [pc EXCEPT ![j][a] = to]
    BY <1>4 DEF Goto
  <2>2. to \in PC \ {"off"} /\ to \notin PaidPC /\ to \notin Stopping
        /\ to \notin {"invoke", "done", "doneEv"} /\ (to \in Unwritten <=> to = "count")
        /\ (to \in Closed <=> to = "return")
    BY SMT DEF PC, Live, Bare, Unwritten, Stopping, PaidPC, InTry, Closed
  <2>3. /\ "start" \in Unwritten /\ "doneEv" \in PaidPC
        /\ \A p \in Stopping : p \in Unwritten
    BY SMT DEF Unwritten, PaidPC, InTry
  <2>4. /\ to \in Unwritten => <<j, a>> \notin findings
        /\ k = "done" => <<j, a>> \in invocations /\ (j \in Scans => <<j, a>> \in findings)
        /\ k = "cancelled" => <<j, a>> \notin findings /\ Requested(j)
    BY <2>1, <2>2, <2>3 DEF IInv, Ledger, Asked
  <2>5. HandlerEffect(j, a, to)
    BY <1>1, <1>4, <2>1, <2>2, <2>4 DEF HandlerEffect, IInv, TypeOK
  <2>6. UNCHANGED <<findings, invocations>> /\ pc[j][a] \notin Closed /\ (k = "progress" \/ to \in Closed)
    BY <1>1, <2>1, <2>2
  <2> QED BY <1>4, <2>4, <2>5, <2>6, TellingStep
<1> QED BY <1>3, <1>4 DEF Emit, AppendEvent

\* The steps that neither mark, tell nor poll.
LEMMA WorkStep ==
    ASSUME IInv, NEW j \in Jobs, NEW a \in Attempts,
           \/ CountQuota(j, a) \/ LogInvocation(j, a) \/ Scan(j, a)
           \/ WriteFindings(j, a) \/ Complete(j, a)
    PROVE  IInv'
<1>0. /\ \A p \in {"log", "quotaErr"} : p \in (PC \ {"off"}) \cap Unwritten /\ p \notin PaidPC \cup Stopping
      /\ "poll1" \in PC \cap Unwritten \cap PaidPC /\ "poll1" \notin Stopping
      /\ "poll2" \in PC \cap Unwritten \cap PaidPC /\ "poll2" \notin Stopping
      /\ "done" \in PC \cap PaidPC /\ "done" \notin Stopping \cup Unwritten
      /\ "returned" \in PC \cap Closed /\ "returned" \notin PaidPC \cup Stopping \cup Unwritten
      /\ \A p \in {"count", "log", "scan", "invoke", "write"} : p \in Live \ Closed
      /\ \A p \in {"count", "log", "scan", "write"} : p \in Unwritten
      /\ \A p \in {"scan", "invoke", "write"} : p \in PaidPC
      /\ "return" \in Live
  BY SMT DEF PC, Live, InTry, Bare, Unwritten, PaidPC, Stopping, Closed
<1>1. CASE CountQuota(j, a)
  <2> DEFINE to == IF Cardinality(Paid(j)) >= Quota THEN "quotaErr" ELSE "log"
  <2>1. to \in {"log", "quotaErr"}
    OBVIOUS
  <2>2. pc[j][a] = "count" /\ pc' = [pc EXCEPT ![j][a] = to]
    BY <1>1 DEF CountQuota, Goto
  <2> HIDE DEF to
  <2>3. UNCHANGED <<status, errorClass, events, findings, invocations, submit, boss, attempts, cancel, faults>>
    BY <1>1 DEF CountQuota, row, queue
  <2>4. <<j, a>> \notin findings
    BY <1>0, <2>2 DEF IInv, Ledger
  <2>5. HandlerEffect(j, a, to)
    BY <1>0, <2>1, <2>2, <2>3, <2>4 DEF HandlerEffect, IInv, TypeOK
  <2> QED BY <1>0, <2>2, <2>3, <2>5, SilentStep
<1>2. CASE LogInvocation(j, a)
  <2>1. pc[j][a] = "log" /\ pc' = [pc EXCEPT ![j][a] = "poll1"]
    BY <1>2 DEF LogInvocation, Goto
  <2>2. UNCHANGED <<status, errorClass, events, findings, submit, boss, attempts, cancel, faults>>
    BY <1>2 DEF LogInvocation, row, queue
  <2>3. invocations' = invocations \cup {<<j, a>>}
    BY <1>2 DEF LogInvocation
  <2>4. <<j, a>> \notin findings
    BY <1>0, <2>1 DEF IInv, Ledger
  <2>5. HandlerEffect(j, a, "poll1")
    BY <1>0, <2>1, <2>2, <2>3, <2>4 DEF HandlerEffect, IInv, TypeOK
  <2> QED BY <1>0, <2>1, <2>2, <2>5, SilentStep
<1>3. CASE Scan(j, a)
  <2>1. UNCHANGED <<status, errorClass, events, findings, invocations, submit, boss, attempts, cancel, faults>>
    BY <1>3 DEF Scan, row, queue
  <2>2. CASE Goto(j, a, "scan", "poll2")
    <3>1. pc[j][a] = "scan" /\ pc' = [pc EXCEPT ![j][a] = "poll2"]
      BY <2>2 DEF Goto
    <3>2. <<j, a>> \notin findings /\ <<j, a>> \in invocations
      BY <1>0, <3>1 DEF IInv, Ledger
    <3>3. HandlerEffect(j, a, "poll2")
      BY <1>0, <2>1, <3>1, <3>2 DEF HandlerEffect, IInv, TypeOK
    <3> QED BY <1>0, <2>1, <3>1, <3>3, SilentStep
  <2>3. CASE Goto(j, a, "invoke", "done")
    <3>1. pc[j][a] = "invoke" /\ pc' = [pc EXCEPT ![j][a] = "done"]
      BY <2>3 DEF Goto
    <3>2. j \notin Scans /\ <<j, a>> \in invocations
      BY <1>0, <3>1 DEF IInv, Ledger
    <3>3. HandlerEffect(j, a, "done")
      BY <1>0, <2>1, <3>1, <3>2 DEF HandlerEffect, IInv, TypeOK
    <3> QED BY <1>0, <2>1, <3>1, <3>3, SilentStep
  <2> QED BY <1>3, <2>2, <2>3 DEF Scan
<1>4. CASE WriteFindings(j, a)
  <2>1. pc[j][a] = "write" /\ pc' = [pc EXCEPT ![j][a] = "done"]
    BY <1>4 DEF WriteFindings, Goto
  <2>2. UNCHANGED <<status, errorClass, events, invocations, submit, boss, attempts, cancel, faults>>
    BY <1>4 DEF WriteFindings, row, queue
  <2>3. findings' = findings \cup {<<j, a>>} /\ <<j, a>> \in invocations
    BY <1>0, <1>4, <2>1 DEF WriteFindings, IInv, Ledger
  <2>4. HandlerEffect(j, a, "done")
    BY <1>0, <2>1, <2>2, <2>3 DEF HandlerEffect, IInv, TypeOK
  <2> QED BY <1>0, <2>1, <2>2, <2>4, SilentStep
<1>5. CASE Complete(j, a)
  <2>1. pc[j][a] = "return" /\ pc' = [pc EXCEPT ![j][a] = "returned"]
    BY <1>5 DEF Complete
  <2>2. UNCHANGED <<status, errorClass, events, findings, invocations, submit, attempts, cancel, faults>>
    BY <1>5 DEF Complete, row
  <2>3. /\ boss' \in [Jobs -> {"none", "created", "active", "retry", "completed", "failed"}]
        /\ \A i \in Jobs : \/ boss'[i] = boss[i]
                           \/ boss[i] = "active" /\ boss'[i] \in {"failed", "completed"}
    <3>1. boss \in [Jobs -> {"none", "created", "active", "retry", "completed", "failed"}]
      BY DEF IInv, TypeOK
    <3>2. \/ boss' = boss
          \/ boss[j] = "active" /\ boss' = [boss EXCEPT ![j] = "completed"]
      BY <1>5 DEF Complete
    <3> QED BY <3>1, <3>2, SMT
  <2>4. HandlerEffect(j, a, "returned")
    BY <1>0, <2>1, <2>2, <2>3 DEF HandlerEffect, IInv, TypeOK
  <2> QED BY <1>0, <2>2, <2>4, SilentStep
<1> QED BY <1>1, <1>2, <1>3, <1>4, <1>5

\* Every statement of a handler keeps the invariant.
LEMMA HandleStep == ASSUME IInv, NEW j \in Jobs, NEW a \in Attempts, Handle(j, a) PROVE IInv'
<1> USE DEF Live, InTry, Bare, Closed, Stopping, PaidPC, Unwritten, Status, Terminal, Cancellable, Verdict
<1>1. CASE RespectCancellation(j, a)
  <2>1. CASE Poll(j, a, "poll0", "cancel0", "running")
    BY <2>1, PollStep
  <2>2. CASE Poll(j, a, "poll1", "cancel1", IF j \in Scans THEN "scan" ELSE "invoke")
    <3>1. CASE j \in Scans
      BY <2>2, <3>1, PollStep
    <3>2. CASE j \notin Scans
      BY <2>2, <3>2, PollStep
    <3> QED BY <3>1, <3>2
  <2>3. CASE Poll(j, a, "poll2", "cancel2", "write")
    BY <2>3, PollStep
  <2>4. CASE Mark(j, a, "cancel0", "cancelled", "cancel0Ev")
    BY <2>4, MarkStep
  <2>5. CASE Mark(j, a, "cancel1", "cancelled", "cancel1Ev")
    BY <2>5, MarkStep
  <2>6. CASE Mark(j, a, "cancel2", "cancelled", "cancel2Ev")
    BY <2>6, MarkStep
  <2>7. CASE \/ Emit(j, a, "cancel0Ev", "cancelled", "return")
             \/ Emit(j, a, "cancel1Ev", "cancelled", "return")
             \/ Emit(j, a, "cancel2Ev", "cancelled", "return")
    BY <2>7, EmitStep
  <2> QED BY <1>1, <2>1, <2>2, <2>3, <2>4, <2>5, <2>6, <2>7 DEF RespectCancellation
<1>2. CASE MarkRunning(j, a)
  BY <1>2, MarkStep DEF MarkRunning
<1>3. CASE EmitStart(j, a)
  BY <1>3, EmitStep DEF EmitStart
<1>4. CASE RejectOverQuota(j, a)
  <2>1. CASE MarkError(j, a, "quotaErr", "quota-exceeded", "quotaErrEv")
    BY <2>1, MarkStep
  <2>2. CASE Emit(j, a, "quotaErrEv", "error", "return")
    BY <2>2, EmitStep
  <2> QED BY <1>4, <2>1, <2>2 DEF RejectOverQuota
<1>5. CASE Finish(j, a)
  <2>1. CASE Mark(j, a, "done", "done", "doneEv")
    BY <2>1, MarkStep
  <2>2. CASE Emit(j, a, "doneEv", "done", "return")
    BY <2>2, EmitStep
  <2> QED BY <1>5, <2>1, <2>2 DEF Finish
<1>6. CASE Catch(j, a)
  <2>1. CASE MarkError(j, a, "err", "failure", "errEv")
    BY <2>1, MarkStep
  <2>2. CASE Emit(j, a, "errEv", "error", "return")
    BY <2>2, EmitStep
  <2> QED BY <1>6, <2>1, <2>2 DEF Catch
<1> HIDE DEF Live, InTry, Bare, Closed, Stopping, PaidPC, Unwritten, Status, Terminal, Cancellable, Verdict
<1> QED BY <1>1, <1>2, <1>3, <1>4, <1>5, <1>6, WorkStep DEF Handle

\* A failed statement and a worker crash keep the invariant.
LEMMA FaultStep ==
    ASSUME IInv, NEW j \in Jobs, NEW a \in Attempts, StatementFails(j, a) \/ Crash(j, a)
    PROVE  IInv'
<1>1. faults' \in 0 .. MaxFaults
  BY ConstantsOK, SMT DEF StatementFails, Crash, Fault, IInv, TypeOK
<1>2. CASE StatementFails(j, a)
  BY <1>1, <1>2, ThrowStep DEF StatementFails, row
<1>3. CASE Crash(j, a)
  <2>1. "crashed" \in Closed /\ \A p \in Live : p \in InTry \/ p \in Bare \/ p \in Closed
    BY DEF Closed, Live
  <2> QED BY <1>1, <1>3, <2>1, FallStep DEF Crash, row, queue
<1> QED BY <1>2, <1>3

\* So does a step that changes nothing.
LEMMA StutterStep == ASSUME IInv, UNCHANGED vars PROVE IInv'
<1>1. UNCHANGED <<status, errorClass, events, findings, invocations, submit,
                  boss, attempts, pc, cancel, faults>>
  BY DEF vars
<1> QED BY <1>1 DEF IInv, TypeOK, Queueing, Ledger, Said, Asked, Requested, WorkIsPaid,
           VerdictTellsTheWrites, OneVerdictPerDelivery

-----------------------------------------------------------------------------
\* The inductive invariant holds of every behaviour.
THEOREM Invariance == Spec => []IInv
<1>1. Init => IInv
  BY InitIInv
<1>2. IInv /\ [Next]_vars => IInv'
  BY SubmitStep, BossStep, CancelRouteStep, HandleStep, FaultStep, StutterStep DEF Next
<1> QED BY <1>1, <1>2, PTL DEF Spec

\* Type correctness.
THEOREM TypeCorrect == Spec => []TypeOK
<1>1. IInv => TypeOK
  BY DEF IInv
<1> QED BY <1>1, Invariance, PTL

\* Whatever pg-boss redelivers and wherever a worker dies: no delivery writes
\* findings or reports 'done' without an invocation row of its own.
THEOREM PaidForWork == Spec => []WorkIsPaid
<1>1. IInv => WorkIsPaid
  BY DEF IInv
<1> QED BY <1>1, Invariance, PTL

\* 'done' in the log of a scan means stored findings, 'cancelled' means none of
\* that delivery.
THEOREM VerdictsAreTrue == Spec => []VerdictTellsTheWrites
<1>1. IInv => VerdictTellsTheWrites
  BY DEF IInv
<1> QED BY <1>1, Invariance, PTL

\* A delivery gives at most one verdict, and it is its last word.
THEOREM VerdictIsLast == Spec => []OneVerdictPerDelivery
<1>1. IInv => OneVerdictPerDelivery
  BY DEF IInv
<1> QED BY <1>1, Invariance, PTL

\* A job is 'cancelling' or 'cancelled' only if a cancel request was applied.
THEOREM NoSpuriousCancel == Spec => []CancelledIsRequested
<1>1. IInv => CancelledIsRequested
  BY SMT DEF IInv, Asked, Requested, CancelledIsRequested, Kinds
<1> QED BY <1>1, Invariance, PTL

-----------------------------------------------------------------------------
(* The event stream.  The log is the rows in order; one insert runs at a   *)
(* time, so it only grows at its end.  The client was told a first part of *)
(* it, and each loop has sent a longer one.                                *)

EventRow == [id : Nat, kind : Verdicts \cup {"progress"}]
Working  == [pc : {"off", "running", "inserting", "ended", "dead"}, id : Nat, told : Nat]
Serving  == [pc : {"off", "poll", "send", "sleep", "closed"}, cursor : Nat, attached : BOOLEAN,
             batch : Seq(EventRow)]
Reader   == [conn : 0 .. MaxConns, reading : BOOLEAN, cursor : Nat, told : Seq(EventRow)]

StreamTypes ==
    /\ nextId \in Nat \ {0} /\ rows \subseteq EventRow
    /\ delivery \in [Deliveries -> Working]
    /\ loop \in [Conns -> Serving]
    /\ wire \in [Conns -> Seq(EventRow \cup {Timeout})]
    /\ client \in Reader

\* A sequence has the rows of a set, each once, in the order of their ids.
Enumerates(s, S) ==
    /\ s \in Seq(EventRow)
    /\ \A i \in 1 .. Len(s) : s[i] \in S
    /\ \A i, j \in 1 .. Len(s) : i < j => s[i].id < s[j].id
    /\ \A r \in S : \E i \in 1 .. Len(s) : s[i] = r

\* The rows in order: a row that commits comes last, as one insert runs at a time.
Log == InOrder(rows)

Inserting(a) == delivery[a].pc = "inserting"

OneAfterTheOther ==
    /\ \A a, b \in Deliveries : b < a /\ delivery[a].pc # "off" => delivery[b].pc = "dead"
    /\ \A a \in Deliveries : Inserting(a) =>
          delivery[a].id \in 1 .. nextId - 1 /\ \A r \in rows : r.id < delivery[a].id

Logged ==
    /\ Enumerates(Log, rows)
    /\ \A r \in rows : 1 <= r.id /\ r.id < nextId

\* The cursor of who has the first k rows.
IdAt(k) == IF k = 0 THEN 0 ELSE Log[k].id

\* The client was told the first rows of the log.
ToldFirst ==
    LET p == Len(client.told) IN
    /\ p <= Len(Log) /\ client.cursor = IdAt(p)
    /\ \A i \in 1 .. p : client.told[i] = Log[i]
    /\ \A i \in 1 .. p : Log[i].kind \in Closing => i = p

\* A loop has sent, or skipped, the first q rows; the batch it sends are the next.
Sent(c, q) ==
    /\ loop[c].cursor = IdAt(q)
    /\ loop[c].pc = "send" =>
          /\ q + Len(loop[c].batch) <= Len(Log)
          /\ \A i \in 1 .. Len(loop[c].batch) : loop[c].batch[i] = Log[q + i]
    /\ \A i \in 1 .. q : Log[i].kind \in Closing => i = q /\ loop[c].pc = "closed"

\* What the client has still to read is what it was not told of these, and perhaps that
\* the time is over.
UnderWay(c, q) ==
    LET p == Len(client.told)
        n == q - p IN
    /\ p <= q
    /\ \A i \in 1 .. n : wire[c][i] = Log[p + i]
    /\ \/ Len(wire[c]) = n
       \/ Len(wire[c]) = n + 1 /\ wire[c][n + 1] = Timeout /\ loop[c].pc = "closed"

Reads(c) == client.reading /\ client.conn = c

Served ==
    \A c \in Conns : \E q \in 0 .. Len(Log) : Sent(c, q) /\ (Reads(c) => UnderWay(c, q))

Connected ==
    /\ client.reading => /\ client.conn \in Conns
                         /\ loop[client.conn].attached /\ loop[client.conn].pc # "off"
    /\ \A c \in Conns : c > client.conn => loop[c].pc = "off" /\ wire[c] = <<>>

StreamInv ==
    /\ StreamTypes /\ Logged /\ OneAfterTheOther
    /\ ToldFirst /\ Served /\ Connected

-----------------------------------------------------------------------------
\* A set has as many elements as a list without repetition that has them all.
LEMMA Counted ==
    ASSUME NEW n \in Nat, NEW T, NEW s, \A i \in 1 .. n : s[i] \in T,
           \A i, j \in 1 .. n : s[i] = s[j] => i = j,
           \A x \in T : \E i \in 1 .. n : s[i] = x
    PROVE  Cardinality(T) = n
<1>. DEFINE f == [i \in 1 .. n |-> s[i]]
            N == 1 .. n
<1>1. f \in [N -> T] /\ \A i \in N : f[i] = s[i]
  OBVIOUS
<1>2. IsFiniteSet(N) /\ Cardinality(N) = n
  BY FS_Interval
<1>. HIDE DEF f
<1>3. f \in Injection(N, T)
  BY <1>1 DEF Injection, IsInjective
<1>4. f \in Surjection(N, T)
  BY <1>1 DEF Surjection
<1>. HIDE DEF N
<1>5. ExistsBijection(N, T)
  BY <1>3, <1>4 DEF ExistsBijection, Bijection
<1>. QED BY <1>2, <1>5, FS_Bijection

\* A set of rows has one enumeration in the order of the ids: what ORDER BY returns.
LEMMA OneEnumeration ==
    ASSUME NEW S \in SUBSET EventRow, NEW s, Enumerates(s, S)
    PROVE  InOrder(S) = s
<1>. DEFINE n == Len(s)
            Below(r) == {x \in S : x.id < r.id}
<1>1. n \in Nat /\ s \in [1 .. n -> EventRow]
  BY LenProperties DEF Enumerates
<1>2. \A i \in 1 .. n : s[i] \in S
  BY DEF Enumerates
<1>3. \A i, j \in 1 .. n : i < j => s[i].id < s[j].id
  BY DEF Enumerates
<1>4. \A r \in S : \E i \in 1 .. n : s[i] = r
  BY DEF Enumerates
<1>5. \A r \in S : r.id \in Nat
  BY DEF EventRow
<1>. HIDE DEF n
<1>6. \A i, j \in 1 .. n : s[i].id < s[j].id => i < j
  <2>. SUFFICES ASSUME NEW i \in 1 .. n, NEW j \in 1 .. n, s[i].id < s[j].id PROVE i < j
    OBVIOUS
  <2>1. s[i].id \in Nat /\ s[j].id \in Nat
    BY <1>2, <1>5
  <2>2. CASE j < i
    <3>1. s[j].id < s[i].id
      BY <1>3, <2>2
    <3>. QED BY <2>1, <3>1
  <2>3. CASE i = j
    BY <2>1, <2>3
  <2>. QED BY <1>1, <2>2, <2>3
<1>7. \A i, j \in 1 .. n : s[i] = s[j] => i = j
  <2>. SUFFICES ASSUME NEW i \in 1 .. n, NEW j \in 1 .. n, s[i] = s[j], i < j PROVE FALSE
    BY <1>1
  <2>1. s[i].id \in Nat /\ s[i].id < s[j].id
    BY <1>2, <1>3, <1>5
  <2>. QED BY <2>1
<1>8. Cardinality(S) = n
  BY <1>1, <1>2, <1>4, <1>7, Counted
<1>9. ASSUME NEW i \in 1 .. n PROVE Cardinality(Below(s[i])) = i - 1
  <2>. DEFINE T == Below(s[i])
              m == i - 1
  <2>1. m \in Nat /\ \A k \in 1 .. m : k \in 1 .. n /\ k < i
    BY <1>1, <1>9
  <2>2. \A k \in 1 .. m : s[k] \in T
    BY <1>2, <1>3, <2>1
  <2>3. \A x \in T : \E k \in 1 .. m : s[k] = x
    <3>. SUFFICES ASSUME NEW x \in T PROVE \E k \in 1 .. m : s[k] = x
      OBVIOUS
    <3>1. PICK k \in 1 .. n : s[k] = x
      BY <1>4
    <3>2. k < i
      BY <1>6, <3>1
    <3>. QED BY <1>1, <3>1, <3>2
  <2>4. \A k, l \in 1 .. m : s[k] = s[l] => k = l
    BY <1>7, <2>1
  <2>. HIDE DEF T, m
  <2>5. Cardinality(T) = m
    BY <2>1, <2>2, <2>3, <2>4, Counted
  <2>. QED BY <2>5 DEF T, m
<1>10. ASSUME NEW i \in 1 .. n
       PROVE  (CHOOSE r \in S : Cardinality(Below(r)) = i - 1) = s[i]
  <2>1. ASSUME NEW r \in S, Cardinality(Below(r)) = i - 1 PROVE r = s[i]
    <3>1. PICK k \in 1 .. n : s[k] = r
      BY <1>4
    <3>2. k - 1 = i - 1
      BY <1>9, <2>1, <3>1
    <3>. QED BY <1>1, <3>1, <3>2
  <2>2. s[i] \in S /\ Cardinality(Below(s[i])) = i - 1
    BY <1>2, <1>9
  <2>. HIDE DEF Below
  <2>. QED BY <2>1, <2>2
<1>11. InOrder(S) = [i \in 1 .. n |-> s[i]]
  BY <1>8, <1>10 DEF InOrder
<1>. QED BY <1>1, <1>11

\* The rows of the log, their ids and the cursors.
LEMMA LogFacts ==
    ASSUME StreamTypes, Logged
    PROVE  /\ Log \in Seq(EventRow) /\ Len(Log) \in Nat
           /\ \A i \in 1 .. Len(Log) : /\ Log[i] \in rows /\ Log[i] \in EventRow
                                       /\ Log[i].id \in Nat /\ 1 <= Log[i].id
           /\ \A i, j \in 1 .. Len(Log) : i < j <=> Log[i].id < Log[j].id
           /\ \A r \in rows : \E i \in 1 .. Len(Log) : Log[i] = r
           /\ \A q \in 0 .. Len(Log) : /\ IdAt(q) \in Nat
                                       /\ \A i \in 1 .. Len(Log) : i <= q <=> Log[i].id <= IdAt(q)
<1>1. Log \in Seq(EventRow) /\ Len(Log) \in Nat
  BY LenProperties DEF Logged, Enumerates
<1>2. \A i \in 1 .. Len(Log) : Log[i] \in rows
  BY DEF Logged, Enumerates
<1>3. \A r \in rows : r \in EventRow /\ r.id \in Nat /\ 1 <= r.id
  BY DEF StreamTypes, Logged, EventRow
<1>4. \A i, j \in 1 .. Len(Log) : i < j => Log[i].id < Log[j].id
  BY DEF Logged, Enumerates
<1>5. \A r \in rows : \E i \in 1 .. Len(Log) : Log[i] = r
  BY DEF Logged, Enumerates
<1>. HIDE DEF Log
<1>6. \A i, j \in 1 .. Len(Log) : i < j <=> Log[i].id < Log[j].id
  <2>. SUFFICES ASSUME NEW i \in 1 .. Len(Log), NEW j \in 1 .. Len(Log), Log[i].id < Log[j].id
                PROVE  i < j
    BY <1>4
  <2>1. Log[i].id \in Nat /\ Log[j].id \in Nat
    BY <1>2, <1>3
  <2>2. CASE j < i
    <3>1. Log[j].id < Log[i].id
      BY <1>4, <2>2
    <3>. QED BY <2>1, <3>1
  <2>3. CASE i = j
    BY <2>1, <2>3
  <2>. QED BY <1>1, <2>2, <2>3
<1>7. ASSUME NEW q \in 0 .. Len(Log)
      PROVE  IdAt(q) \in Nat /\ \A i \in 1 .. Len(Log) : i <= q <=> Log[i].id <= IdAt(q)
  <2>1. CASE q = 0
    <3>1. IdAt(q) = 0
      BY <2>1 DEF IdAt
    <3>. QED BY <1>1, <1>2, <1>3, <2>1, <3>1
  <2>2. CASE q # 0
    <3>1. IdAt(q) = Log[q].id /\ q \in 1 .. Len(Log)
      BY <1>1, <2>2 DEF IdAt
    <3>2. ASSUME NEW i \in 1 .. Len(Log) PROVE i <= q <=> Log[i].id <= Log[q].id
      <4>1. Log[i].id \in Nat /\ Log[q].id \in Nat
        BY <1>2, <1>3, <3>1
      <4>2. q < i <=> Log[q].id < Log[i].id
        BY <1>6, <3>1
      <4>. QED BY <1>1, <3>1, <4>1, <4>2
    <3>. QED BY <1>2, <1>3, <3>1, <3>2
  <2>. QED BY <2>1, <2>2
<1>. QED BY <1>1, <1>2, <1>3, <1>5, <1>6, <1>7

\* A poll from a cursor finds the rest of the log.
LEMMA RestOfLog ==
    ASSUME StreamTypes, Logged, NEW q \in 0 .. Len(Log)
    PROVE  /\ RowsPast(IdAt(q)) \in Seq(EventRow)
           /\ Len(RowsPast(IdAt(q))) = Len(Log) - q
           /\ \A i \in 1 .. Len(Log) - q : RowsPast(IdAt(q))[i] = Log[q + i]
<1>. DEFINE n == Len(Log) - q
            s == [i \in 1 .. n |-> Log[q + i]]
            S == {r \in rows : r.id > IdAt(q)}
<1>1. /\ Len(Log) \in Nat
      /\ \A i \in 1 .. Len(Log) : Log[i] \in rows /\ Log[i] \in EventRow /\ Log[i].id \in Nat
      /\ \A i, j \in 1 .. Len(Log) : i < j <=> Log[i].id < Log[j].id
      /\ \A r \in rows : \E i \in 1 .. Len(Log) : Log[i] = r
      /\ IdAt(q) \in Nat
      /\ \A i \in 1 .. Len(Log) : i <= q <=> Log[i].id <= IdAt(q)
  BY LogFacts
<1>2. n \in Nat /\ \A i \in 1 .. n : q + i \in 1 .. Len(Log) /\ q + i > q
  BY <1>1
<1>3. s \in [1 .. n -> EventRow] /\ \A i \in 1 .. n : s[i] = Log[q + i]
  BY <1>1, <1>2
<1>. HIDE DEF s, n
<1>4. s \in Seq(EventRow) /\ Len(s) = n
  BY <1>2, <1>3, SeqDef, LenProperties
<1>5. \A i \in 1 .. n : s[i] \in S
  <2>. SUFFICES ASSUME NEW i \in 1 .. n PROVE s[i] \in S
    OBVIOUS
  <2>1. q + i \in 1 .. Len(Log) /\ q + i > q /\ s[i] = Log[q + i]
    BY <1>2, <1>3
  <2>2. ~(Log[q + i].id <= IdAt(q)) /\ Log[q + i] \in rows /\ Log[q + i].id \in Nat
    BY <1>1, <2>1
  <2>. QED BY <1>1, <2>1, <2>2
<1>6. \A i, j \in 1 .. n : i < j => s[i].id < s[j].id
  <2>. SUFFICES ASSUME NEW i \in 1 .. n, NEW j \in 1 .. n, i < j PROVE s[i].id < s[j].id
    OBVIOUS
  <2>1. /\ q + i \in 1 .. Len(Log) /\ s[i] = Log[q + i]
        /\ q + j \in 1 .. Len(Log) /\ s[j] = Log[q + j]
    BY <1>2, <1>3
  <2>2. q + i < q + j
    BY <1>1, <1>2
  <2>. QED BY <1>1, <2>1, <2>2
<1>7. \A r \in S : \E i \in 1 .. n : s[i] = r
  <2>. SUFFICES ASSUME NEW r \in S PROVE \E i \in 1 .. n : s[i] = r
    OBVIOUS
  <2>1. PICK k \in 1 .. Len(Log) : Log[k] = r
    BY <1>1
  <2>2. ~(k <= q)
    BY <1>1, <2>1
  <2>3. k - q \in 1 .. n /\ q + (k - q) = k
    BY <1>1, <2>2 DEF n
  <2>4. s[k - q] = Log[q + (k - q)]
    BY <1>3, <2>3
  <2>. QED BY <2>1, <2>3, <2>4
<1>8. S \in SUBSET EventRow
  BY DEF StreamTypes
<1>9. Enumerates(s, S)
  <2>. HIDE DEF S
  <2>. QED BY <1>4, <1>5, <1>6, <1>7 DEF Enumerates
<1>10. InOrder(S) = s
  <2>. HIDE DEF S
  <2>. QED BY <1>8, <1>9, OneEnumeration
<1>11. RowsPast(IdAt(q)) = s
  BY <1>10 DEF RowsPast
<1>. QED BY <1>3, <1>4, <1>11 DEF n

\* The rows up to a cursor are the first of the log.
LEMMA FirstOfLog ==
    ASSUME StreamTypes, Logged, NEW t \in Seq(EventRow), Len(t) <= Len(Log),
           \A i \in 1 .. Len(t) : t[i] = Log[i]
    PROVE  InOrder({r \in rows : r.id <= IdAt(Len(t))}) = t
<1>. DEFINE q == Len(t)
            S == {r \in rows : r.id <= IdAt(q)}
<1>1. q \in 0 .. Len(Log)
  BY LogFacts, LenProperties
<1>2. /\ Len(Log) \in Nat
      /\ \A i \in 1 .. Len(Log) : Log[i] \in rows /\ Log[i].id \in Nat
      /\ \A i, j \in 1 .. Len(Log) : i < j <=> Log[i].id < Log[j].id
      /\ \A r \in rows : \E i \in 1 .. Len(Log) : Log[i] = r
      /\ IdAt(q) \in Nat
      /\ \A i \in 1 .. Len(Log) : i <= q <=> Log[i].id <= IdAt(q)
  <2>. HIDE DEF q
  <2>. QED BY <1>1, LogFacts
<1>3. \A i \in 1 .. q : i \in 1 .. Len(Log) /\ t[i] = Log[i]
  BY <1>1, <1>2
<1>4. \A i \in 1 .. q : t[i] \in S
  BY <1>1, <1>2, <1>3
<1>5. \A i, j \in 1 .. q : i < j => t[i].id < t[j].id
  BY <1>2, <1>3
<1>6. \A r \in S : \E i \in 1 .. q : t[i] = r
  <2>. SUFFICES ASSUME NEW r \in S PROVE \E i \in 1 .. q : t[i] = r
    OBVIOUS
  <2>1. PICK k \in 1 .. Len(Log) : Log[k] = r
    BY <1>2
  <2>2. k <= q
    BY <1>2, <2>1
  <2>. QED BY <1>1, <1>3, <2>1, <2>2
<1>7. S \in SUBSET EventRow
  BY DEF StreamTypes
<1>8. Enumerates(t, S)
  <2>. HIDE DEF S
  <2>. QED BY <1>4, <1>5, <1>6 DEF Enumerates
<1>. HIDE DEF S
<1>9. InOrder(S) = t
  BY <1>7, <1>8, OneEnumeration
<1>. QED BY <1>9 DEF S

\* A set of numbers has a least.
LEMMA Least ==
    ASSUME NEW S \in SUBSET Nat, S # {}
    PROVE  Min(S) \in S /\ \A i \in S : Min(S) <= i
<1>1. PICK x \in S : \A y \in S : <<y, x>> \notin OpToRel(<, Nat)
  BY WFMin, NatLessThanWellFounded
<1>2. \A y \in S : ~(y < x)
  BY <1>1 DEF OpToRel
<1>3. \A y \in S : x <= y
  BY <1>2
<1>. QED BY <1>3 DEF Min

\* Of a batch the first rows go out, up to the first that closes the stream.
LEMMA FirstOfBatch ==
    ASSUME NEW b \in Seq(EventRow)
    PROVE  /\ UpToClosing(b) \in Seq(EventRow) /\ Len(UpToClosing(b)) \in 0 .. Len(b)
           /\ \A i \in 1 .. Len(UpToClosing(b)) :
                 /\ UpToClosing(b)[i] = b[i]
                 /\ b[i].kind \in Closing => i = Len(UpToClosing(b))
<1>. DEFINE ends == {i \in DOMAIN b : b[i].kind \in Closing}
            out == UpToClosing(b)
<1>1. Len(b) \in Nat /\ DOMAIN b = 1 .. Len(b) /\ \A i \in 1 .. Len(b) : b[i] \in EventRow
  BY LenProperties
<1>2. CASE ends = {}
  <2>1. out = b
    BY <1>2 DEF UpToClosing
  <2>2. \A i \in 1 .. Len(b) : b[i].kind \notin Closing
    BY <1>1, <1>2
  <2>. HIDE DEF out, ends
  <2>3. out \in Seq(EventRow) /\ Len(out) \in 0 .. Len(b)
    BY <1>1, <2>1
  <2>4. \A i \in 1 .. Len(out) : out[i] = b[i] /\ b[i].kind \notin Closing
    BY <2>1, <2>2
  <2>. QED BY <2>3, <2>4 DEF out
<1>3. CASE ends # {}
  <2>. DEFINE m == Min(ends)
  <2>1. ends \in SUBSET Nat
    BY <1>1
  <2>2. m \in ends /\ \A i \in ends : m <= i
    <3>. HIDE DEF ends
    <3>. QED BY <1>3, <2>1, Least
  <2>3. out = SubSeq(b, 1, m)
    BY <1>3 DEF UpToClosing
  <2>4. m \in 1 .. Len(b) /\ \A i \in 1 .. Len(b) : b[i].kind \in Closing => m <= i
    BY <1>1, <2>2
  <2>. HIDE DEF out, m, ends
  <2>5. m \in Int /\ 1 \in Int /\ 1 <= m /\ \A i \in 1 .. m : b[i] \in EventRow
    BY <1>1, <2>4
  <2>6. /\ SubSeq(b, 1, m) \in Seq(EventRow)
        /\ Len(SubSeq(b, 1, m)) = m - 1 + 1
        /\ \A i \in 1 .. m - 1 + 1 : SubSeq(b, 1, m)[i] = b[1 + i - 1]
    BY <2>5, SubSeqProperties
  <2>7. out \in Seq(EventRow) /\ Len(out) = m /\ \A i \in 1 .. m : out[i] = b[i]
    BY <2>3, <2>5, <2>6
  <2>8. \A i \in 1 .. m : b[i].kind \in Closing => i = m
    BY <1>1, <2>4
  <2>9. /\ out \in Seq(EventRow) /\ Len(out) \in 0 .. Len(b)
        /\ \A i \in 1 .. Len(out) : out[i] = b[i] /\ (b[i].kind \in Closing => i = Len(out))
    BY <1>1, <2>4, <2>7, <2>8
  <2>. QED BY <2>9 DEF out
<1>. QED BY <1>2, <1>3

-----------------------------------------------------------------------------
\* What the longer steps do to the variables, field by field.
LEMMA StartInsertEffect ==
    ASSUME StreamTypes, NEW a \in Deliveries, StartInsert(a)
    PROVE  /\ delivery[a].pc = "running" /\ nextId' = nextId + 1
           /\ UNCHANGED <<rows, loop, wire, client>>
           /\ delivery' \in [Deliveries -> Working]
           /\ delivery'[a].pc = "inserting" /\ delivery'[a].id = nextId
           /\ \A d \in Deliveries : d # a => delivery'[d] = delivery[d]
<1>. DEFINE v == [delivery[a] EXCEPT !.pc = "inserting"]
            u == [v EXCEPT !.id = nextId]
            w == [u EXCEPT !.told = delivery[a].told + 1]
<1>1. /\ delivery[a].pc = "running"
      /\ delivery' = [delivery EXCEPT ![a].pc = "inserting", ![a].id = nextId, ![a].told = @ + 1]
      /\ nextId' = nextId + 1 /\ UNCHANGED <<rows, loop, wire, client>>
  BY DEF StartInsert
<1>2. delivery \in [Deliveries -> Working] /\ nextId \in Nat \ {0} /\ delivery[a] \in Working
  BY DEF StreamTypes
<1>3. delivery' = [delivery EXCEPT ![a] = w]
  BY <1>1, <1>2
<1>4. w \in Working /\ w.pc = "inserting" /\ w.id = nextId
  <2>1. delivery[a].told + 1 \in Nat /\ nextId \in Nat
    BY <1>2 DEF Working
  <2>2. v \in Working /\ v.pc = "inserting"
    BY <1>2 DEF Working
  <2>. HIDE DEF v
  <2>3. u \in Working /\ u.pc = "inserting" /\ u.id = nextId
    BY <2>1, <2>2 DEF Working
  <2>. HIDE DEF u
  <2>. QED BY <2>1, <2>3 DEF Working
<1>. HIDE DEF w
<1>5. /\ delivery' \in [Deliveries -> Working]
      /\ delivery'[a].pc = "inserting" /\ delivery'[a].id = nextId
      /\ \A d \in Deliveries : d # a => delivery'[d] = delivery[d]
  BY <1>2, <1>3, <1>4
<1>6. delivery[a].pc = "running" /\ nextId' = nextId + 1 /\ UNCHANGED <<rows, loop, wire, client>>
  BY DEF StartInsert
<1>. QED BY <1>5, <1>6

\* A poll takes what is past the cursor.
LEMMA SelectEffect ==
    ASSUME StreamTypes, NEW c \in Conns, Select(c), RowsPast(loop[c].cursor) \in Seq(EventRow)
    PROVE  /\ loop[c].pc = "poll" /\ UNCHANGED <<nextId, rows, delivery, wire, client>>
           /\ loop' \in [Conns -> Serving]
           /\ \A d \in Conns : d # c => loop'[d] = loop[d]
           /\ loop'[c].pc = "send" /\ loop'[c].batch = RowsPast(loop[c].cursor)
           /\ loop'[c].cursor = loop[c].cursor /\ loop'[c].attached = loop[c].attached
<1>. DEFINE rest == RowsPast(loop[c].cursor)
            v == [loop[c] EXCEPT !.pc = "send"]
            w == [v EXCEPT !.batch = rest]
<1>1. loop[c].pc = "poll" /\ UNCHANGED <<nextId, rows, delivery, wire, client>>
  BY DEF Select
<1>2. loop' = [loop EXCEPT ![c].pc = "send", ![c].batch = rest]
  BY DEF Select
<1>3. loop \in [Conns -> Serving] /\ loop[c] \in Serving
  BY DEF StreamTypes
<1>. HIDE DEF rest
<1>4. loop' = [loop EXCEPT ![c] = w]
  BY <1>2, <1>3
<1>5. /\ w \in Serving /\ w.pc = "send" /\ w.batch = rest
      /\ w.cursor = loop[c].cursor /\ w.attached = loop[c].attached
  <2>1. /\ v \in Serving /\ v.pc = "send"
        /\ v.cursor = loop[c].cursor /\ v.attached = loop[c].attached
    BY <1>3 DEF Serving
  <2>2. rest \in Seq(EventRow)
    BY DEF rest
  <2>. HIDE DEF v
  <2>. QED BY <2>1, <2>2 DEF Serving
<1>. HIDE DEF w
<1>6. loop' \in [Conns -> Serving] /\ loop'[c] = w /\ \A d \in Conns : d # c => loop'[d] = loop[d]
  BY <1>3, <1>4, <1>5
<1>. QED BY <1>1, <1>5, <1>6 DEF rest

\* The first m rows of the batch go out, unless the client is gone.
LEMMA SendEffect ==
    ASSUME StreamTypes, NEW c \in Conns, Send(c)
    PROVE  /\ loop[c].pc = "send" /\ UNCHANGED <<nextId, rows, delivery, client>>
           /\ loop' \in [Conns -> Serving] /\ wire' \in [Conns -> Seq(EventRow \cup {Timeout})]
           /\ \A d \in Conns : d # c => loop'[d] = loop[d] /\ wire'[d] = wire[d]
           /\ loop'[c].attached = loop[c].attached /\ loop'[c].pc \in {"closed", "sleep"}
           /\ \E m \in 0 .. Len(loop[c].batch) :
                 /\ \A i \in 1 .. m : loop[c].batch[i].kind \in Closing => i = m
                 /\ ~loop[c].attached /\ m # 0 =>
                       /\ loop'[c].pc = "closed" /\ loop'[c].cursor = loop[c].cursor
                       /\ wire'[c] = wire[c]
                 /\ loop[c].attached \/ m = 0 =>
                       /\ m = 0 => loop'[c].cursor = loop[c].cursor
                       /\ m # 0 => loop'[c].cursor = loop[c].batch[m].id
                       /\ \A i \in 1 .. m : loop[c].batch[i].kind \in Closing => loop'[c].pc = "closed"
                       /\ Len(wire'[c]) = Len(wire[c]) + m
                       /\ \A i \in 1 .. Len(wire[c]) : wire'[c][i] = wire[c][i]
                       /\ \A i \in 1 .. m : wire'[c][Len(wire[c]) + i] = loop[c].batch[i]
<1>. DEFINE b == loop[c].batch
            out == UpToClosing(b)
            m == Len(out)
            W == wire[c]
            gone == ~loop[c].attached /\ out # <<>>
            ends == \E i \in DOMAIN out : out[i].kind \in Closing
            pc1 == IF gone \/ ends THEN "closed" ELSE "sleep"
            cur1 == IF out = <<>> \/ gone THEN loop[c].cursor ELSE Last(out).id
            t == [loop[c] EXCEPT !.pc = pc1]
            v == [t EXCEPT !.cursor = cur1]
            w == [v EXCEPT !.batch = <<>>]
            X == IF gone THEN W ELSE W \o out
<1>1. loop[c].pc = "send" /\ UNCHANGED <<nextId, rows, delivery, client>>
  BY DEF Send
<1>2. loop' = [loop EXCEPT ![c].pc = pc1, ![c].cursor = cur1, ![c].batch = <<>>]
  BY Zenon DEF Send
<1>3. wire' = [wire EXCEPT ![c] = X]
  BY DEF Send
<1>4. /\ loop \in [Conns -> Serving] /\ loop[c] \in Serving
      /\ wire \in [Conns -> Seq(EventRow \cup {Timeout})]
  BY DEF StreamTypes
<1>5. b \in Seq(EventRow) /\ Len(b) \in Nat /\ loop[c].cursor \in Nat
  BY <1>4, LenProperties DEF Serving
<1>6. /\ out \in Seq(EventRow) /\ m \in 0 .. Len(b) /\ m \in Nat
      /\ \A i \in 1 .. m : out[i] = b[i] /\ (b[i].kind \in Closing => i = m)
  <2>. HIDE DEF b
  <2>. QED BY <1>5, FirstOfBatch
<1>7. /\ DOMAIN out = 1 .. m /\ (out # <<>> => m >= 1 /\ Last(out) = out[m])
      /\ (out = <<>> => m = 0)
  <2>. HIDE DEF out
  <2>. QED BY <1>6, LenProperties, EmptySeq DEF Last
<1>. HIDE DEF b, out, m
<1>8. out # <<>> => Last(out).id = b[m].id /\ Last(out).id \in Nat /\ m # 0
  <2>. SUFFICES ASSUME out # <<>> PROVE Last(out).id = b[m].id /\ Last(out).id \in Nat /\ m # 0
    OBVIOUS
  <2>1. m \in 1 .. m /\ m \in 1 .. Len(b)
    BY <1>5, <1>6, <1>7
  <2>2. b[m] \in EventRow
    BY <1>5, <2>1, LenProperties
  <2>. QED BY <1>6, <1>7, <2>1, <2>2 DEF EventRow
<1>9. cur1 \in Nat /\ pc1 \in {"closed", "sleep"}
  BY <1>5, <1>8
<1>. HIDE DEF pc1, cur1
<1>10. loop' = [loop EXCEPT ![c] = w]
  BY <1>2, <1>4
<1>11. w \in Serving /\ w.pc = pc1 /\ w.cursor = cur1 /\ w.attached = loop[c].attached
  <2>1. t \in Serving /\ t.pc = pc1 /\ t.attached = loop[c].attached
    BY <1>4, <1>9 DEF Serving
  <2>. HIDE DEF t
  <2>2. v \in Serving /\ v.pc = pc1 /\ v.cursor = cur1 /\ v.attached = loop[c].attached
    BY <1>9, <2>1 DEF Serving
  <2>. HIDE DEF v
  <2>3. <<>> \in Seq(EventRow)
    BY EmptySeq
  <2>. QED BY <2>2, <2>3 DEF Serving
<1>. HIDE DEF w
<1>12. loop' \in [Conns -> Serving] /\ loop'[c] = w /\ \A d \in Conns : d # c => loop'[d] = loop[d]
  BY <1>4, <1>10, <1>11
<1>13. W \in Seq(EventRow \cup {Timeout}) /\ Len(W) \in Nat
  BY <1>4, LenProperties
<1>. HIDE DEF W
<1>14. /\ W \o out \in Seq(EventRow \cup {Timeout}) /\ Len(W \o out) = Len(W) + m
       /\ \A i \in 1 .. Len(W) : (W \o out)[i] = W[i]
       /\ \A i \in 1 .. m : (W \o out)[Len(W) + i] = out[i]
  <2>1. out \in Seq(EventRow \cup {Timeout})
    BY <1>6
  <2>2. /\ W \o out \in Seq(EventRow \cup {Timeout}) /\ Len(W \o out) = Len(W) + Len(out)
        /\ \A i \in 1 .. Len(W) + Len(out) :
              (W \o out)[i] = IF i <= Len(W) THEN W[i] ELSE out[i - Len(W)]
    BY <1>13, <2>1, ConcatProperties
  <2>3. Len(out) = m
    BY DEF m
  <2>4. \A i \in 1 .. Len(W) : (W \o out)[i] = W[i]
    BY <1>6, <1>13, <2>2, <2>3
  <2>5. ASSUME NEW i \in 1 .. m PROVE (W \o out)[Len(W) + i] = out[i]
    <3>. DEFINE k == Len(W) + i
    <3>1. k \in 1 .. Len(W) + m /\ ~(k <= Len(W)) /\ k - Len(W) = i
      BY <1>6, <1>13
    <3>. HIDE DEF k
    <3>2. (W \o out)[k] = out[i]
      BY <2>2, <2>3, <3>1
    <3>. QED BY <3>2 DEF k
  <2>. QED BY <2>2, <2>3, <2>4, <2>5
<1>15. X \in Seq(EventRow \cup {Timeout})
  BY <1>13, <1>14
<1>. HIDE DEF X
<1>16. /\ wire' \in [Conns -> Seq(EventRow \cup {Timeout})] /\ wire'[c] = X
       /\ \A d \in Conns : d # c => wire'[d] = wire[d]
  BY <1>3, <1>4, <1>15
<1>17. gone <=> ~loop[c].attached /\ m # 0
  BY <1>7, <1>8
<1>18. ASSUME ~loop[c].attached, m # 0
       PROVE  pc1 = "closed" /\ cur1 = loop[c].cursor /\ X = W
  BY <1>17, <1>18 DEF pc1, cur1, X
<1>19. ASSUME loop[c].attached \/ m = 0
       PROVE  /\ m = 0 => cur1 = loop[c].cursor
              /\ m # 0 => cur1 = b[m].id
              /\ \A i \in 1 .. m : b[i].kind \in Closing => pc1 = "closed"
              /\ X = W \o out
  <2>1. ~gone
    BY <1>17, <1>19
  <2>2. m = 0 => cur1 = loop[c].cursor
    BY <1>8 DEF cur1
  <2>3. m # 0 => cur1 = b[m].id
    BY <1>7, <1>8, <2>1 DEF cur1
  <2>4. \A i \in 1 .. m : b[i].kind \in Closing => pc1 = "closed"
    BY <1>6, <1>7 DEF pc1
  <2>5. X = W \o out
    BY <2>1 DEF X
  <2>. QED BY <2>2, <2>3, <2>4, <2>5
<1>20. \E k \in 0 .. Len(b) :
          /\ \A i \in 1 .. k : b[i].kind \in Closing => i = k
          /\ ~loop[c].attached /\ k # 0 =>
                loop'[c].pc = "closed" /\ loop'[c].cursor = loop[c].cursor /\ wire'[c] = W
          /\ loop[c].attached \/ k = 0 =>
                /\ k = 0 => loop'[c].cursor = loop[c].cursor
                /\ k # 0 => loop'[c].cursor = b[k].id
                /\ \A i \in 1 .. k : b[i].kind \in Closing => loop'[c].pc = "closed"
                /\ Len(wire'[c]) = Len(W) + k
                /\ \A i \in 1 .. Len(W) : wire'[c][i] = W[i]
                /\ \A i \in 1 .. k : wire'[c][Len(W) + i] = b[i]
  <2>1. \A i \in 1 .. m : b[i].kind \in Closing => i = m
    BY <1>6
  <2>2. ~loop[c].attached /\ m # 0 =>
           loop'[c].pc = "closed" /\ loop'[c].cursor = loop[c].cursor /\ wire'[c] = W
    BY <1>11, <1>12, <1>16, <1>18
  <2>3. ASSUME loop[c].attached \/ m = 0
        PROVE  /\ m = 0 => loop'[c].cursor = loop[c].cursor
               /\ m # 0 => loop'[c].cursor = b[m].id
               /\ \A i \in 1 .. m : b[i].kind \in Closing => loop'[c].pc = "closed"
    BY <1>11, <1>12, <1>19, <2>3
  <2>4. ASSUME loop[c].attached \/ m = 0
        PROVE  /\ Len(wire'[c]) = Len(W) + m
               /\ \A i \in 1 .. Len(W) : wire'[c][i] = W[i]
               /\ \A i \in 1 .. m : wire'[c][Len(W) + i] = b[i]
    BY <1>6, <1>14, <1>16, <1>19, <2>4
  <2>5. m \in 0 .. Len(b)
    BY <1>6
  <2>. QED BY <2>1, <2>2, <2>3, <2>4, <2>5
<1>. QED BY <1>1, <1>9, <1>11, <1>12, <1>16, <1>20 DEF b, W

\* A client that comes back gets a loop at its cursor.
LEMMA ConnectEffect ==
    ASSUME StreamTypes, Connect
    PROVE  /\ ~client.reading /\ ~ToldClosing /\ UNCHANGED <<nextId, rows, delivery, wire>>
           /\ client.conn \in Nat /\ client.conn + 1 \in Conns
           /\ loop' \in [Conns -> Serving]
           /\ loop'[client.conn + 1].pc = "poll" /\ loop'[client.conn + 1].attached
           /\ loop'[client.conn + 1].cursor = client.cursor
           /\ \A d \in Conns : d # client.conn + 1 => loop'[d] = loop[d]
           /\ client' \in Reader /\ client'.conn = client.conn + 1 /\ client'.reading
           /\ client'.cursor = client.cursor /\ client'.told = client.told
<1>. DEFINE n == client.conn + 1
            x == [pc |-> "poll", cursor |-> client.cursor, attached |-> TRUE, batch |-> <<>>]
            u == [client EXCEPT !.conn = n]
            v == [u EXCEPT !.reading = TRUE]
<1>1. /\ ~client.reading /\ client.conn < MaxConns /\ ~ToldClosing
      /\ UNCHANGED <<nextId, rows, delivery, wire>>
  BY DEF Connect
<1>2. client' = v
  BY DEF Connect
<1>3. loop' = [loop EXCEPT ![n] = x]
  BY DEF Connect
<1>4. client \in Reader /\ client.conn \in Nat /\ client.cursor \in Nat
  BY StreamConstants DEF StreamTypes, Reader
<1>5. n \in Conns /\ n \in 0 .. MaxConns
  BY <1>1, <1>4, StreamConstants DEF Conns
<1>6. v \in Reader /\ v.conn = n /\ v.reading /\ v.cursor = client.cursor /\ v.told = client.told
  <2>. HIDE DEF n
  <2>1. u \in Reader /\ u.conn = n /\ u.cursor = client.cursor /\ u.told = client.told
    BY <1>4, <1>5 DEF Reader
  <2>. HIDE DEF u
  <2>. QED BY <2>1 DEF Reader
<1>. HIDE DEF v
<1>7. x \in Serving /\ x.pc = "poll" /\ x.cursor = client.cursor /\ x.attached
  <2>1. <<>> \in Seq(EventRow)
    BY EmptySeq
  <2>. QED BY <1>4, <2>1 DEF Serving
<1>. HIDE DEF x, n
<1>8. loop' \in [Conns -> Serving] /\ loop'[n] = x /\ \A d \in Conns : d # n => loop'[d] = loop[d]
  BY <1>3, <1>5, <1>7 DEF StreamTypes
<1>. QED BY <1>1, <1>2, <1>4, <1>5, <1>6, <1>7, <1>8 DEF n

\* The client reads what comes first on its wire.
LEMMA ReadEffect ==
    ASSUME StreamTypes, Read, NEW c \in Conns, c = client.conn
    PROVE  /\ client.reading /\ UNCHANGED <<nextId, rows, delivery, loop>>
           /\ wire' \in [Conns -> Seq(EventRow \cup {Timeout})]
           /\ \A d \in Conns : d # c => wire'[d] = wire[d]
           /\ Len(wire[c]) \in Nat /\ Len(wire[c]) >= 1 /\ Len(wire'[c]) = Len(wire[c]) - 1
           /\ \A i \in 1 .. Len(wire[c]) - 1 : wire'[c][i] = wire[c][i + 1]
           /\ wire[c][1] = Timeout => client' = client
           /\ wire[c][1] \in EventRow /\ wire[c][1] # Timeout =>
                 /\ client' \in Reader /\ client'.conn = client.conn
                 /\ client'.reading = client.reading /\ client'.cursor = wire[c][1].id
                 /\ Len(client'.told) = Len(client.told) + 1
                 /\ \A i \in 1 .. Len(client.told) : client'.told[i] = client.told[i]
                 /\ client'.told[Len(client.told) + 1] = wire[c][1]
<1>. DEFINE W == wire[c]
            T == client.told
            e == Head(W)
            u == [client EXCEPT !.cursor = e.id]
            v == [u EXCEPT !.told = Append(T, e)]
<1>1. client.reading /\ W # <<>> /\ UNCHANGED <<nextId, rows, delivery, loop>>
  BY DEF Read
<1>2. wire' = [wire EXCEPT ![c] = Tail(W)]
  BY DEF Read
<1>3. client' = IF e = Timeout THEN client ELSE v
  BY DEF Read
<1>4. /\ client \in Reader /\ T \in Seq(EventRow) /\ Len(T) \in Nat
      /\ wire \in [Conns -> Seq(EventRow \cup {Timeout})] /\ W \in Seq(EventRow \cup {Timeout})
  BY LenProperties DEF StreamTypes, Reader
<1>. HIDE DEF W, T
<1>5. Len(W) \in Nat /\ Len(W) >= 1 /\ e = W[1]
  BY <1>1, <1>4, LenProperties, EmptySeq, HeadTailProperties
<1>6. Tail(W) \in Seq(EventRow \cup {Timeout}) /\ Len(Tail(W)) = Len(W) - 1
  BY <1>1, <1>4, HeadTailProperties
<1>7. \A i \in 1 .. Len(W) - 1 : Tail(W)[i] = W[i + 1]
  BY <1>1, <1>4, <1>6, HeadTailProperties
<1>. HIDE DEF e
<1>8. /\ wire' \in [Conns -> Seq(EventRow \cup {Timeout})] /\ wire'[c] = Tail(W)
      /\ \A d \in Conns : d # c => wire'[d] = wire[d]
  BY <1>2, <1>4, <1>6
<1>9. ASSUME e \in EventRow
      PROVE  /\ v \in Reader /\ v.conn = client.conn /\ v.reading = client.reading
             /\ v.cursor = e.id /\ v.told = Append(T, e)
             /\ Len(Append(T, e)) = Len(T) + 1 /\ Append(T, e)[Len(T) + 1] = e
             /\ \A i \in 1 .. Len(T) : Append(T, e)[i] = T[i]
  <2>1. /\ Append(T, e) \in Seq(EventRow)
        /\ Len(Append(T, e)) = Len(T) + 1 /\ Append(T, e)[Len(T) + 1] = e
        /\ \A i \in 1 .. Len(T) : Append(T, e)[i] = T[i]
    BY <1>4, <1>9, AppendProperties
  <2>2. e.id \in Nat
    BY <1>9 DEF EventRow
  <2>3. u \in Reader /\ u.conn = client.conn /\ u.reading = client.reading /\ u.cursor = e.id
    BY <1>4, <2>2 DEF Reader
  <2>. HIDE DEF u
  <2>4. /\ v \in Reader /\ v.conn = client.conn /\ v.reading = client.reading
        /\ v.cursor = e.id /\ v.told = Append(T, e)
    BY <2>1, <2>3 DEF Reader
  <2>. HIDE DEF v
  <2>. QED BY <2>1, <2>4
<1>. HIDE DEF v
<1>10. e = Timeout => client' = client
  BY <1>3
<1>11. ASSUME e \in EventRow, e # Timeout
       PROVE  /\ client' \in Reader /\ client'.conn = client.conn
              /\ client'.reading = client.reading /\ client'.cursor = e.id
              /\ Len(client'.told) = Len(T) + 1
              /\ \A i \in 1 .. Len(T) : client'.told[i] = T[i]
              /\ client'.told[Len(T) + 1] = e
  <2>1. client' = v
    BY <1>3, <1>11
  <2>. QED BY <1>9, <1>11, <2>1
<1>12. /\ Len(wire'[c]) = Len(W) - 1
       /\ \A i \in 1 .. Len(W) - 1 : wire'[c][i] = W[i + 1]
  BY <1>6, <1>7, <1>8, Zenon
<1>13. e = W[1]
  BY <1>5
<1>14. W[1] = Timeout => client' = client
  BY <1>10, <1>13
<1>15. W[1] \in EventRow /\ W[1] # Timeout =>
          /\ client' \in Reader /\ client'.conn = client.conn
          /\ client'.reading = client.reading /\ client'.cursor = W[1].id
          /\ Len(client'.told) = Len(T) + 1
          /\ \A i \in 1 .. Len(T) : client'.told[i] = T[i]
          /\ client'.told[Len(T) + 1] = W[1]
  BY <1>11, <1>13
<1>. QED BY <1>1, <1>5, <1>8, <1>12, <1>14, <1>15, Zenon DEF W, T

-----------------------------------------------------------------------------
\* The log keeps what it has.
Extended ==
    /\ Len(Log) \in Nat /\ Len(Log') \in Nat /\ Len(Log) <= Len(Log')
    /\ \A i \in 1 .. Len(Log) : Log'[i] = Log[i]

\* While no row commits the log is as it was.
LEMMA LogStays ==
    ASSUME StreamInv, rows' = rows
    PROVE  Log' = Log /\ Extended /\ \A q : IdAt(q)' = IdAt(q)
<1>1. Log' = Log
  BY DEF Log
<1>2. Len(Log) \in Nat
  BY LogFacts DEF StreamInv
<1>. HIDE DEF Log
<1>. QED BY <1>1, <1>2 DEF Extended, IdAt

\* What the client was told, and what a loop has sent, stays so as the log grows.
LEMMA ToldStays ==
    ASSUME StreamInv, Extended, client' = client
    PROVE  ToldFirst'
<1>. DEFINE p == Len(client.told)
<1>1. p \in Nat /\ p <= Len(Log)
  BY LenProperties DEF StreamInv, ToldFirst, StreamTypes, Reader
<1>2. IdAt(p)' = IdAt(p)
  <2>. HIDE DEF p, Log
  <2>1. p' = p
    BY DEF p
  <2>. QED BY <1>1, <2>1 DEF IdAt, Extended
<1>3. \A i \in 1 .. p : Log'[i] = Log[i]
  BY <1>1 DEF Extended
<1>. HIDE DEF Log
<1>. QED BY <1>1, <1>2, <1>3 DEF StreamInv, ToldFirst, Extended

\* What a loop has sent stays the start of the log as the log grows.
LEMMA SentStays ==
    ASSUME StreamInv, Extended, NEW c \in Conns, NEW q \in 0 .. Len(Log), Sent(c, q),
           loop'[c] = loop[c]
    PROVE  Sent(c, q)'
<1>. HIDE DEF Log
<1>1. IdAt(q)' = IdAt(q)
  BY DEF IdAt, Extended
<1>2. \A i \in 1 .. q : Log'[i] = Log[i]
  BY DEF Extended
<1>3. ASSUME loop[c].pc = "send"
      PROVE  /\ q + Len(loop[c].batch) <= Len(Log')
             /\ \A i \in 1 .. Len(loop[c].batch) : loop[c].batch[i] = Log'[q + i]
  <2>1. loop[c] \in Serving
    BY DEF StreamInv, StreamTypes
  <2>2. Len(loop[c].batch) \in Nat
    BY <2>1, LenProperties DEF Serving
  <2>3. /\ q + Len(loop[c].batch) <= Len(Log)
        /\ \A i \in 1 .. Len(loop[c].batch) : loop[c].batch[i] = Log[q + i]
    BY <1>3 DEF Sent
  <2>4. \A i \in 1 .. Len(loop[c].batch) : q + i \in 1 .. Len(Log)
    BY <2>2, <2>3 DEF Extended
  <2>. QED BY <2>2, <2>3, <2>4 DEF Extended
<1>. QED BY <1>1, <1>2, <1>3 DEF Sent

\* What is under way stays what the log has next.
LEMMA UnderWayStays ==
    ASSUME StreamInv, Extended, NEW c \in Conns, NEW q \in 0 .. Len(Log), UnderWay(c, q),
           loop'[c] = loop[c], wire'[c] = wire[c], client' = client
    PROVE  UnderWay(c, q)'
<1>. DEFINE p == Len(client.told)
            n == q - p
<1>1. p \in Nat /\ p <= q
  BY LenProperties DEF StreamInv, StreamTypes, Reader, UnderWay
<1>2. \A i \in 1 .. n : p + i \in 1 .. Len(Log)
  BY <1>1 DEF Extended
<1>3. \A i \in 1 .. n : Log'[p + i] = Log[p + i]
  BY <1>2 DEF Extended
<1>. HIDE DEF Log
<1>. QED BY <1>1, <1>3 DEF UnderWay

\* The others' loops and what is under way for them stay.
LEMMA OthersServed ==
    ASSUME StreamInv, Extended, client' = client,
           NEW c \in Conns, loop'[c] = loop[c], wire'[c] = wire[c]
    PROVE  \E q \in 0 .. Len(Log') : Sent(c, q)' /\ (Reads(c)' => UnderWay(c, q)')
<1>1. PICK q \in 0 .. Len(Log) : Sent(c, q) /\ (Reads(c) => UnderWay(c, q))
  BY DEF StreamInv, Served
<1>2. Sent(c, q)'
  BY <1>1, SentStays
<1>3. Reads(c)' => UnderWay(c, q)'
  BY <1>1, UnderWayStays DEF Reads
<1>4. q \in 0 .. Len(Log')
  BY DEF Extended
<1>. QED BY <1>2, <1>3, <1>4

\* A step of a delivery other than a commit.
LEMMA DeliveryKeeps ==
    ASSUME StreamInv, UNCHANGED <<rows, loop, wire, client>>,
           nextId' \in Nat, nextId <= nextId', delivery' \in [Deliveries -> Working],
           OneAfterTheOther'
    PROVE  StreamInv'
<1>1. Log' = Log /\ Extended
  BY LogStays
<1>2. StreamTypes'
  BY DEF StreamInv, StreamTypes
<1>3. Logged'
  <2>1. \A r \in rows : r.id \in Nat /\ r.id < nextId /\ nextId \in Nat
    BY DEF StreamInv, StreamTypes, Logged, EventRow
  <2>2. \A r \in rows : r.id < nextId'
    BY <2>1
  <2>. HIDE DEF Log
  <2>. QED BY <1>1, <2>2 DEF StreamInv, Logged, Enumerates
<1>4. ToldFirst'
  BY <1>1, ToldStays
<1>5. Served'
  BY <1>1, OthersServed DEF Served
<1>6. Connected'
  BY DEF StreamInv, Connected
<1>. QED BY <1>2, <1>3, <1>4, <1>5, <1>6 DEF StreamInv

\* Without overlap a delivery starts when the one before it is dead.
LEMMA RedeliverKeeps == ASSUME ~Overlap, StreamInv, NEW a \in Deliveries, Redeliver(a) PROVE StreamInv'
<1>1. /\ delivery[a].pc = "off" /\ (a > 1 => delivery[a - 1].pc = "dead")
      /\ delivery' = [delivery EXCEPT ![a].pc = "running"]
      /\ UNCHANGED <<nextId, rows, loop, wire, client>>
  BY DEF Redeliver
<1>2. delivery \in [Deliveries -> Working] /\ nextId \in Nat
  BY DEF StreamInv, StreamTypes
<1>3. /\ delivery' \in [Deliveries -> Working] /\ delivery'[a].pc = "running"
      /\ \A d \in Deliveries : d # a => delivery'[d] = delivery[d]
  BY <1>1, <1>2 DEF Working
<1>4. OneAfterTheOther'
  <2>1. ASSUME NEW d \in Deliveries, NEW b \in Deliveries, b < d, delivery'[d].pc # "off"
        PROVE  delivery'[b].pc = "dead"
    <3>1. b # a
      <4>1. CASE b = a
        <5>1. delivery[d].pc # "off"
          BY <1>3, <2>1, <4>1 DEF Deliveries
        <5>. QED BY <1>1, <2>1, <4>1, <5>1 DEF StreamInv, OneAfterTheOther
      <4>. QED BY <4>1
    <3>2. CASE d # a
      BY <1>3, <2>1, <3>1, <3>2 DEF StreamInv, OneAfterTheOther
    <3>3. CASE d = a
      <4>1. a - 1 \in Deliveries /\ a > 1 /\ b <= a - 1
        BY <2>1, <3>3, StreamConstants DEF Deliveries
      <4>2. delivery[a - 1].pc = "dead"
        BY <1>1, <4>1
      <4>3. CASE b = a - 1
        BY <1>3, <3>1, <4>2, <4>3
      <4>4. CASE b < a - 1
        BY <1>3, <3>1, <4>1, <4>2, <4>4 DEF StreamInv, OneAfterTheOther
      <4>. QED BY <4>1, <4>3, <4>4 DEF Deliveries
    <3>. QED BY <3>2, <3>3
  <2>2. \A d \in Deliveries : Inserting(d)' => Inserting(d) /\ delivery'[d].id = delivery[d].id
    BY <1>3 DEF Inserting
  <2>. QED BY <1>1, <2>1, <2>2 DEF StreamInv, OneAfterTheOther
<1>. QED BY <1>1, <1>2, <1>3, <1>4, DeliveryKeeps

\* An insert that starts takes the highest id so far.
LEMMA StartInsertKeeps == ASSUME StreamInv, NEW a \in Deliveries, StartInsert(a) PROVE StreamInv'
<1>1. /\ delivery[a].pc = "running" /\ nextId' = nextId + 1
      /\ UNCHANGED <<rows, loop, wire, client>>
      /\ delivery' \in [Deliveries -> Working]
      /\ delivery'[a].pc = "inserting" /\ delivery'[a].id = nextId
      /\ \A d \in Deliveries : d # a => delivery'[d] = delivery[d]
  BY StartInsertEffect DEF StreamInv
<1>2. nextId \in Nat \ {0}
  BY DEF StreamInv, StreamTypes
<1>3. OneAfterTheOther'
  <2>1. \A d \in Deliveries : /\ delivery'[d].pc # "off" => delivery[d].pc # "off"
                              /\ delivery[d].pc = "dead" => delivery'[d].pc = "dead"
    BY <1>1
  <2>2. \A d \in Deliveries : Inserting(d)' =>
           \/ Inserting(d) /\ delivery'[d].id = delivery[d].id
           \/ delivery'[d].id = nextId
    BY <1>1 DEF Inserting
  <2>3. \A r \in rows : r.id < nextId
    BY DEF StreamInv, Logged
  <2>4. \A i \in 1 .. nextId - 1 : i \in 1 .. nextId' - 1
    BY <1>1, <1>2
  <2>5. nextId \in 1 .. nextId' - 1
    BY <1>1, <1>2
  <2>6. \A d, b \in Deliveries : b < d /\ delivery'[d].pc # "off" => delivery'[b].pc = "dead"
    BY <2>1 DEF StreamInv, OneAfterTheOther
  <2>7. ASSUME NEW d \in Deliveries, Inserting(d)'
        PROVE  delivery'[d].id \in 1 .. nextId' - 1 /\ \A r \in rows' : r.id < delivery'[d].id
    BY <1>1, <2>2, <2>3, <2>4, <2>5, <2>7 DEF StreamInv, OneAfterTheOther
  <2>. QED BY <2>6, <2>7 DEF OneAfterTheOther
<1>. QED BY <1>1, <1>2, <1>3, DeliveryKeeps

\* A worker that dies leaves its insert uncommitted.
LEMMA DieKeepsStream == ASSUME StreamInv, NEW a \in Deliveries, Die(a) PROVE StreamInv'
<1>1. /\ delivery' = [delivery EXCEPT ![a].pc = "dead"] /\ delivery[a].pc # "off"
      /\ UNCHANGED <<nextId, rows, loop, wire, client>>
  BY DEF Die
<1>2. delivery \in [Deliveries -> Working] /\ nextId \in Nat
  BY DEF StreamInv, StreamTypes
<1>3. /\ delivery' \in [Deliveries -> Working] /\ delivery'[a].pc = "dead"
      /\ \A d \in Deliveries : d # a => delivery'[d] = delivery[d]
  BY <1>1, <1>2 DEF Working
<1>4. OneAfterTheOther'
  BY <1>1, <1>3 DEF StreamInv, OneAfterTheOther, Inserting
<1>. QED BY <1>1, <1>2, <1>3, <1>4, DeliveryKeeps

\* A commit: the row comes last in the log, as no other insert is under way.
LEMMA CommitKeepsStream ==
    ASSUME StreamInv, NEW a \in Deliveries, NEW kind \in Verdicts \cup {"progress"}, Commit(a, kind)
    PROVE  StreamInv'
<1>. DEFINE r == [id |-> delivery[a].id, kind |-> kind]
            s == Append(Log, r)
<1>1. /\ delivery[a].pc = "inserting" /\ rows' = rows \cup {r}
      /\ delivery' = [delivery EXCEPT ![a].pc = IF kind \in Verdicts THEN "ended" ELSE "running"]
      /\ UNCHANGED <<nextId, loop, wire, client>>
  BY DEF Commit
<1>2. delivery \in [Deliveries -> Working] /\ nextId \in Nat /\ rows \in SUBSET EventRow
  BY DEF StreamInv, StreamTypes
<1>3. /\ delivery' \in [Deliveries -> Working] /\ delivery'[a].pc \in {"ended", "running"}
      /\ \A d \in Deliveries : d # a => delivery'[d] = delivery[d]
  BY <1>1, <1>2 DEF Working
<1>4. \A d \in Deliveries : d # a => ~Inserting(d)
  <2>. SUFFICES ASSUME NEW d \in Deliveries, d # a, Inserting(d) PROVE FALSE
    OBVIOUS
  <2>1. CASE d < a
    BY <1>1, <2>1 DEF StreamInv, OneAfterTheOther, Inserting
  <2>2. CASE a < d
    BY <1>1, <2>2 DEF StreamInv, OneAfterTheOther, Inserting
  <2>. QED BY <2>1, <2>2 DEF Deliveries
<1>5. OneAfterTheOther'
  <2>1. \A d, b \in Deliveries : b < d /\ delivery'[d].pc # "off" => delivery'[b].pc = "dead"
    <3>. SUFFICES ASSUME NEW d \in Deliveries, NEW b \in Deliveries, b < d, delivery'[d].pc # "off"
                  PROVE  delivery'[b].pc = "dead"
      OBVIOUS
    <3>1. delivery[d].pc # "off"
      BY <1>1, <1>3
    <3>2. delivery[b].pc = "dead"
      BY <3>1 DEF StreamInv, OneAfterTheOther
    <3>. QED BY <1>1, <1>3, <3>2
  <2>2. \A d \in Deliveries : ~Inserting(d)'
    BY <1>3, <1>4 DEF Inserting
  <2>. QED BY <2>1, <2>2 DEF OneAfterTheOther
<1>6. /\ r \in EventRow /\ r.id \in 1 .. nextId - 1 /\ \A x \in rows : x.id < r.id
  BY <1>1, <1>2 DEF StreamInv, OneAfterTheOther, Inserting, EventRow
<1>7. /\ Log \in Seq(EventRow) /\ Len(Log) \in Nat
      /\ \A i \in 1 .. Len(Log) : Log[i] \in rows
      /\ \A i, j \in 1 .. Len(Log) : i < j => Log[i].id < Log[j].id
      /\ \A x \in rows : \E i \in 1 .. Len(Log) : Log[i] = x
  BY LenProperties DEF StreamInv, Logged, Enumerates
<1>8. rows' \in SUBSET EventRow
  BY <1>1, <1>2, <1>6
<1>. HIDE DEF Log, r
<1>9. /\ s \in Seq(EventRow) /\ Len(s) = Len(Log) + 1 /\ s[Len(Log) + 1] = r
      /\ \A i \in 1 .. Len(Log) : s[i] = Log[i]
  BY <1>6, <1>7, AppendProperties
<1>10. \A i \in 1 .. Len(s) : i \in 1 .. Len(Log) \/ i = Len(Log) + 1
  BY <1>7, <1>9
<1>. HIDE DEF s
<1>11. Enumerates(s, rows')
  <2>1. \A i \in 1 .. Len(s) : s[i] \in rows'
    BY <1>1, <1>7, <1>9, <1>10
  <2>2. \A i, j \in 1 .. Len(s) : i < j => s[i].id < s[j].id
    <3>. SUFFICES ASSUME NEW i \in 1 .. Len(s), NEW j \in 1 .. Len(s), i < j PROVE s[i].id < s[j].id
      OBVIOUS
    <3>1. i \in 1 .. Len(Log) /\ s[i] = Log[i] /\ Log[i] \in rows
      BY <1>7, <1>9, <1>10
    <3>2. CASE j \in 1 .. Len(Log)
      BY <1>7, <1>9, <3>1, <3>2
    <3>3. CASE j = Len(Log) + 1
      BY <1>6, <1>9, <3>1, <3>3
    <3>. QED BY <1>10, <3>2, <3>3
  <2>3. \A x \in rows' : \E i \in 1 .. Len(s) : s[i] = x
    <3>. SUFFICES ASSUME NEW x \in rows' PROVE \E i \in 1 .. Len(s) : s[i] = x
      OBVIOUS
    <3>1. CASE x \in rows
      <4>1. PICK i \in 1 .. Len(Log) : Log[i] = x
        BY <1>7, <3>1
      <4>. QED BY <1>7, <1>9, <4>1
    <3>2. CASE x = r
      BY <1>7, <1>9, <3>2
    <3>. QED BY <1>1, <3>1, <3>2
  <2>. QED BY <1>9, <2>1, <2>2, <2>3 DEF Enumerates
<1>12. Log' = s
  BY <1>8, <1>11, OneEnumeration DEF Log
<1>13. Extended
  BY <1>7, <1>9, <1>12 DEF Extended
<1>14. StreamTypes'
  BY <1>1, <1>3, <1>8 DEF StreamInv, StreamTypes
<1>15. Logged'
  <2>1. \A x \in rows' : 1 <= x.id /\ x.id < nextId
    BY <1>1, <1>2, <1>6 DEF StreamInv, Logged
  <2>2. Enumerates(Log, rows)'
    BY <1>11, <1>12 DEF Enumerates
  <2>. QED BY <1>1, <2>1, <2>2 DEF Logged
<1>16. ToldFirst'
  BY <1>1, <1>13, ToldStays
<1>17. Served'
  BY <1>1, <1>13, OthersServed DEF Served
<1>18. Connected'
  BY <1>1 DEF StreamInv, Connected
<1>. QED BY <1>5, <1>14, <1>15, <1>16, <1>17, <1>18 DEF StreamInv

\* What a loop has sent, and what is under way, when the log is as it was.
LEMMA SentNow ==
    ASSUME StreamInv, rows' = rows, NEW c \in Conns, NEW q \in 0 .. Len(Log),
           loop'[c].cursor = IdAt(q),
           loop'[c].pc = "send" =>
              /\ q + Len(loop'[c].batch) <= Len(Log)
              /\ \A i \in 1 .. Len(loop'[c].batch) : loop'[c].batch[i] = Log[q + i],
           \A i \in 1 .. q : Log[i].kind \in Closing => i = q /\ loop'[c].pc = "closed"
    PROVE  Sent(c, q)'
<1>1. Log' = Log /\ IdAt(q)' = IdAt(q)
  BY LogStays
<1>. HIDE DEF Log
<1>. QED BY <1>1 DEF Sent

\* What is under way when the log is as it was.
LEMMA UnderWayNow ==
    ASSUME StreamInv, rows' = rows, NEW c \in Conns, NEW q \in 0 .. Len(Log),
           Len(client'.told) <= q,
           \A i \in 1 .. q - Len(client'.told) : wire'[c][i] = Log[Len(client'.told) + i],
           \/ Len(wire'[c]) = q - Len(client'.told)
           \/ /\ Len(wire'[c]) = q - Len(client'.told) + 1
              /\ wire'[c][q - Len(client'.told) + 1] = Timeout /\ loop'[c].pc = "closed"
    PROVE  UnderWay(c, q)'
<1>1. Log' = Log
  BY LogStays
<1>. HIDE DEF Log
<1>. QED BY <1>1 DEF UnderWay

\* A step of a loop.
LEMMA LoopKeeps ==
    ASSUME StreamInv, NEW c \in Conns, UNCHANGED <<nextId, rows, delivery, client>>,
           loop' \in [Conns -> Serving], wire' \in [Conns -> Seq(EventRow \cup {Timeout})],
           \A d \in Conns : d # c => loop'[d] = loop[d] /\ wire'[d] = wire[d],
           loop[c].pc # "off", loop'[c].pc # "off", loop'[c].attached = loop[c].attached,
           NEW q \in 0 .. Len(Log), Sent(c, q)', Reads(c) => UnderWay(c, q)'
    PROVE  StreamInv'
<1>1. Log' = Log /\ Extended
  BY LogStays
<1>2. StreamTypes'
  BY DEF StreamInv, StreamTypes
<1>3. Logged'
  <2>. HIDE DEF Log
  <2>. QED BY <1>1 DEF StreamInv, Logged, Enumerates
<1>4. OneAfterTheOther'
  BY DEF StreamInv, OneAfterTheOther, Inserting
<1>5. ToldFirst'
  BY <1>1, ToldStays
<1>6. Served'
  <2>. SUFFICES ASSUME NEW d \in Conns
                PROVE  \E k \in 0 .. Len(Log') : Sent(d, k)' /\ (Reads(d)' => UnderWay(d, k)')
    BY DEF Served
  <2>1. CASE d = c
    BY <1>1, <2>1 DEF Reads
  <2>2. CASE d # c
    BY <1>1, <2>2, OthersServed
  <2>. QED BY <2>1, <2>2
<1>7. Connected'
  <2>1. ~(c > client.conn)
    BY DEF StreamInv, Connected
  <2>. QED BY <2>1 DEF StreamInv, Connected
<1>. QED BY <1>2, <1>3, <1>4, <1>5, <1>6, <1>7 DEF StreamInv

\* A poll finds what the log has after the cursor.
LEMMA SelectKeeps == ASSUME StreamInv, NEW c \in Conns, Select(c) PROVE StreamInv'
<1>. DEFINE rest == RowsPast(loop[c].cursor)
<1>1. PICK q \in 0 .. Len(Log) : Sent(c, q) /\ (Reads(c) => UnderWay(c, q))
  BY DEF StreamInv, Served
<1>2. /\ rest \in Seq(EventRow) /\ Len(rest) = Len(Log) - q
      /\ \A i \in 1 .. Len(Log) - q : rest[i] = Log[q + i]
  <2>1. loop[c].cursor = IdAt(q)
    BY <1>1 DEF Sent
  <2>. QED BY <2>1, RestOfLog DEF StreamInv
<1>3. /\ loop[c].pc = "poll" /\ UNCHANGED <<nextId, rows, delivery, wire, client>>
      /\ loop' \in [Conns -> Serving]
      /\ \A d \in Conns : d # c => loop'[d] = loop[d]
      /\ loop'[c].pc = "send" /\ loop'[c].batch = rest
      /\ loop'[c].cursor = loop[c].cursor /\ loop'[c].attached = loop[c].attached
  BY <1>2, SelectEffect DEF StreamInv
<1>4. Len(Log) \in Nat
  BY LogFacts DEF StreamInv
<1>5. Sent(c, q)'
  <2>1. /\ q + Len(loop'[c].batch) <= Len(Log)
        /\ \A i \in 1 .. Len(loop'[c].batch) : loop'[c].batch[i] = Log[q + i]
    <3>. HIDE DEF Log, rest
    <3>1. q + Len(rest) <= Len(Log)
      BY <1>2, <1>4
    <3>2. \A i \in 1 .. Len(rest) : rest[i] = Log[q + i]
      BY <1>2
    <3>. QED BY <1>3, <3>1, <3>2
  <2>2. loop'[c].cursor = IdAt(q)
    BY <1>1, <1>3 DEF Sent
  <2>3. \A i \in 1 .. q : Log[i].kind \notin Closing
    BY <1>1, <1>3 DEF Sent
  <2>. QED BY <1>3, <2>1, <2>2, <2>3, SentNow
<1>6. Reads(c) => UnderWay(c, q)'
  <2>. SUFFICES ASSUME Reads(c) PROVE UnderWay(c, q)'
    OBVIOUS
  <2>. QED BY <1>1, <1>3, UnderWayNow DEF UnderWay
<1>7. wire' \in [Conns -> Seq(EventRow \cup {Timeout})]
  BY <1>3 DEF StreamInv, StreamTypes
<1>. QED BY <1>3, <1>5, <1>6, <1>7, LoopKeeps

\* A loop that wakes has sent what it had.
LEMMA WakeKeeps == ASSUME StreamInv, NEW c \in Conns, Wake(c) PROVE StreamInv'
<1>1. /\ loop[c].pc = "sleep" /\ loop' = [loop EXCEPT ![c].pc = "poll"]
      /\ UNCHANGED <<nextId, rows, delivery, wire, client>>
  BY DEF Wake
<1>2. loop \in [Conns -> Serving]
  BY DEF StreamInv, StreamTypes
<1>3. /\ loop' \in [Conns -> Serving] /\ loop'[c].pc = "poll"
      /\ loop'[c].cursor = loop[c].cursor /\ loop'[c].attached = loop[c].attached
      /\ \A d \in Conns : d # c => loop'[d] = loop[d]
  BY <1>1, <1>2 DEF Serving
<1>4. PICK q \in 0 .. Len(Log) : Sent(c, q) /\ (Reads(c) => UnderWay(c, q))
  BY DEF StreamInv, Served
<1>5. Sent(c, q)'
  BY <1>1, <1>3, <1>4, SentNow DEF Sent
<1>6. Reads(c) => UnderWay(c, q)'
  BY <1>1, <1>3, <1>4, UnderWayNow DEF UnderWay
<1>7. wire' \in [Conns -> Seq(EventRow \cup {Timeout})]
  BY <1>1 DEF StreamInv, StreamTypes
<1>. QED BY <1>1, <1>3, <1>5, <1>6, <1>7, LoopKeeps

\* A loop that runs out of time says so last.
LEMMA TimeOutKeepsStream == ASSUME StreamInv, NEW c \in Conns, TimeOut(c) PROVE StreamInv'
<1>. DEFINE W == wire[c]
            X == IF loop[c].attached THEN Append(W, Timeout) ELSE W
<1>1. /\ loop[c].pc = "sleep" /\ loop' = [loop EXCEPT ![c].pc = "closed"]
      /\ wire' = [wire EXCEPT ![c] = X]
      /\ UNCHANGED <<nextId, rows, delivery, client>>
  BY DEF TimeOut
<1>2. loop \in [Conns -> Serving] /\ wire \in [Conns -> Seq(EventRow \cup {Timeout})]
  BY DEF StreamInv, StreamTypes
<1>3. /\ loop' \in [Conns -> Serving] /\ loop'[c].pc = "closed"
      /\ loop'[c].cursor = loop[c].cursor /\ loop'[c].attached = loop[c].attached
      /\ \A d \in Conns : d # c => loop'[d] = loop[d]
  BY <1>1, <1>2 DEF Serving
<1>4. W \in Seq(EventRow \cup {Timeout}) /\ Len(W) \in Nat
  BY <1>2, LenProperties
<1>5. /\ Append(W, Timeout) \in Seq(EventRow \cup {Timeout})
      /\ Len(Append(W, Timeout)) = Len(W) + 1
      /\ Append(W, Timeout)[Len(W) + 1] = Timeout
      /\ \A i \in 1 .. Len(W) : Append(W, Timeout)[i] = W[i]
  <2>. HIDE DEF W
  <2>1. Timeout \in EventRow \cup {Timeout}
    OBVIOUS
  <2>. QED BY <1>4, <2>1, AppendProperties
<1>6. X \in Seq(EventRow \cup {Timeout})
  BY <1>4, <1>5
<1>7. PICK q \in 0 .. Len(Log) : Sent(c, q) /\ (Reads(c) => UnderWay(c, q))
  BY DEF StreamInv, Served
<1>. HIDE DEF X
<1>8. /\ wire' \in [Conns -> Seq(EventRow \cup {Timeout})] /\ wire'[c] = X
      /\ \A d \in Conns : d # c => wire'[d] = wire[d]
  BY <1>1, <1>2, <1>6
<1>9. Sent(c, q)'
  BY <1>1, <1>3, <1>7, SentNow DEF Sent
<1>10. Reads(c) => UnderWay(c, q)'
  <2>. SUFFICES ASSUME Reads(c) PROVE UnderWay(c, q)'
    OBVIOUS
  <2>1. loop[c].attached
    BY DEF StreamInv, Connected, Reads
  <2>2. wire'[c] = Append(W, Timeout)
    BY <1>8, <2>1 DEF X
  <2>. DEFINE n == q - Len(client.told)
  <2>3. /\ Len(client.told) <= q /\ Len(W) = n
        /\ \A i \in 1 .. n : W[i] = Log[Len(client.told) + i]
    BY <1>1, <1>7 DEF UnderWay
  <2>. HIDE DEF W, n
  <2>4. Len(wire'[c]) = n + 1 /\ wire'[c][n + 1] = Timeout
    BY <1>5, <2>2, <2>3
  <2>5. \A i \in 1 .. n : wire'[c][i] = Log[Len(client.told) + i]
    BY <1>5, <2>2, <2>3
  <2>. QED BY <1>1, <1>3, <2>3, <2>4, <2>5, UnderWayNow DEF n
<1>. QED BY <1>1, <1>3, <1>8, <1>9, <1>10, LoopKeeps

\* A batch goes out, up to its first closing row, unless the client is gone.
LEMMA SendKeeps == ASSUME StreamInv, NEW c \in Conns, Send(c) PROVE StreamInv'
<1>. DEFINE b == loop[c].batch
            W == wire[c]
<1>1. /\ loop[c].pc = "send" /\ UNCHANGED <<nextId, rows, delivery, client>>
      /\ loop' \in [Conns -> Serving] /\ wire' \in [Conns -> Seq(EventRow \cup {Timeout})]
      /\ \A d \in Conns : d # c => loop'[d] = loop[d] /\ wire'[d] = wire[d]
      /\ loop'[c].attached = loop[c].attached /\ loop'[c].pc \in {"closed", "sleep"}
  BY SendEffect DEF StreamInv
<1>2. PICK m \in 0 .. Len(b) :
         /\ \A i \in 1 .. m : b[i].kind \in Closing => i = m
         /\ ~loop[c].attached /\ m # 0 =>
               loop'[c].pc = "closed" /\ loop'[c].cursor = loop[c].cursor /\ wire'[c] = W
         /\ loop[c].attached \/ m = 0 =>
               /\ m = 0 => loop'[c].cursor = loop[c].cursor
               /\ m # 0 => loop'[c].cursor = b[m].id
               /\ \A i \in 1 .. m : b[i].kind \in Closing => loop'[c].pc = "closed"
               /\ Len(wire'[c]) = Len(W) + m
               /\ \A i \in 1 .. Len(W) : wire'[c][i] = W[i]
               /\ \A i \in 1 .. m : wire'[c][Len(W) + i] = b[i]
  BY SendEffect DEF StreamInv
<1>3. PICK q \in 0 .. Len(Log) : Sent(c, q) /\ (Reads(c) => UnderWay(c, q))
  BY DEF StreamInv, Served
<1>4. Len(Log) \in Nat /\ Len(b) \in Nat /\ m \in Nat
  <2>1. loop[c] \in Serving
    BY DEF StreamInv, StreamTypes
  <2>2. Len(b) \in Nat
    BY <2>1, LenProperties DEF Serving
  <2>. QED BY <2>2, LogFacts DEF StreamInv
<1>5. /\ loop[c].cursor = IdAt(q) /\ q + Len(b) <= Len(Log)
      /\ \A i \in 1 .. Len(b) : b[i] = Log[q + i]
      /\ \A i \in 1 .. q : Log[i].kind \notin Closing
  <2>1. loop[c].cursor = IdAt(q)
    BY <1>3 DEF Sent
  <2>2. q + Len(b) <= Len(Log) /\ \A i \in 1 .. Len(b) : b[i] = Log[q + i]
    BY <1>1, <1>3 DEF Sent
  <2>3. \A i \in 1 .. q : Log[i].kind \notin Closing
    BY <1>1, <1>3 DEF Sent
  <2>. QED BY <2>1, <2>2, <2>3
<1>6. Reads(c) => loop[c].attached
  BY DEF StreamInv, Connected, Reads
<1>. HIDE DEF Log, b
<1>7. \A i \in 1 .. m : b[i] = Log[q + i]
  BY <1>4, <1>5
<1>8. CASE ~loop[c].attached /\ m # 0
  <2>1. loop'[c].pc = "closed" /\ loop'[c].cursor = loop[c].cursor
    BY <1>2, <1>8
  <2>2. Sent(c, q)'
    BY <1>1, <1>5, <2>1, SentNow
  <2>. QED BY <1>1, <1>6, <1>8, <2>1, <2>2, LoopKeeps
<1>9. CASE loop[c].attached \/ m = 0
  <2>1. PICK k \in 0 .. Len(Log) : k = q + m
    BY <1>4, <1>5
  <2>2. loop'[c].cursor = IdAt(k)
    <3>1. CASE m = 0
      BY <1>2, <1>5, <1>9, <2>1, <3>1
    <3>2. CASE m # 0
      <4>1. m \in 1 .. m /\ k # 0
        BY <1>4, <2>1, <3>2
      <4>2. b[m] = Log[k]
        BY <1>7, <2>1, <4>1
      <4>. QED BY <1>2, <1>9, <3>2, <4>1, <4>2 DEF IdAt
    <3>. QED BY <3>1, <3>2
  <2>3. ASSUME NEW i \in 1 .. k, Log[i].kind \in Closing PROVE i = k /\ loop'[c].pc = "closed"
    <3>1. i \notin 1 .. q
      BY <1>5, <2>3
    <3>. DEFINE j == i - q
    <3>2. j \in 1 .. m /\ i = q + j
      BY <1>4, <2>1, <3>1
    <3>. HIDE DEF j
    <3>3. b[j].kind \in Closing
      BY <1>7, <2>3, <3>2
    <3>4. j = m /\ loop'[c].pc = "closed"
      BY <1>2, <1>9, <3>2, <3>3
    <3>. QED BY <2>1, <3>2, <3>4
  <2>4. Sent(c, k)'
    <3>1. \A i \in 1 .. k : Log[i].kind \in Closing => i = k /\ loop'[c].pc = "closed"
      BY <2>3
    <3>. QED BY <1>1, <2>2, <3>1, SentNow
  <2>5. Reads(c) => UnderWay(c, k)'
    <3>. SUFFICES ASSUME Reads(c) PROVE UnderWay(c, k)'
      OBVIOUS
    <3>. DEFINE p == Len(client.told)
                n == q - p
    <3>1. p \in Nat
      BY LenProperties DEF StreamInv, StreamTypes, Reader
    <3>2. p <= q /\ Len(W) = n /\ \A i \in 1 .. n : W[i] = Log[p + i]
      BY <1>1, <1>3 DEF UnderWay
    <3>3. p = Len(client'.told)
      BY <1>1
    <3>. HIDE DEF p, W
    <3>4. Len(wire'[c]) = k - p /\ p <= k
      BY <1>2, <1>4, <1>9, <2>1, <3>1, <3>2
    <3>5. ASSUME NEW i \in 1 .. k - p PROVE wire'[c][i] = Log[p + i]
      <4>1. CASE i <= n
        <5>1. i \in 1 .. n
          BY <3>1, <4>1
        <5>. QED BY <1>2, <1>9, <3>2, <5>1
      <4>2. CASE i > n
        <5>. DEFINE j == i - n
        <5>1. j \in 1 .. m /\ i = n + j /\ p + i = q + j
          BY <1>4, <2>1, <3>1, <4>2
        <5>. HIDE DEF j, n
        <5>2. wire'[c][n + j] = b[j]
          BY <1>2, <1>9, <3>2, <5>1
        <5>. QED BY <1>7, <5>1, <5>2
      <4>3. i <= n \/ i > n
        BY <1>4, <3>1
      <4>. QED BY <4>1, <4>2, <4>3
    <3>. QED BY <1>1, <3>3, <3>4, <3>5, UnderWayNow
  <2>6. loop[c].pc # "off" /\ loop'[c].pc # "off"
    BY <1>1
  <2>. QED BY <1>1, <2>4, <2>5, <2>6, LoopKeeps
<1>. QED BY <1>8, <1>9

\* The client comes back with its cursor: its new loop starts after what it was told.
LEMMA ConnectKeeps == ASSUME StreamInv, Connect PROVE StreamInv'
<1>. DEFINE p == Len(client.told)
<1>1. PICK n \in Conns : n = client.conn + 1
  BY ConnectEffect DEF StreamInv
<1>2. /\ ~client.reading /\ ~ToldClosing /\ UNCHANGED <<nextId, rows, delivery, wire>>
      /\ client.conn \in Nat /\ loop' \in [Conns -> Serving]
      /\ loop'[n].pc = "poll" /\ loop'[n].attached /\ loop'[n].cursor = client.cursor
      /\ \A d \in Conns : d # n => loop'[d] = loop[d]
      /\ client' \in Reader /\ client'.conn = n /\ client'.reading
      /\ client'.cursor = client.cursor /\ client'.told = client.told
  BY <1>1, ConnectEffect DEF StreamInv
<1>3. client.told \in Seq(EventRow) /\ p \in Nat
  BY LenProperties DEF StreamInv, StreamTypes, Reader
<1>4. Log' = Log /\ Extended /\ \A q : IdAt(q)' = IdAt(q)
  BY <1>2, LogStays
<1>5. p \in 0 .. Len(Log) /\ IdAt(p) = client.cursor
  BY <1>3, <1>4 DEF StreamInv, ToldFirst, Extended
<1>6. PICK k \in 0 .. Len(Log) : k = p
  BY <1>5
<1>7. StreamTypes'
  BY <1>2 DEF StreamInv, StreamTypes
<1>8. Logged'
  <2>. HIDE DEF Log
  <2>. QED BY <1>2, <1>4 DEF StreamInv, Logged, Enumerates
<1>9. OneAfterTheOther'
  BY <1>2 DEF StreamInv, OneAfterTheOther, Inserting
<1>10. ToldFirst'
  <2>1. Len(client.told)' = k
    BY <1>2, <1>6
  <2>2. IdAt(Len(client.told))' = IdAt(k)
    BY <1>4, <2>1 DEF IdAt
  <2>. HIDE DEF Log
  <2>. QED BY <1>2, <1>4, <1>5, <1>6, <2>2 DEF StreamInv, ToldFirst
<1>11. Served'
  <2>. SUFFICES ASSUME NEW d \in Conns
                PROVE  \E i \in 0 .. Len(Log') : Sent(d, i)' /\ (Reads(d)' => UnderWay(d, i)')
    BY DEF Served
  <2>1. CASE d = n
    <3>1. \A i \in 1 .. k : Log[i].kind \notin Closing
      <4>1. DOMAIN client.told = 1 .. k
        BY <1>3, <1>6, LenProperties
      <4>2. \A i \in 1 .. k : client.told[i] = Log[i]
        BY <1>6 DEF StreamInv, ToldFirst
      <4>. QED BY <1>2, <4>1, <4>2 DEF ToldClosing
    <3>2. Sent(d, k)'
      <4>1. loop'[d].pc # "send" /\ loop'[d].cursor = IdAt(k)
        BY <1>2, <1>5, <1>6, <2>1
      <4>. QED BY <1>2, <3>1, <4>1, SentNow
    <3>3. UnderWay(d, k)'
      <4>1. k - Len(client'.told) = 0 /\ Len(client'.told) <= k
        BY <1>2, <1>3, <1>6
      <4>2. wire[d] = <<>>
        BY <1>1, <1>2, <2>1 DEF StreamInv, Connected
      <4>3. Len(wire'[d]) = k - Len(client'.told)
        BY <1>2, <4>1, <4>2, EmptySeq
      <4>4. \A i \in 1 .. k - Len(client'.told) : wire'[d][i] = Log[Len(client'.told) + i]
        BY <4>1
      <4>. QED BY <1>2, <4>1, <4>3, <4>4, UnderWayNow
    <3>. QED BY <1>4, <3>2, <3>3
  <2>2. CASE d # n
    <3>1. PICK q \in 0 .. Len(Log) : Sent(d, q)
      BY DEF StreamInv, Served
    <3>2. Sent(d, q)'
      BY <1>2, <1>4, <2>2, <3>1, SentStays
    <3>3. ~Reads(d)'
      BY <1>2, <2>2 DEF Reads
    <3>. QED BY <1>4, <3>2, <3>3
  <2>. QED BY <2>1, <2>2
<1>12. Connected'
  <2>1. \A d \in Conns : d > n => d # n /\ d > client.conn
    BY <1>1, <1>2 DEF Conns
  <2>. QED BY <1>2, <2>1 DEF StreamInv, Connected
<1>. QED BY <1>7, <1>8, <1>9, <1>10, <1>11, <1>12 DEF StreamInv

\* The response ends, or the connection breaks: nobody reads it any more.
LEMMA ClientLeaves ==
    ASSUME StreamInv, UNCHANGED <<nextId, rows, delivery>>,
           client' = [client EXCEPT !.reading = FALSE],
           loop' \in [Conns -> Serving], wire' \in [Conns -> Seq(EventRow \cup {Timeout})],
           \A d \in Conns : loop'[d].pc = loop[d].pc /\ loop'[d].cursor = loop[d].cursor
                            /\ loop'[d].batch = loop[d].batch,
           \A d \in Conns : d > client.conn => wire'[d] = <<>>
    PROVE  StreamInv'
<1>1. /\ client' \in Reader /\ client'.reading = FALSE /\ client'.conn = client.conn
      /\ client'.cursor = client.cursor /\ client'.told = client.told
  BY DEF StreamInv, StreamTypes, Reader
<1>2. Log' = Log /\ Extended
  BY LogStays
<1>3. StreamTypes'
  BY <1>1 DEF StreamInv, StreamTypes
<1>4. Logged'
  <2>. HIDE DEF Log
  <2>. QED BY <1>2 DEF StreamInv, Logged, Enumerates
<1>5. OneAfterTheOther'
  BY DEF StreamInv, OneAfterTheOther, Inserting
<1>6. ToldFirst'
  <2>. HIDE DEF Log
  <2>1. \A q : IdAt(q)' = IdAt(q)
    BY LogStays
  <2>2. Len(client.told)' = Len(client.told)
    BY <1>1
  <2>3. IdAt(Len(client.told))' = IdAt(Len(client.told))
    BY <1>2, <2>2 DEF IdAt
  <2>. QED BY <1>1, <1>2, <2>3 DEF StreamInv, ToldFirst
<1>7. Served'
  <2>. SUFFICES ASSUME NEW d \in Conns
                PROVE  \E k \in 0 .. Len(Log') : Sent(d, k)' /\ (Reads(d)' => UnderWay(d, k)')
    BY DEF Served
  <2>1. PICK q \in 0 .. Len(Log) : Sent(d, q)
    BY DEF StreamInv, Served
  <2>2. Sent(d, q)'
    <3>. HIDE DEF Log
    <3>1. loop'[d].cursor = IdAt(q)
      BY <2>1 DEF Sent
    <3>2. loop'[d].pc = "send" =>
             /\ q + Len(loop'[d].batch) <= Len(Log)
             /\ \A i \in 1 .. Len(loop'[d].batch) : loop'[d].batch[i] = Log[q + i]
      BY <2>1 DEF Sent
    <3>3. \A i \in 1 .. q : Log[i].kind \in Closing => i = q /\ loop'[d].pc = "closed"
      BY <2>1 DEF Sent
    <3>. QED BY <3>1, <3>2, <3>3, SentNow
  <2>3. ~Reads(d)'
    BY <1>1 DEF Reads
  <2>. QED BY <1>2, <2>2, <2>3
<1>8. Connected'
  BY <1>1 DEF StreamInv, Connected
<1>. QED BY <1>3, <1>4, <1>5, <1>6, <1>7, <1>8 DEF StreamInv

\* The end of a response loses nothing.
LEMMA ReadEndKeeps == ASSUME StreamInv, ReadEnd PROVE StreamInv'
<1>1. UNCHANGED <<nextId, rows, delivery, loop, wire>> /\ client' = [client EXCEPT !.reading = FALSE]
  BY DEF ReadEnd
<1>2. loop' \in [Conns -> Serving] /\ wire' \in [Conns -> Seq(EventRow \cup {Timeout})]
  BY <1>1 DEF StreamInv, StreamTypes
<1>3. \A d \in Conns : d > client.conn => wire'[d] = <<>>
  BY <1>1 DEF StreamInv, Connected
<1>. QED BY <1>1, <1>2, <1>3, ClientLeaves

\* A broken connection loses what the next one sends again.
LEMMA DisconnectKeeps == ASSUME StreamInv, Disconnect PROVE StreamInv'
<1>. DEFINE c == client.conn
<1>1. /\ client.reading /\ UNCHANGED <<nextId, rows, delivery>>
      /\ client' = [client EXCEPT !.reading = FALSE]
      /\ loop' = [loop EXCEPT ![c].attached = FALSE] /\ wire' = [wire EXCEPT ![c] = <<>>]
  BY DEF Disconnect
<1>2. c \in Conns
  BY <1>1 DEF StreamInv, Connected
<1>3. loop \in [Conns -> Serving] /\ wire \in [Conns -> Seq(EventRow \cup {Timeout})]
  BY DEF StreamInv, StreamTypes
<1>4. <<>> \in Seq(EventRow \cup {Timeout})
  BY EmptySeq
<1>. HIDE DEF c
<1>5. wire' \in [Conns -> Seq(EventRow \cup {Timeout})]
  BY <1>1, <1>2, <1>3, <1>4
<1>6. /\ loop' \in [Conns -> Serving]
      /\ \A d \in Conns : loop'[d].pc = loop[d].pc /\ loop'[d].cursor = loop[d].cursor
                          /\ loop'[d].batch = loop[d].batch
  BY <1>1, <1>2, <1>3 DEF Serving
<1>7. \A d \in Conns : d > c => wire'[d] = <<>>
  BY <1>1, <1>2, <1>3 DEF StreamInv, Connected, c
<1>. QED BY <1>1, <1>5, <1>6, <1>7, ClientLeaves DEF c

\* The client reads: the next row of the log, or that the time is over.
LEMMA ReadKeeps == ASSUME StreamInv, Read PROVE StreamInv'
<1>1. PICK c \in Conns : c = client.conn
  BY DEF Read, StreamInv, Connected
<1>. DEFINE W == wire[c]
            T == client.told
            p == Len(T)
            e == W[1]
<1>2. /\ client.reading /\ UNCHANGED <<nextId, rows, delivery, loop>>
      /\ wire' \in [Conns -> Seq(EventRow \cup {Timeout})]
      /\ \A d \in Conns : d # c => wire'[d] = wire[d]
      /\ Len(W) \in Nat /\ Len(W) >= 1 /\ Len(wire'[c]) = Len(W) - 1
      /\ \A i \in 1 .. Len(W) - 1 : wire'[c][i] = W[i + 1]
  BY <1>1, ReadEffect DEF StreamInv
<1>3. /\ e = Timeout => client' = client
      /\ e \in EventRow /\ e # Timeout =>
            /\ client' \in Reader /\ client'.conn = client.conn
            /\ client'.reading = client.reading /\ client'.cursor = e.id
            /\ Len(client'.told) = p + 1
            /\ \A i \in 1 .. p : client'.told[i] = T[i]
            /\ client'.told[p + 1] = e
  BY <1>1, ReadEffect DEF StreamInv
<1>4. client \in Reader /\ T \in Seq(EventRow) /\ p \in Nat
  BY LenProperties DEF StreamInv, StreamTypes, Reader
<1>5. Log' = Log /\ Extended /\ \A q : IdAt(q)' = IdAt(q)
  BY <1>2, LogStays
<1>6. PICK q \in 0 .. Len(Log) : Sent(c, q) /\ UnderWay(c, q)
  BY <1>1, <1>2 DEF StreamInv, Served, Reads
<1>7. /\ Len(Log) \in Nat
      /\ \A i \in 1 .. Len(Log) : Log[i] \in EventRow /\ Log[i].id \in Nat /\ 1 <= Log[i].id
  BY LogFacts DEF StreamInv
<1>8. /\ p <= q /\ \A i \in 1 .. q - p : W[i] = Log[p + i]
      /\ \/ Len(W) = q - p
         \/ Len(W) = q - p + 1 /\ W[q - p + 1] = Timeout /\ loop[c].pc = "closed"
  BY <1>6 DEF UnderWay
<1>9. \A i \in 1 .. q : Log[i].kind \in Closing => i = q
  BY <1>6 DEF Sent
<1>. HIDE DEF Log, W, e
<1>10. Logged'
  BY <1>2, <1>5 DEF StreamInv, Logged, Enumerates
<1>11. OneAfterTheOther'
  BY <1>2 DEF StreamInv, OneAfterTheOther, Inserting
<1>12. ASSUME client' \in Reader, client'.conn = client.conn, client'.reading = client.reading,
              ToldFirst', UnderWay(c, q)'
       PROVE  StreamInv'
  <2>1. StreamTypes'
    BY <1>2, <1>12 DEF StreamInv, StreamTypes
  <2>2. Sent(c, q)'
    BY <1>2, <1>5, <1>6, SentStays
  <2>3. Served'
    <3>. SUFFICES ASSUME NEW d \in Conns
                  PROVE  \E k \in 0 .. Len(Log') : Sent(d, k)' /\ (Reads(d)' => UnderWay(d, k)')
      BY DEF Served
    <3>1. CASE d = c
      BY <1>5, <1>12, <2>2, <3>1
    <3>2. CASE d # c
      <4>1. PICK k \in 0 .. Len(Log) : Sent(d, k)
        BY DEF StreamInv, Served
      <4>2. Sent(d, k)'
        BY <1>2, <1>5, <4>1, SentStays
      <4>3. ~Reads(d)'
        BY <1>1, <1>12, <3>2 DEF Reads
      <4>. QED BY <1>5, <4>2, <4>3
    <3>. QED BY <3>1, <3>2
  <2>4. Connected'
    <3>1. \A d \in Conns : d > client.conn => d # c
      BY <1>1 DEF Conns
    <3>. QED BY <1>1, <1>2, <1>12, <3>1 DEF StreamInv, Connected
  <2>. QED BY <1>10, <1>11, <1>12, <2>1, <2>3, <2>4 DEF StreamInv
<1>13. CASE q = p
  <2>1. Len(W) = 1 /\ e = Timeout /\ loop[c].pc = "closed"
    BY <1>2, <1>4, <1>8, <1>13 DEF e
  <2>2. client' = client
    BY <1>3, <2>1
  <2>3. ToldFirst'
    BY <1>5, <2>2, ToldStays
  <2>4. UnderWay(c, q)'
    <3>1. Len(client'.told) = q /\ q \in Nat
      BY <1>7, <1>13, <2>2
    <3>2. q - Len(client'.told) = 0 /\ Len(client'.told) <= q
      BY <3>1
    <3>3. Len(wire'[c]) = q - Len(client'.told)
      BY <1>2, <2>1, <3>2
    <3>4. \A i \in 1 .. q - Len(client'.told) : wire'[c][i] = Log[Len(client'.told) + i]
      BY <3>2
    <3>5. UNCHANGED rows
      BY <1>2
    <3>. QED BY <3>2, <3>3, <3>4, <3>5, UnderWayNow
  <2>. QED BY <1>4, <1>12, <2>2, <2>3, <2>4
<1>14. CASE q # p
  <2>1. /\ q \in Nat /\ p + 1 <= q /\ 1 \in 1 .. q - p /\ p + 1 \in 1 .. Len(Log)
        /\ \A i \in 1 .. q - p - 1 : i + 1 \in 1 .. q - p
    BY <1>4, <1>7, <1>8, <1>14
  <2>2. e = Log[p + 1]
    BY <1>8, <2>1 DEF e
  <2>3. e \in EventRow /\ e.id \in Nat /\ e # Timeout
    BY <1>7, <2>1, <2>2 DEF Timeout
  <2>4. /\ client' \in Reader /\ client'.conn = client.conn
        /\ client'.reading = client.reading /\ client'.cursor = e.id
        /\ Len(client'.told) = p + 1
        /\ \A i \in 1 .. p : client'.told[i] = T[i]
        /\ client'.told[p + 1] = e
    BY <1>3, <2>3
  <2>5. ToldFirst'
    <3>1. \A i \in 1 .. p : T[i] = Log[i]
      BY DEF StreamInv, ToldFirst
    <3>2. \A i \in 1 .. p + 1 : client'.told[i] = Log[i]
      <4>1. \A i \in 1 .. p + 1 : i \in 1 .. p \/ i = p + 1
        <5>. HIDE DEF p
        <5>. QED BY <1>4
      <4>. HIDE DEF T, p
      <4>. QED BY <2>2, <2>4, <3>1, <4>1
    <3>3. client'.cursor = IdAt(p + 1)
      BY <1>4, <2>2, <2>4 DEF IdAt
    <3>4. \A i \in 1 .. p + 1 : Log[i].kind \in Closing => i = p + 1
      <4>. SUFFICES ASSUME NEW i \in 1 .. p + 1, Log[i].kind \in Closing PROVE i = p + 1
        OBVIOUS
      <4>1. i \in 1 .. q
        BY <1>4, <2>1
      <4>2. i = q
        BY <1>9, <4>1
      <4>. QED BY <1>4, <2>1, <4>2
    <3>5. IdAt(Len(client.told))' = client'.cursor
      <4>1. PICK k \in Nat : k = p + 1
        BY <1>4
      <4>2. Len(client.told)' = k
        BY <2>4, <4>1
      <4>. QED BY <1>5, <3>3, <4>1, <4>2 DEF IdAt
    <3>6. p + 1 <= Len(Log)
      BY <1>4, <1>7, <2>1
    <3>. HIDE DEF T, p
    <3>. QED BY <1>5, <2>4, <3>2, <3>4, <3>5, <3>6 DEF ToldFirst
  <2>6. UnderWay(c, q)'
    <3>. DEFINE n == q - p - 1
    <3>1. n \in Nat /\ n = q - (p + 1) /\ p + 1 <= q
      BY <1>4, <2>1
    <3>2. \A i \in 1 .. n : i \in 1 .. Len(W) - 1 /\ i + 1 \in 1 .. q - p /\ p + (i + 1) = p + 1 + i
      <4>. HIDE DEF p
      <4>1. Len(W) - 1 >= n
        BY <1>2, <1>4, <1>8, <2>1, <3>1
      <4>. QED BY <1>2, <1>4, <2>1, <3>1, <4>1
    <3>3. \A i \in 1 .. n : wire'[c][i] = Log[p + 1 + i]
      <4>. SUFFICES ASSUME NEW i \in 1 .. n PROVE wire'[c][i] = Log[p + 1 + i]
        OBVIOUS
      <4>1. wire'[c][i] = W[i + 1] /\ W[i + 1] = Log[p + (i + 1)]
        BY <1>2, <1>8, <3>2
      <4>. QED BY <3>2, <4>1
    <3>4. \/ Len(wire'[c]) = n
          \/ Len(wire'[c]) = n + 1 /\ wire'[c][n + 1] = Timeout /\ loop'[c].pc = "closed"
      <4>1. CASE Len(W) = q - p
        BY <1>2, <1>4, <2>1, <4>1
      <4>2. CASE Len(W) = q - p + 1 /\ W[q - p + 1] = Timeout /\ loop[c].pc = "closed"
        <5>. HIDE DEF W, p
        <5>1. n + 1 \in 1 .. Len(W) - 1 /\ n + 1 + 1 = q - p + 1 /\ Len(wire'[c]) = n + 1
          BY <1>2, <1>4, <2>1, <4>2
        <5>2. wire'[c][n + 1] = W[n + 1 + 1]
          BY <1>2, <5>1
        <5>. QED BY <1>2, <4>2, <5>1, <5>2
      <4>. QED BY <1>8, <4>1, <4>2
    <3>. HIDE DEF n, p
    <3>5. UNCHANGED rows
      BY <1>2
    <3>6. q - Len(client'.told) = n /\ Len(client'.told) <= q
      BY <2>4, <3>1
    <3>7. \A i \in 1 .. q - Len(client'.told) : wire'[c][i] = Log[Len(client'.told) + i]
      BY <2>4, <3>3, <3>6
    <3>8. \/ Len(wire'[c]) = q - Len(client'.told)
          \/ /\ Len(wire'[c]) = q - Len(client'.told) + 1
             /\ wire'[c][q - Len(client'.told) + 1] = Timeout /\ loop'[c].pc = "closed"
      BY <3>4, <3>6
    <3>. QED BY <3>5, <3>6, <3>7, <3>8, UnderWayNow
  <2>. QED BY <1>12, <2>4, <2>5, <2>6
<1>. QED BY <1>13, <1>14

-----------------------------------------------------------------------------
\* At the start the log is empty.
LEMMA StreamStart == StreamInit => StreamInv
<1>. SUFFICES ASSUME StreamInit PROVE StreamInv
  OBVIOUS
<1>1. <<>> \in Seq(EventRow) /\ <<>> \in Seq(EventRow \cup {Timeout}) /\ Len(<<>>) = 0
  BY EmptySeq
<1>2. delivery \in [Deliveries -> Working]
  BY DEF StreamInit, Working
<1>3. loop \in [Conns -> Serving]
  BY <1>1 DEF StreamInit, Serving
<1>4. wire \in [Conns -> Seq(EventRow \cup {Timeout})]
  BY <1>1 DEF StreamInit
<1>5. client \in Reader
  BY <1>1, StreamConstants DEF StreamInit, Reader
<1>6. StreamTypes
  BY <1>2, <1>3, <1>4, <1>5 DEF StreamInit, StreamTypes
<1>7. Enumerates(<<>>, rows)
  BY <1>1 DEF Enumerates, StreamInit
<1>8. Log = <<>>
  BY <1>6, <1>7, OneEnumeration DEF StreamTypes, Log
<1>. HIDE DEF Log
<1>9. Logged
  BY <1>7, <1>8 DEF Logged, StreamInit
<1>10. OneAfterTheOther
  BY DEF StreamInit, OneAfterTheOther, Inserting
<1>11. ToldFirst
  BY <1>1, <1>8 DEF StreamInit, ToldFirst, IdAt
<1>12. Served
  <2>. SUFFICES ASSUME NEW c \in Conns PROVE Sent(c, 0) /\ ~Reads(c) /\ 0 \in 0 .. Len(Log)
    BY DEF Served
  <2>1. loop[c].cursor = 0 /\ loop[c].pc = "off"
    BY DEF StreamInit
  <2>2. Sent(c, 0)
    BY <2>1 DEF Sent, IdAt
  <2>. QED BY <1>1, <1>8, <2>2 DEF StreamInit, Reads
<1>13. Connected
  BY DEF StreamInit, Connected
<1>. QED BY <1>6, <1>9, <1>10, <1>11, <1>12, <1>13 DEF StreamInv

\* A stutter.
LEMMA StutterKeepsStream == ASSUME StreamInv, UNCHANGED stream PROVE StreamInv'
<1>1. UNCHANGED <<nextId, rows, delivery, loop, wire, client>>
  BY DEF stream
<1>2. delivery' \in [Deliveries -> Working] /\ nextId \in Nat
  BY <1>1 DEF StreamInv, StreamTypes
<1>3. OneAfterTheOther'
  BY <1>1 DEF StreamInv, OneAfterTheOther, Inserting
<1>. QED BY <1>1, <1>2, <1>3, DeliveryKeeps

\* Every step keeps the invariant, as long as no two deliveries run at once.
LEMMA StreamInvariant == ASSUME ~Overlap PROVE StreamSpec => []StreamInv
<1>1. ASSUME StreamInv, StreamNext PROVE StreamInv'
  BY <1>1, RedeliverKeeps, StartInsertKeeps, DieKeepsStream, CommitKeepsStream, SelectKeeps,
     SendKeeps, WakeKeeps, TimeOutKeepsStream, ConnectKeeps, ReadKeeps, ReadEndKeeps,
     DisconnectKeeps DEF StreamNext, Serve
<1>2. StreamInv /\ [StreamNext]_stream => StreamInv'
  BY <1>1, StutterKeepsStream
<1>. QED BY StreamStart, <1>2, PTL DEF StreamSpec

\* Whatever connections break and wherever the client comes back, it was told exactly
\* the rows up to its cursor (GET with ?cursor=): for every number of deliveries, rows and
\* connections, where a delivery starts when the one before it is
\* dead.  With Overlap a row can commit under the cursor, and the client never sees it.
THEOREM ReplayIsExactOneByOne == ASSUME ~Overlap PROVE StreamSpec => []ReplayIsExact
<1>1. StreamInv => ReplayIsExact
  <2>. SUFFICES ASSUME StreamInv PROVE ReplayIsExact
    OBVIOUS
  <2>1. /\ client.told \in Seq(EventRow) /\ Len(client.told) <= Len(Log)
        /\ \A i \in 1 .. Len(client.told) : client.told[i] = Log[i]
        /\ client.cursor = IdAt(Len(client.told))
    BY DEF StreamInv, StreamTypes, Reader, ToldFirst
  <2>2. client.told = InOrder({r \in rows : r.id <= client.cursor})
    BY <2>1, FirstOfLog DEF StreamInv
  <2>3. DOMAIN client.told = 1 .. Len(client.told)
    BY <2>1, LenProperties
  <2>4. \A i \in 1 .. Len(client.told) :
           client.told[i].kind \in Closing => i = Len(client.told)
    BY <2>1 DEF StreamInv, ToldFirst
  <2>. QED BY <2>2, <2>3, <2>4 DEF ReplayIsExact
<1>. QED BY <1>1, StreamInvariant, PTL

-----------------------------------------------------------------------------
(* The stream with deliveries that overlap.  A row may commit below a      *)
(* cursor, so that nobody's rows are the first of a log: they are rows of  *)
(* it, in order.                                                           *)

\* The rows have different ids, those of inserts under way among them.
Numbered ==
    /\ IsFiniteSet(rows)
    /\ \A r, x \in rows : r.id = x.id => r = x
    /\ \A r \in rows : 1 <= r.id /\ r.id < nextId
    /\ \A a \in Deliveries : Inserting(a) =>
          delivery[a].id \in 1 .. nextId - 1 /\ \A r \in rows : r.id # delivery[a].id
    /\ \A a, b \in Deliveries :
          Inserting(a) /\ Inserting(b) /\ delivery[a].id = delivery[b].id => a = b

\* Rows after a cursor, in the order of their ids.
Rising(s, n, cursor) ==
    \A i \in 1 .. n :
        /\ s[i] \in rows /\ cursor < s[i].id
        /\ \A j \in 1 .. n : i < j => s[i].id < s[j].id

\* The client was told rows in order, up to its cursor and to the first that closes.
ToldRising ==
    /\ Rising(client.told, Len(client.told), 0)
    /\ \A i \in 1 .. Len(client.told) :
          /\ client.told[i].id <= client.cursor
          /\ client.told[i].kind \in Closing => i = Len(client.told)

\* A loop sends what is past its cursor.
SendsRising(c) == loop[c].pc = "send" => Rising(loop[c].batch, Len(loop[c].batch), loop[c].cursor)

\* On the wire are n rows past the client's cursor, none past the loop's, and perhaps
\* that the time is over; a row that closes is the last.
Carries(c, n) ==
    /\ Rising(wire[c], n, client.cursor)
    /\ client.cursor <= loop[c].cursor
    /\ \A i \in 1 .. n :
          /\ wire[c][i].id <= loop[c].cursor
          /\ wire[c][i].kind \in Closing => i = Len(wire[c]) /\ loop[c].pc = "closed"
    /\ \/ Len(wire[c]) = n
       \/ Len(wire[c]) = n + 1 /\ wire[c][n + 1] = Timeout /\ loop[c].pc = "closed"
    /\ ToldClosing => wire[c] = <<>> /\ loop[c].pc = "closed"

CarriesRising(c) == Reads(c) => \E n \in 0 .. Len(wire[c]) : Carries(c, n)

OverlapInv ==
    /\ StreamTypes /\ Numbered /\ Connected /\ ToldRising
    /\ \A c \in Conns : SendsRising(c) /\ CarriesRising(c)

-----------------------------------------------------------------------------
\* Rows with different ids have an enumeration.
LEMMA HasEnumeration ==
    ASSUME NEW R \in SUBSET EventRow, IsFiniteSet(R), \A r, x \in R : r.id = x.id => r = x
    PROVE  \E s : Enumerates(s, R)
<1>. DEFINE Listed(S) == \E s : Enumerates(s, S)
            Bad == {n \in Nat : \E S \in SUBSET R : Cardinality(S) = n /\ ~Listed(S)}
<1>1. \A S \in SUBSET R : IsFiniteSet(S) /\ Cardinality(S) \in Nat
  BY FS_Subset, FS_CardinalityType
<1>. SUFFICES ASSUME ~Listed(R) PROVE FALSE
  OBVIOUS
<1>2. Bad \in SUBSET Nat /\ Cardinality(R) \in Bad
  <2>. HIDE DEF Listed
  <2>. QED BY <1>1
<1>3. Min(Bad) \in Bad /\ \A i \in Bad : Min(Bad) <= i
  <2>. HIDE DEF Bad
  <2>. QED BY <1>2, Least
<1>4. PICK S \in SUBSET R : Cardinality(S) = Min(Bad) /\ ~Listed(S)
  <2>. HIDE DEF Listed
  <2>. QED BY <1>3
<1>5. S # {}
  <2>1. Enumerates(<<>>, {})
    BY EmptySeq DEF Enumerates
  <2>. QED BY <1>4, <2>1
<1>6. PICK r \in S : \A x \in S : r.id <= x.id
  <2>. DEFINE I == {x.id : x \in S}
  <2>1. I \in SUBSET Nat /\ I # {}
    BY <1>5 DEF EventRow
  <2>2. Min(I) \in I /\ \A i \in I : Min(I) <= i
    <3>. HIDE DEF I
    <3>. QED BY <2>1, Least
  <2>3. PICK x \in S : x.id = Min(I)
    BY <2>2
  <2>. QED BY <2>2, <2>3
<1>. DEFINE T == S \ {r}
<1>7. Listed(T)
  <2>1. Cardinality(T) = Cardinality(S) - 1 /\ T \in SUBSET R
    BY <1>1, FS_RemoveElement
  <2>2. Cardinality(T) \in Nat /\ Cardinality(S) \in Nat
    BY <1>1, <2>1
  <2>3. Cardinality(T) \notin Bad
    <3>. HIDE DEF Bad, T
    <3>. QED BY <1>3, <1>4, <2>1, <2>2
  <2>. HIDE DEF Listed, T
  <2>. QED BY <2>1, <2>2, <2>3
<1>8. PICK t : Enumerates(t, T)
  BY <1>7
<1>. DEFINE n == Len(t)
            s == [i \in 1 .. n + 1 |-> IF i = 1 THEN r ELSE t[i - 1]]
<1>9. n \in Nat /\ t \in [1 .. n -> EventRow]
  BY <1>8, LenProperties DEF Enumerates
<1>10. /\ \A i \in 1 .. n : t[i] \in T
       /\ \A i, j \in 1 .. n : i < j => t[i].id < t[j].id
       /\ \A x \in T : \E i \in 1 .. n : t[i] = x
  BY <1>8 DEF Enumerates
<1>. HIDE DEF n
<1>11. s[1] = r /\ \A i \in 1 .. n : s[i + 1] = t[i] /\ i + 1 \in 1 .. n + 1
  BY <1>9
<1>12. s \in [1 .. n + 1 -> EventRow]
  BY <1>9
<1>. HIDE DEF s
<1>13. s \in Seq(EventRow) /\ Len(s) = n + 1
  BY <1>9, <1>12, SeqDef, LenProperties
<1>14. \A i \in 1 .. n + 1 : i # 1 => i - 1 \in 1 .. n /\ s[i] = t[i - 1]
  <2>. SUFFICES ASSUME NEW i \in 1 .. n + 1, i # 1 PROVE i - 1 \in 1 .. n /\ s[i] = t[i - 1]
    OBVIOUS
  <2>1. i - 1 \in 1 .. n /\ (i - 1) + 1 = i
    BY <1>9
  <2>. QED BY <1>11, <2>1
<1>15. \A i \in 1 .. n + 1 : s[i] \in S
  BY <1>10, <1>11, <1>14
<1>16. \A x \in T : r.id < x.id
  <2>. SUFFICES ASSUME NEW x \in T PROVE r.id < x.id
    OBVIOUS
  <2>1. r.id <= x.id /\ r.id # x.id /\ r.id \in Nat /\ x.id \in Nat
    BY <1>6 DEF EventRow
  <2>. QED BY <2>1
<1>17. ASSUME NEW i \in 1 .. n + 1, NEW j \in 1 .. n + 1, i < j PROVE s[i].id < s[j].id
  <2>1. j # 1
    BY <1>9, <1>17
  <2>2. j - 1 \in 1 .. n /\ s[j] = t[j - 1]
    BY <1>14, <2>1
  <2>3. CASE i = 1
    BY <1>10, <1>11, <1>16, <2>2, <2>3
  <2>4. CASE i # 1
    <3>1. i - 1 \in 1 .. n /\ s[i] = t[i - 1] /\ i - 1 < j - 1
      BY <1>9, <1>14, <1>17, <2>4
    <3>. QED BY <1>10, <2>2, <3>1
  <2>. QED BY <2>3, <2>4
<1>18. \A x \in S : \E i \in 1 .. n + 1 : s[i] = x
  <2>. SUFFICES ASSUME NEW x \in S PROVE \E i \in 1 .. n + 1 : s[i] = x
    OBVIOUS
  <2>1. CASE x = r
    BY <1>9, <1>11, <2>1
  <2>2. CASE x # r
    <3>1. PICK i \in 1 .. n : t[i] = x
      BY <1>10, <2>2
    <3>. QED BY <1>11, <3>1
  <2>. QED BY <2>1, <2>2
<1>19. Enumerates(s, S)
  BY <1>13, <1>15, <1>17, <1>18 DEF Enumerates
<1>. QED BY <1>4, <1>19

\* A poll finds rows past its cursor, in order.
LEMMA PollRising ==
    ASSUME StreamTypes, Numbered, NEW k \in Nat
    PROVE  RowsPast(k) \in Seq(EventRow) /\ Rising(RowsPast(k), Len(RowsPast(k)), k)
<1>. DEFINE S == {r \in rows : r.id > k}
<1>1. S \in SUBSET EventRow /\ \A r \in S : r.id \in Nat
  BY DEF StreamTypes, EventRow
<1>2. IsFiniteSet(S)
  <2>1. S \subseteq rows /\ IsFiniteSet(rows)
    BY DEF Numbered
  <2>. HIDE DEF S
  <2>. QED BY <2>1, FS_Subset
<1>3. \A r, x \in S : r.id = x.id => r = x
  BY DEF Numbered
<1>4. \A r \in S : r \in rows /\ k < r.id
  BY <1>1
<1>5. RowsPast(k) = InOrder(S)
  BY DEF RowsPast
<1>. HIDE DEF S
<1>6. PICK s : Enumerates(s, S)
  BY <1>1, <1>2, <1>3, HasEnumeration
<1>7. RowsPast(k) = s
  BY <1>1, <1>5, <1>6, OneEnumeration
<1>8. s \in Seq(EventRow) /\ Rising(s, Len(s), k)
  BY <1>4, <1>6 DEF Enumerates, Rising
<1>. QED BY <1>7, <1>8

-----------------------------------------------------------------------------
\* The log may grow under the loops and the client.
LEMMA LogGrows ==
    ASSUME OverlapInv, UNCHANGED <<loop, wire, client>>, rows \subseteq rows',
           nextId' \in Nat \ {0}, rows' \subseteq EventRow, delivery' \in [Deliveries -> Working],
           Numbered'
    PROVE  OverlapInv'
<1>1. StreamTypes'
  BY DEF OverlapInv, StreamTypes
<1>2. Connected'
  BY DEF OverlapInv, Connected
<1>3. ToldRising'
  BY DEF OverlapInv, ToldRising, Rising
<1>4. ASSUME NEW c \in Conns PROVE SendsRising(c)' /\ CarriesRising(c)'
  <2>1. SendsRising(c) /\ CarriesRising(c)
    BY DEF OverlapInv
  <2>2. SendsRising(c)'
    BY <2>1 DEF SendsRising, Rising
  <2>3. ASSUME Reads(c)' PROVE \E n \in 0 .. Len(wire'[c]) : Carries(c, n)'
    <3>1. PICK n \in 0 .. Len(wire[c]) : Carries(c, n)
      BY <2>1, <2>3 DEF CarriesRising, Reads
    <3>2. Carries(c, n)'
      BY <3>1 DEF Carries, Rising, ToldClosing
    <3>. QED BY <3>2
  <2>. QED BY <2>2, <2>3 DEF CarriesRising
<1>. QED BY <1>1, <1>2, <1>3, <1>4 DEF OverlapInv

\* A delivery that starts or dies leaves the log and the other deliveries as they are.
LEMMA DeliveryTurns ==
    ASSUME OverlapInv, NEW a \in Deliveries, NEW p \in {"running", "dead"},
           delivery' = [delivery EXCEPT ![a].pc = p], UNCHANGED <<nextId, rows, loop, wire, client>>
    PROVE  OverlapInv'
<1>1. delivery \in [Deliveries -> Working] /\ nextId \in Nat \ {0} /\ rows \subseteq EventRow
  BY DEF OverlapInv, StreamTypes
<1>2. /\ delivery' \in [Deliveries -> Working] /\ delivery'[a].pc # "inserting"
      /\ \A d \in Deliveries : d # a => delivery'[d] = delivery[d]
  BY <1>1 DEF Working
<1>3. \A d \in Deliveries : Inserting(d)' => Inserting(d) /\ delivery'[d] = delivery[d]
  BY <1>2 DEF Inserting
<1>4. Numbered'
  BY <1>3 DEF OverlapInv, Numbered
<1>. QED BY <1>1, <1>2, <1>4, LogGrows

\* An insert that starts takes an id no row has.
LEMMA InsertTakesNew == ASSUME OverlapInv, NEW a \in Deliveries, StartInsert(a) PROVE OverlapInv'
<1>1. StreamTypes /\ nextId \in Nat \ {0} /\ rows \subseteq EventRow
  BY DEF OverlapInv, StreamTypes
<1>2. /\ nextId' = nextId + 1 /\ UNCHANGED <<rows, loop, wire, client>>
      /\ delivery' \in [Deliveries -> Working] /\ delivery'[a].id = nextId
      /\ \A d \in Deliveries : d # a => delivery'[d] = delivery[d]
  BY <1>1, StartInsertEffect
<1>3. \A d \in Deliveries : d # a /\ Inserting(d)' => Inserting(d) /\ delivery'[d] = delivery[d]
  BY <1>2 DEF Inserting
<1>4. Numbered
  BY DEF OverlapInv
<1>5. \A r \in rows : r.id \in Nat
  BY <1>1 DEF EventRow
<1>6. \A d \in Deliveries : Inserting(d)' =>
         delivery'[d].id \in 1 .. nextId /\ \A r \in rows : r.id # delivery'[d].id
  <2>. SUFFICES ASSUME NEW d \in Deliveries, Inserting(d)'
                PROVE  delivery'[d].id \in 1 .. nextId /\ \A r \in rows : r.id # delivery'[d].id
    OBVIOUS
  <2>1. CASE d = a
    BY <1>1, <1>2, <1>4, <1>5, <2>1 DEF Numbered
  <2>2. CASE d # a
    <3>1. delivery'[d] = delivery[d] /\ Inserting(d)
      BY <1>3, <2>2
    <3>. QED BY <1>1, <1>4, <3>1 DEF Numbered
  <2>. QED BY <2>1, <2>2
<1>7. ASSUME NEW d \in Deliveries, NEW e \in Deliveries, Inserting(d)', Inserting(e)',
             delivery'[d].id = delivery'[e].id
      PROVE  d = e
  <2>1. \A x \in Deliveries : x # a /\ Inserting(x)' => delivery'[x].id # nextId
    <3>. SUFFICES ASSUME NEW x \in Deliveries, x # a, Inserting(x)' PROVE delivery'[x].id # nextId
      OBVIOUS
    <3>1. delivery'[x] = delivery[x] /\ delivery[x].id \in 1 .. nextId - 1
      BY <1>3, <1>4 DEF Numbered
    <3>. QED BY <1>1, <3>1
  <2>2. CASE d = a \/ e = a
    BY <1>2, <1>7, <2>1, <2>2
  <2>3. CASE d # a /\ e # a
    BY <1>3, <1>4, <1>7, <2>3 DEF Numbered
  <2>. QED BY <2>2, <2>3
<1>8. Numbered'
  <2>1. \A r \in rows' : 1 <= r.id /\ r.id < nextId'
    BY <1>1, <1>2, <1>4, <1>5 DEF Numbered
  <2>2. nextId' - 1 = nextId
    BY <1>1, <1>2
  <2>. QED BY <1>2, <1>4, <1>6, <1>7, <2>1, <2>2 DEF Numbered
<1>9. nextId' \in Nat \ {0} /\ rows \subseteq rows' /\ rows' \subseteq EventRow
  BY <1>1, <1>2
<1>. QED BY <1>2, <1>8, <1>9, LogGrows

\* The row of an insert that commits has its own id, and perhaps a lower one than a row
\* that was there.
LEMMA CommitAddsOne ==
    ASSUME OverlapInv, NEW a \in Deliveries, NEW kind \in Verdicts \cup {"progress"},
           Commit(a, kind)
    PROVE  OverlapInv'
<1>. DEFINE r == [id |-> delivery[a].id, kind |-> kind]
            p == IF kind \in Verdicts THEN "ended" ELSE "running"
<1>1. /\ Inserting(a) /\ rows' = rows \cup {r} /\ delivery' = [delivery EXCEPT ![a].pc = p]
      /\ UNCHANGED <<nextId, loop, wire, client>>
  BY DEF Commit, Inserting
<1>2. delivery \in [Deliveries -> Working] /\ nextId \in Nat \ {0} /\ rows \subseteq EventRow
  BY DEF OverlapInv, StreamTypes
<1>3. Numbered
  BY DEF OverlapInv
<1>4. r.id = delivery[a].id /\ r.id \in 1 .. nextId - 1 /\ \A x \in rows : x.id # r.id
  BY <1>1, <1>3 DEF Numbered
<1>5. r \in EventRow
  BY <1>2, <1>4 DEF EventRow
<1>. HIDE DEF r
<1>6. /\ delivery' \in [Deliveries -> Working] /\ delivery'[a].pc # "inserting"
      /\ \A d \in Deliveries : d # a => delivery'[d] = delivery[d]
  BY <1>1, <1>2 DEF Working
<1>7. \A d \in Deliveries : Inserting(d)' => d # a /\ Inserting(d) /\ delivery'[d] = delivery[d]
  BY <1>6 DEF Inserting
<1>8. IsFiniteSet(rows')
  BY <1>1, <1>3, FS_AddElement DEF Numbered
<1>9. \A x, y \in rows' : x.id = y.id => x = y
  BY <1>1, <1>3, <1>4 DEF Numbered
<1>10. \A x \in rows' : 1 <= x.id /\ x.id < nextId'
  BY <1>1, <1>2, <1>3, <1>4 DEF Numbered
<1>11. \A d \in Deliveries : Inserting(d)' =>
          delivery'[d].id \in 1 .. nextId' - 1 /\ \A x \in rows' : x.id # delivery'[d].id
  BY <1>1, <1>3, <1>4, <1>7 DEF Numbered
<1>12. \A d, e \in Deliveries :
          Inserting(d)' /\ Inserting(e)' /\ delivery'[d].id = delivery'[e].id => d = e
  BY <1>3, <1>7 DEF Numbered
<1>13. Numbered'
  BY <1>8, <1>9, <1>10, <1>11, <1>12 DEF Numbered
<1>14. rows \subseteq rows' /\ rows' \subseteq EventRow /\ nextId' \in Nat \ {0}
  BY <1>1, <1>2, <1>5
<1>. QED BY <1>1, <1>6, <1>13, <1>14, LogGrows

-----------------------------------------------------------------------------
\* A step of one loop leaves the others and the client as they are.
LEMMA LoopTurns ==
    ASSUME OverlapInv, NEW c \in Conns, UNCHANGED <<nextId, rows, delivery, client>>,
           loop' \in [Conns -> Serving], wire' \in [Conns -> Seq(EventRow \cup {Timeout})],
           \A d \in Conns : d # c => loop'[d] = loop[d] /\ wire'[d] = wire[d],
           loop[c].pc # "off", loop'[c].pc # "off", loop'[c].attached = loop[c].attached,
           SendsRising(c)', CarriesRising(c)'
    PROVE  OverlapInv'
<1>1. StreamTypes'
  BY DEF OverlapInv, StreamTypes
<1>2. Numbered' /\ ToldRising'
  BY DEF OverlapInv, Numbered, ToldRising, Rising, Inserting
<1>3. Connected'
  BY DEF OverlapInv, Connected
<1>4. ASSUME NEW d \in Conns, d # c PROVE SendsRising(d)' /\ CarriesRising(d)'
  <2>1. SendsRising(d) /\ CarriesRising(d) /\ loop'[d] = loop[d] /\ wire'[d] = wire[d]
    BY <1>4 DEF OverlapInv
  <2>2. SendsRising(d)'
    BY <2>1 DEF SendsRising, Rising
  <2>3. ASSUME Reads(d)' PROVE \E n \in 0 .. Len(wire'[d]) : Carries(d, n)'
    <3>1. PICK n \in 0 .. Len(wire[d]) : Carries(d, n)
      BY <2>1, <2>3 DEF CarriesRising, Reads
    <3>2. Carries(d, n)'
      BY <2>1, <3>1 DEF Carries, Rising, ToldClosing
    <3>. QED BY <2>1, <3>2
  <2>. QED BY <2>2, <2>3 DEF CarriesRising
<1>. QED BY <1>1, <1>2, <1>3, <1>4 DEF OverlapInv

\* While the loop does not close and keeps its cursor, the wire carries what it did.
LEMMA CarriesStill ==
    ASSUME OverlapInv, NEW c \in Conns, UNCHANGED <<rows, wire, client>>,
           loop'[c].cursor = loop[c].cursor, loop[c].pc # "closed"
    PROVE  CarriesRising(c)'
<1>. SUFFICES ASSUME Reads(c)' PROVE \E n \in 0 .. Len(wire'[c]) : Carries(c, n)'
  BY DEF CarriesRising
<1>1. PICK n \in 0 .. Len(wire[c]) : Carries(c, n)
  BY DEF OverlapInv, CarriesRising, Reads
<1>2. Carries(c, n)'
  BY <1>1 DEF Carries, Rising, ToldClosing
<1>. QED BY <1>2

\* A poll is a batch past the cursor.
LEMMA SelectRises == ASSUME OverlapInv, NEW c \in Conns, Select(c) PROVE OverlapInv'
<1>1. StreamTypes /\ Numbered
  BY DEF OverlapInv
<1>2. loop[c].cursor \in Nat
  BY <1>1 DEF StreamTypes, Serving
<1>3. PICK k \in Nat : k = loop[c].cursor
  BY <1>2
<1>4. PICK rest : rest = RowsPast(k)
  OBVIOUS
<1>5. rest \in Seq(EventRow) /\ Rising(rest, Len(rest), k)
  BY <1>1, <1>4, PollRising
<1>6. /\ loop[c].pc = "poll" /\ UNCHANGED <<nextId, rows, delivery, wire, client>>
      /\ loop' \in [Conns -> Serving] /\ \A d \in Conns : d # c => loop'[d] = loop[d]
      /\ loop'[c].pc = "send" /\ loop'[c].batch = rest
      /\ loop'[c].cursor = loop[c].cursor /\ loop'[c].attached = loop[c].attached
  BY <1>1, <1>3, <1>4, <1>5, SelectEffect
<1>7. SendsRising(c)'
  BY <1>3, <1>5, <1>6 DEF SendsRising, Rising
<1>8. CarriesRising(c)'
  BY <1>6, CarriesStill
<1>9. wire' \in [Conns -> Seq(EventRow \cup {Timeout})]
  BY <1>1, <1>6 DEF StreamTypes
<1>. QED BY <1>6, <1>7, <1>8, <1>9, LoopTurns

\* A loop that wakes keeps its cursor.
LEMMA WakeRises == ASSUME OverlapInv, NEW c \in Conns, Wake(c) PROVE OverlapInv'
<1>1. /\ loop[c].pc = "sleep" /\ loop' = [loop EXCEPT ![c].pc = "poll"]
      /\ UNCHANGED <<nextId, rows, delivery, wire, client>>
  BY DEF Wake
<1>2. loop \in [Conns -> Serving] /\ wire' \in [Conns -> Seq(EventRow \cup {Timeout})]
  BY <1>1 DEF OverlapInv, StreamTypes
<1>3. /\ loop' \in [Conns -> Serving] /\ loop'[c].pc = "poll"
      /\ loop'[c].cursor = loop[c].cursor /\ loop'[c].attached = loop[c].attached
      /\ \A d \in Conns : d # c => loop'[d] = loop[d]
  BY <1>1, <1>2 DEF Serving
<1>4. SendsRising(c)'
  BY <1>3 DEF SendsRising
<1>5. CarriesRising(c)'
  BY <1>1, <1>3, CarriesStill
<1>. QED BY <1>1, <1>2, <1>3, <1>4, <1>5, LoopTurns

\* A loop that runs out of time says so behind its rows.
LEMMA TimeOutRises == ASSUME OverlapInv, NEW c \in Conns, TimeOut(c) PROVE OverlapInv'
<1>. DEFINE W == wire[c]
            X == IF loop[c].attached THEN Append(W, Timeout) ELSE W
<1>1. /\ loop[c].pc = "sleep" /\ loop' = [loop EXCEPT ![c].pc = "closed"]
      /\ wire' = [wire EXCEPT ![c] = X]
      /\ UNCHANGED <<nextId, rows, delivery, client>>
  BY DEF TimeOut
<1>2. loop \in [Conns -> Serving] /\ wire \in [Conns -> Seq(EventRow \cup {Timeout})]
  BY DEF OverlapInv, StreamTypes
<1>3. /\ loop' \in [Conns -> Serving] /\ loop'[c].pc = "closed"
      /\ loop'[c].cursor = loop[c].cursor /\ loop'[c].attached = loop[c].attached
      /\ \A d \in Conns : d # c => loop'[d] = loop[d]
  BY <1>1, <1>2 DEF Serving
<1>4. W \in Seq(EventRow \cup {Timeout}) /\ Len(W) \in Nat
  BY <1>2, LenProperties
<1>5. /\ Append(W, Timeout) \in Seq(EventRow \cup {Timeout})
      /\ Len(Append(W, Timeout)) = Len(W) + 1
      /\ Append(W, Timeout)[Len(W) + 1] = Timeout
      /\ \A i \in 1 .. Len(W) : Append(W, Timeout)[i] = W[i]
  <2>. HIDE DEF W
  <2>1. Timeout \in EventRow \cup {Timeout}
    OBVIOUS
  <2>. QED BY <1>4, <2>1, AppendProperties
<1>6. X \in Seq(EventRow \cup {Timeout})
  BY <1>4, <1>5
<1>. HIDE DEF X
<1>7. /\ wire' \in [Conns -> Seq(EventRow \cup {Timeout})] /\ wire'[c] = X
      /\ \A d \in Conns : d # c => wire'[d] = wire[d]
  BY <1>1, <1>2, <1>6
<1>8. SendsRising(c)'
  BY <1>3 DEF SendsRising
<1>9. CarriesRising(c)'
  <2>. SUFFICES ASSUME Reads(c) PROVE \E n \in 0 .. Len(wire'[c]) : Carries(c, n)'
    BY <1>1 DEF CarriesRising, Reads
  <2>1. wire'[c] = Append(W, Timeout)
    <3>1. loop[c].attached
      BY DEF OverlapInv, Connected, Reads
    <3>. QED BY <1>7, <3>1 DEF X
  <2>2. PICK n \in 0 .. Len(W) : Carries(c, n)
    BY DEF OverlapInv, CarriesRising
  <2>3. Len(W) = n /\ ~ToldClosing
    BY <1>1, <2>2 DEF Carries
  <2>4. /\ Len(wire'[c]) = n + 1 /\ wire'[c][n + 1] = Timeout
        /\ \A i \in 1 .. n : wire'[c][i] = wire[c][i]
    BY <1>5, <2>1, <2>3
  <2>5. \A i \in 1 .. n : wire[c][i].kind \notin Closing
    BY <1>1, <2>2 DEF Carries
  <2>. HIDE DEF W
  <2>6. Rising(wire[c], n, client.cursor)'
    BY <1>1, <2>2, <2>4 DEF Carries, Rising
  <2>7. Carries(c, n)'
    BY <1>1, <1>3, <2>2, <2>3, <2>4, <2>5, <2>6 DEF Carries, ToldClosing
  <2>. QED BY <1>4, <2>3, <2>4, <2>7
<1>. QED BY <1>1, <1>3, <1>7, <1>8, <1>9, LoopTurns

\* Cursors and ids are ordered.
LEMMA Ordered == \A a, b, d \in Nat : a <= b => (b < d => a < d) /\ (b <= d => a <= d)
OBVIOUS

\* The rows that go out come after those on the wire.
LEMMA SendRises == ASSUME OverlapInv, NEW c \in Conns, Send(c) PROVE OverlapInv'
<1>1. StreamTypes
  BY DEF OverlapInv
<1>2. /\ loop[c].pc = "send" /\ UNCHANGED <<nextId, rows, delivery, client>>
      /\ loop' \in [Conns -> Serving] /\ wire' \in [Conns -> Seq(EventRow \cup {Timeout})]
      /\ \A d \in Conns : d # c => loop'[d] = loop[d] /\ wire'[d] = wire[d]
      /\ loop'[c].attached = loop[c].attached /\ loop'[c].pc \in {"closed", "sleep"}
  BY <1>1, SendEffect
<1>3. SendsRising(c)'
  BY <1>2 DEF SendsRising
<1>4. CarriesRising(c)'
  <2>. SUFFICES ASSUME Reads(c) PROVE \E n \in 0 .. Len(wire'[c]) : Carries(c, n)'
    BY <1>2 DEF CarriesRising, Reads
  <2>1. loop[c].attached
    BY DEF OverlapInv, Connected, Reads
  <2>2. PICK m \in 0 .. Len(loop[c].batch) :
           /\ m = 0 => loop'[c].cursor = loop[c].cursor
           /\ m # 0 => loop'[c].cursor = loop[c].batch[m].id
           /\ \A i \in 1 .. m : loop[c].batch[i].kind \in Closing => i = m /\ loop'[c].pc = "closed"
           /\ Len(wire'[c]) = Len(wire[c]) + m
           /\ \A i \in 1 .. Len(wire[c]) : wire'[c][i] = wire[c][i]
           /\ \A i \in 1 .. m : wire'[c][Len(wire[c]) + i] = loop[c].batch[i]
    BY <1>1, <2>1, SendEffect
  <2>3. PICK n \in 0 .. Len(wire[c]) : Carries(c, n)
    BY DEF OverlapInv, CarriesRising
  <2>4. /\ Len(wire[c]) \in Nat /\ Len(loop[c].batch) \in Nat /\ client.cursor \in Nat
        /\ loop[c].cursor \in Nat
    BY <1>1, LenProperties DEF StreamTypes, Serving, Reader
  <2>5. n = Len(wire[c]) /\ ~ToldClosing /\ client.cursor <= loop[c].cursor
    BY <1>2, <2>3 DEF Carries
  <2>6. /\ \A i \in 1 .. n : /\ wire[c][i] \in rows /\ client.cursor < wire[c][i].id
                             /\ wire[c][i].id <= loop[c].cursor /\ wire[c][i].kind \notin Closing
        /\ \A i, j \in 1 .. n : i < j => wire[c][i].id < wire[c][j].id
    BY <1>2, <2>3 DEF Carries, Rising
  <2>7. /\ \A i \in 1 .. m : loop[c].batch[i] \in rows /\ loop[c].cursor < loop[c].batch[i].id
        /\ \A i, j \in 1 .. m : i < j => loop[c].batch[i].id < loop[c].batch[j].id
    <3>1. \A i \in 1 .. m : i \in 1 .. Len(loop[c].batch)
      BY <2>4
    <3>. QED BY <1>2, <3>1 DEF OverlapInv, SendsRising, Rising
  <2>8. \A r \in rows : r.id \in Nat
    BY <1>1 DEF StreamTypes, EventRow
  <2>9. \A i \in 1 .. m : loop[c].batch[i].id <= loop'[c].cursor
    <3>. SUFFICES ASSUME NEW i \in 1 .. m PROVE loop[c].batch[i].id <= loop'[c].cursor
      OBVIOUS
    <3>1. m \in 1 .. m /\ m # 0 /\ (i < m \/ i = m)
      BY <2>4
    <3>2. loop[c].batch[i].id \in Nat /\ loop'[c].cursor = loop[c].batch[m].id
      BY <2>2, <2>7, <2>8, <3>1
    <3>3. loop'[c].cursor \in Nat
      BY <2>7, <2>8, <3>1, <3>2
    <3>4. i < m => loop[c].batch[i].id < loop[c].batch[m].id
      BY <2>7, <3>1
    <3>. QED BY <3>1, <3>2, <3>3, <3>4
  <2>10. loop[c].cursor <= loop'[c].cursor /\ loop'[c].cursor \in Nat
    <3>1. CASE m = 0
      BY <2>2, <2>4, <3>1
    <3>2. CASE m # 0
      <4>1. m \in 1 .. m
        BY <2>4, <3>2
      <4>2. loop[c].batch[m].id \in Nat /\ loop[c].cursor < loop[c].batch[m].id
        BY <2>7, <2>8, <4>1
      <4>. QED BY <2>2, <2>4, <3>2, <4>2
    <3>. QED BY <3>1, <3>2
  <2>11. /\ \A i \in 1 .. n : wire[c][i].id <= loop'[c].cursor
         /\ \A i \in 1 .. n, k \in 1 .. m : wire[c][i].id < loop[c].batch[k].id
         /\ \A k \in 1 .. m : client.cursor < loop[c].batch[k].id
    <3>1. \A i \in 1 .. n : wire[c][i].id \in Nat /\ wire[c][i].id <= loop[c].cursor
      BY <2>6, <2>8
    <3>2. \A k \in 1 .. m : loop[c].batch[k].id \in Nat /\ loop[c].cursor < loop[c].batch[k].id
      BY <2>7, <2>8
    <3>3. \A i \in 1 .. n : wire[c][i].id <= loop'[c].cursor
      BY <2>4, <2>10, <3>1, Ordered
    <3>4. loop[c].cursor \in Nat /\ client.cursor \in Nat
      BY <2>4
    <3>5. ASSUME NEW k \in 1 .. m, NEW x \in Nat, x <= loop[c].cursor
          PROVE  x < loop[c].batch[k].id
      <4>1. PICK b \in Nat : b = loop[c].batch[k].id
        BY <3>2
      <4>2. PICK a \in Nat : a = loop[c].cursor
        BY <3>4
      <4>3. x <= a /\ a < b
        BY <3>2, <3>5, <4>1, <4>2
      <4>4. x < b
        BY <4>3
      <4>. QED BY <4>1, <4>4
    <3>6. \A i \in 1 .. n, k \in 1 .. m : wire[c][i].id < loop[c].batch[k].id
      BY <3>1, <3>5
    <3>7. \A k \in 1 .. m : client.cursor < loop[c].batch[k].id
      BY <2>5, <3>4, <3>5, Zenon
    <3>. QED BY <3>3, <3>6, <3>7
  <2>. DEFINE l == n + m
  <2>12. \A i \in 1 .. l : \/ i \in 1 .. n /\ wire'[c][i] = wire[c][i]
                           \/ i - n \in 1 .. m /\ wire'[c][i] = loop[c].batch[i - n]
    <3>. SUFFICES ASSUME NEW i \in 1 .. l, ~(i \in 1 .. n)
                  PROVE  i - n \in 1 .. m /\ wire'[c][i] = loop[c].batch[i - n]
      BY <2>2, <2>5
    <3>1. i - n \in 1 .. m /\ n + (i - n) = i
      BY <2>4
    <3>. QED BY <2>2, <2>5, <3>1
  <2>13. l \in 0 .. Len(wire'[c]) /\ Len(wire'[c]) = l
    BY <2>2, <2>4, <2>5
  <2>14. ASSUME NEW i \in 1 .. l
         PROVE  /\ wire'[c][i] \in rows /\ client.cursor < wire'[c][i].id
                /\ wire'[c][i].id <= loop'[c].cursor
                /\ wire'[c][i].kind \in Closing => i = l /\ loop'[c].pc = "closed"
                /\ \A j \in 1 .. l : i < j => wire'[c][i].id < wire'[c][j].id
    <3>1. CASE i \in 1 .. n /\ wire'[c][i] = wire[c][i]
      <4>1. /\ wire[c][i] \in rows /\ client.cursor < wire[c][i].id
            /\ wire[c][i].id <= loop'[c].cursor /\ wire[c][i].kind \notin Closing
        BY <2>6, <2>11, <3>1
      <4>2. ASSUME NEW j \in 1 .. l, i < j PROVE wire'[c][i].id < wire'[c][j].id
        <5>1. CASE j \in 1 .. n /\ wire'[c][j] = wire[c][j]
          BY <2>6, <3>1, <4>2, <5>1
        <5>2. CASE j - n \in 1 .. m /\ wire'[c][j] = loop[c].batch[j - n]
          BY <2>11, <3>1, <5>2
        <5>. QED BY <2>12, <5>1, <5>2
      <4>. HIDE DEF l
      <4>. QED BY <3>1, <4>1, <4>2
    <3>2. CASE i - n \in 1 .. m /\ wire'[c][i] = loop[c].batch[i - n]
      <4>. DEFINE k == i - n
      <4>1. /\ loop[c].batch[k] \in rows /\ client.cursor < loop[c].batch[k].id
            /\ loop[c].batch[k].id <= loop'[c].cursor
            /\ loop[c].batch[k].kind \in Closing => k = m /\ loop'[c].pc = "closed"
        BY <2>2, <2>7, <2>9, <2>11, <3>2
      <4>2. ASSUME NEW j \in 1 .. l, i < j PROVE wire'[c][i].id < wire'[c][j].id
        <5>1. j - n \in 1 .. m /\ wire'[c][j] = loop[c].batch[j - n] /\ k < j - n
          BY <2>4, <2>12, <3>2, <4>2
        <5>. QED BY <2>7, <3>2, <5>1
      <4>3. k = m => i = l
        BY <2>4, <3>2
      <4>4. wire'[c][i] = loop[c].batch[k]
        BY <3>2
      <4>. HIDE DEF l, k
      <4>. QED BY <4>1, <4>2, <4>3, <4>4
    <3>. QED BY <2>12, <3>1, <3>2
  <2>15. PICK x \in Nat : x = l
    BY <2>4
  <2>. HIDE DEF l
  <2>16. Rising(wire[c], x, client.cursor)'
    BY <1>2, <2>14, <2>15 DEF Rising
  <2>17. client'.cursor <= loop'[c].cursor
    BY <1>2, <2>4, <2>5, <2>10
  <2>18. ~ToldClosing'
    BY <1>2, <2>5 DEF ToldClosing
  <2>19. Carries(c, x)'
    BY <2>13, <2>14, <2>15, <2>16, <2>17, <2>18 DEF Carries
  <2>. QED BY <2>13, <2>15, <2>19
<1>. QED BY <1>2, <1>3, <1>4, LoopTurns

-----------------------------------------------------------------------------
\* A client that comes back finds nothing on the wire, and a loop at its cursor.
LEMMA ConnectRises == ASSUME OverlapInv, Connect PROVE OverlapInv'
<1>1. StreamTypes
  BY DEF OverlapInv
<1>2. PICK n \in Conns : n = client.conn + 1
  BY <1>1, ConnectEffect
<1>3. /\ ~client.reading /\ ~ToldClosing /\ UNCHANGED <<nextId, rows, delivery, wire>>
      /\ client.conn \in Nat /\ loop' \in [Conns -> Serving]
      /\ loop'[n].pc = "poll" /\ loop'[n].attached /\ loop'[n].cursor = client.cursor
      /\ \A d \in Conns : d # n => loop'[d] = loop[d]
      /\ client' \in Reader /\ client'.conn = n /\ client'.reading
      /\ client'.cursor = client.cursor /\ client'.told = client.told
  BY <1>1, <1>2, ConnectEffect
<1>4. wire[n] = <<>> /\ Len(wire[n]) = 0 /\ client.cursor \in Nat
  <2>1. n > client.conn
    BY <1>2, <1>3
  <2>2. wire[n] = <<>>
    BY <2>1 DEF OverlapInv, Connected
  <2>. QED BY <1>1, <2>2, EmptySeq DEF StreamTypes, Reader
<1>5. StreamTypes'
  BY <1>1, <1>3 DEF StreamTypes
<1>6. Numbered'
  BY <1>3 DEF OverlapInv, Numbered, Inserting
<1>7. Connected'
  <2>1. ASSUME NEW d \in Conns, d > n PROVE loop'[d].pc = "off" /\ wire'[d] = <<>>
    <3>1. d > client.conn /\ d # n
      BY <1>2, <1>3, <2>1 DEF Conns
    <3>. QED BY <1>3, <3>1 DEF OverlapInv, Connected
  <2>. QED BY <1>3, <2>1 DEF Connected
<1>8. ToldRising'
  BY <1>3 DEF OverlapInv, ToldRising, Rising
<1>9. ASSUME NEW d \in Conns PROVE SendsRising(d)' /\ CarriesRising(d)'
  <2>1. CASE d = n
    <3>1. SendsRising(d)'
      BY <1>3, <2>1 DEF SendsRising
    <3>2. ~ToldClosing'
      BY <1>3 DEF ToldClosing
    <3>3. Carries(n, 0)'
      BY <1>3, <1>4, <3>2 DEF Carries, Rising
    <3>. QED BY <1>3, <1>4, <2>1, <3>1, <3>3 DEF CarriesRising
  <2>2. CASE d # n
    <3>1. SendsRising(d)'
      BY <1>3, <2>2 DEF OverlapInv, SendsRising, Rising
    <3>. QED BY <1>3, <2>2, <3>1 DEF CarriesRising, Reads
  <2>. QED BY <2>1, <2>2
<1>. QED BY <1>5, <1>6, <1>7, <1>8, <1>9 DEF OverlapInv

\* A client that leaves keeps what it was told, and no wire is read.
LEMMA NobodyReads ==
    ASSUME OverlapInv, UNCHANGED <<nextId, rows, delivery>>,
           client' = [client EXCEPT !.reading = FALSE],
           loop' \in [Conns -> Serving], wire' \in [Conns -> Seq(EventRow \cup {Timeout})],
           \A d \in Conns : /\ loop'[d].pc = loop[d].pc /\ loop'[d].cursor = loop[d].cursor
                            /\ loop'[d].batch = loop[d].batch,
           \A d \in Conns : d > client.conn => wire'[d] = <<>>
    PROVE  OverlapInv'
<1>1. /\ client' \in Reader /\ client'.conn = client.conn /\ ~client'.reading
      /\ client'.cursor = client.cursor /\ client'.told = client.told
  <2>1. client \in Reader
    BY DEF OverlapInv, StreamTypes
  <2>. QED BY <2>1 DEF Reader
<1>2. StreamTypes'
  BY <1>1 DEF OverlapInv, StreamTypes
<1>3. Numbered'
  BY DEF OverlapInv, Numbered, Inserting
<1>4. Connected'
  BY <1>1 DEF OverlapInv, Connected
<1>5. ToldRising'
  BY <1>1 DEF OverlapInv, ToldRising, Rising
<1>6. \A d \in Conns : SendsRising(d)' /\ CarriesRising(d)'
  BY <1>1 DEF OverlapInv, SendsRising, Rising, CarriesRising, Reads
<1>. QED BY <1>2, <1>3, <1>4, <1>5, <1>6 DEF OverlapInv

\* The end of a response.
LEMMA ReadEndRises == ASSUME OverlapInv, ReadEnd PROVE OverlapInv'
<1>1. UNCHANGED <<nextId, rows, delivery, loop, wire>> /\ client' = [client EXCEPT !.reading = FALSE]
  BY DEF ReadEnd
<1>2. loop' \in [Conns -> Serving] /\ wire' \in [Conns -> Seq(EventRow \cup {Timeout})]
  BY <1>1 DEF OverlapInv, StreamTypes
<1>3. \A d \in Conns : d > client.conn => wire'[d] = <<>>
  BY <1>1 DEF OverlapInv, Connected
<1>. QED BY <1>1, <1>2, <1>3, NobodyReads

\* A connection that breaks.
LEMMA DisconnectRises == ASSUME OverlapInv, Disconnect PROVE OverlapInv'
<1>. DEFINE c == client.conn
<1>1. /\ client.reading /\ UNCHANGED <<nextId, rows, delivery>>
      /\ client' = [client EXCEPT !.reading = FALSE]
      /\ loop' = [loop EXCEPT ![c].attached = FALSE] /\ wire' = [wire EXCEPT ![c] = <<>>]
  BY DEF Disconnect
<1>2. c \in Conns
  BY <1>1 DEF OverlapInv, Connected
<1>3. loop \in [Conns -> Serving] /\ wire \in [Conns -> Seq(EventRow \cup {Timeout})]
  BY DEF OverlapInv, StreamTypes
<1>4. <<>> \in Seq(EventRow \cup {Timeout})
  BY EmptySeq
<1>. HIDE DEF c
<1>5. wire' \in [Conns -> Seq(EventRow \cup {Timeout})]
  BY <1>1, <1>2, <1>3, <1>4
<1>6. /\ loop' \in [Conns -> Serving]
      /\ \A d \in Conns : loop'[d].pc = loop[d].pc /\ loop'[d].cursor = loop[d].cursor
                          /\ loop'[d].batch = loop[d].batch
  BY <1>1, <1>2, <1>3 DEF Serving
<1>7. \A d \in Conns : d > c => wire'[d] = <<>>
  BY <1>1, <1>2, <1>3 DEF OverlapInv, Connected, c
<1>. QED BY <1>1, <1>5, <1>6, <1>7, NobodyReads DEF c

\* The client reads the row that comes next, or that the time is over.
LEMMA ReadRises == ASSUME OverlapInv, Read PROVE OverlapInv'
<1>1. StreamTypes /\ client.reading
  BY DEF OverlapInv, Read
<1>2. PICK c \in Conns : c = client.conn
  BY <1>1 DEF OverlapInv, Connected
<1>3. /\ UNCHANGED <<nextId, rows, delivery, loop>>
      /\ wire' \in [Conns -> Seq(EventRow \cup {Timeout})]
      /\ \A d \in Conns : d # c => wire'[d] = wire[d]
      /\ Len(wire[c]) \in Nat /\ Len(wire[c]) >= 1 /\ Len(wire'[c]) = Len(wire[c]) - 1
      /\ \A i \in 1 .. Len(wire[c]) - 1 : wire'[c][i] = wire[c][i + 1]
      /\ wire[c][1] = Timeout => client' = client
      /\ wire[c][1] \in EventRow /\ wire[c][1] # Timeout =>
            /\ client' \in Reader /\ client'.conn = client.conn
            /\ client'.reading = client.reading /\ client'.cursor = wire[c][1].id
            /\ Len(client'.told) = Len(client.told) + 1
            /\ \A i \in 1 .. Len(client.told) : client'.told[i] = client.told[i]
            /\ client'.told[Len(client.told) + 1] = wire[c][1]
  BY <1>1, <1>2, ReadEffect
<1>4. PICK n \in 0 .. Len(wire[c]) : Carries(c, n)
  BY <1>1, <1>2 DEF OverlapInv, CarriesRising, Reads
<1>5. /\ client \in Reader /\ client.cursor \in Nat /\ Len(client.told) \in Nat
      /\ DOMAIN client.told = 1 .. Len(client.told)
  BY <1>1, LenProperties DEF StreamTypes, Reader
<1>6. \A r \in rows : r \in EventRow /\ r.id \in Nat /\ r.id >= 1 /\ r # Timeout
  BY <1>1 DEF OverlapInv, StreamTypes, Numbered, EventRow, Timeout
<1>7. ~ToldClosing
  <2>1. wire[c] # <<>>
    BY <1>3, EmptySeq
  <2>. QED BY <1>4, <2>1 DEF Carries
<1>8. Numbered'
  BY <1>3 DEF OverlapInv, Numbered, Inserting
<1>9. \A d \in Conns : SendsRising(d)'
  BY <1>3 DEF OverlapInv, SendsRising, Rising
<1>10. /\ Rising(wire[c], n, client.cursor)
       /\ \A i \in 1 .. n : /\ wire[c][i].id <= loop[c].cursor
                            /\ wire[c][i].kind \in Closing => i = Len(wire[c]) /\ loop[c].pc = "closed"
       /\ \/ Len(wire[c]) = n
          \/ Len(wire[c]) = n + 1 /\ wire[c][n + 1] = Timeout /\ loop[c].pc = "closed"
  BY <1>4 DEF Carries
<1>11. CASE n = 0
  <2>1. Len(wire[c]) = 1 /\ wire[c][1] = Timeout
    BY <1>3, <1>10, <1>11
  <2>2. client' = client /\ Len(wire'[c]) = 0
    BY <1>3, <2>1
  <2>3. StreamTypes' /\ Connected' /\ ToldRising' /\ ~ToldClosing'
    <3>1. StreamTypes'
      BY <1>1, <1>3, <2>2 DEF StreamTypes
    <3>2. Connected'
      <4>1. \A d \in Conns : d > client.conn => d # c
        BY <1>2 DEF Conns
      <4>. QED BY <1>3, <2>2, <4>1 DEF OverlapInv, Connected
    <3>3. ToldRising'
      BY <1>3, <2>2 DEF OverlapInv, ToldRising, Rising
    <3>. QED BY <1>7, <2>2, <3>1, <3>2, <3>3 DEF ToldClosing
  <2>4. Carries(c, 0)'
    <3>1. client'.cursor <= loop'[c].cursor
      BY <1>3, <1>4, <2>2 DEF Carries
    <3>. QED BY <2>2, <2>3, <3>1 DEF Carries, Rising
  <2>5. \A d \in Conns : CarriesRising(d)'
    BY <1>2, <2>2, <2>4 DEF CarriesRising, Reads
  <2>. QED BY <1>8, <1>9, <2>3, <2>5 DEF OverlapInv
<1>12. CASE n # 0
  <2>. DEFINE e == wire[c][1]
              t == Len(client.told)
  <2>1. 1 \in 1 .. n /\ n \in Nat
    BY <1>3, <1>12
  <2>2. /\ e \in rows /\ e \in EventRow /\ e # Timeout /\ e.id \in Nat
        /\ client.cursor < e.id /\ e.id <= loop[c].cursor
        /\ e.kind \in Closing => 1 = Len(wire[c]) /\ loop[c].pc = "closed"
    BY <1>6, <1>10, <2>1 DEF Rising
  <2>3. /\ client' \in Reader /\ client'.conn = client.conn
        /\ client'.reading = client.reading /\ client'.cursor = e.id
        /\ Len(client'.told) = t + 1
        /\ \A i \in 1 .. t : client'.told[i] = client.told[i]
        /\ client'.told[t + 1] = e
    BY <1>3, <2>2
  <2>4. StreamTypes'
    BY <1>1, <1>3, <2>3 DEF StreamTypes
  <2>5. Connected'
    <3>1. \A d \in Conns : d > client.conn => d # c
      BY <1>2 DEF Conns
    <3>. QED BY <1>3, <2>3, <3>1 DEF OverlapInv, Connected
  <2>6. /\ \A i \in 1 .. t : /\ client.told[i] \in rows /\ 0 < client.told[i].id
                             /\ client.told[i].id <= client.cursor
                             /\ client.told[i].kind \notin Closing
        /\ \A i, j \in 1 .. t : i < j => client.told[i].id < client.told[j].id
    BY <1>5, <1>7 DEF OverlapInv, ToldRising, Rising, ToldClosing
  <2>7. \A i \in 1 .. t : client.told[i].id < e.id /\ client.told[i].id \in Nat
    <3>. SUFFICES ASSUME NEW i \in 1 .. t PROVE client.told[i].id < e.id /\ client.told[i].id \in Nat
      OBVIOUS
    <3>1. client.told[i].id \in Nat /\ client.told[i].id <= client.cursor
      BY <1>6, <2>6
    <3>. QED BY <1>5, <2>2, <3>1
  <2>. HIDE DEF e
  <2>8. \A i \in 1 .. t + 1 : \/ i \in 1 .. t /\ client'.told[i] = client.told[i]
                              \/ i = t + 1 /\ client'.told[i] = e
    BY <1>5, <2>3
  <2>9. ToldRising'
    <3>. SUFFICES ASSUME NEW i \in 1 .. t + 1
                  PROVE  /\ client'.told[i] \in rows /\ 0 < client'.told[i].id
                         /\ client'.told[i].id <= e.id
                         /\ client'.told[i].kind \in Closing => i = t + 1
                         /\ \A j \in 1 .. t + 1 : i < j => client'.told[i].id < client'.told[j].id
      BY <1>3, <2>3 DEF ToldRising, Rising
    <3>1. CASE i \in 1 .. t /\ client'.told[i] = client.told[i]
      <4>1. ASSUME NEW j \in 1 .. t + 1, i < j PROVE client'.told[i].id < client'.told[j].id
        BY <2>6, <2>7, <2>8, <3>1, <4>1
      <4>. QED BY <2>2, <2>6, <2>7, <3>1, <4>1
    <3>2. CASE i = t + 1 /\ client'.told[i] = e
      <4>1. \A j \in 1 .. t + 1 : ~(i < j)
        BY <1>5, <3>2
      <4>2. 0 < e.id /\ e.id <= e.id
        BY <1>5, <2>2
      <4>. QED BY <2>2, <3>2, <4>1, <4>2
    <3>. QED BY <2>8, <3>1, <3>2
  <2>10. PICK k \in Nat : k = n - 1
    BY <1>12, <2>1
  <2>11. \A i \in 1 .. k : i + 1 \in 1 .. n /\ wire'[c][i] = wire[c][i + 1]
    BY <1>3, <1>4, <2>1, <2>10
  <2>12. Rising(wire[c], k, client.cursor)'
    <3>1. ASSUME NEW i \in 1 .. k
          PROVE  /\ wire'[c][i] \in rows /\ e.id < wire'[c][i].id
                 /\ \A j \in 1 .. k : i < j => wire'[c][i].id < wire'[c][j].id
      <4>1. i + 1 \in 1 .. n /\ wire'[c][i] = wire[c][i + 1] /\ 1 < i + 1
        BY <2>10, <2>11
      <4>2. wire[c][i + 1] \in rows /\ e.id < wire[c][i + 1].id
        BY <1>10, <2>1, <4>1 DEF Rising, e
      <4>3. ASSUME NEW j \in 1 .. k, i < j PROVE wire'[c][i].id < wire'[c][j].id
        <5>1. j + 1 \in 1 .. n /\ wire'[c][j] = wire[c][j + 1] /\ i + 1 < j + 1
          BY <2>10, <2>11, <4>3
        <5>. QED BY <1>10, <4>1, <5>1 DEF Rising
      <4>. QED BY <4>1, <4>2, <4>3
    <3>. QED BY <1>3, <2>3, <3>1 DEF Rising
  <2>13. ASSUME NEW i \in 1 .. k
         PROVE  /\ wire'[c][i].id <= loop'[c].cursor
                /\ wire'[c][i].kind \in Closing => i = Len(wire'[c]) /\ loop'[c].pc = "closed"
    <3>1. i + 1 \in 1 .. n /\ wire'[c][i] = wire[c][i + 1]
      BY <2>11
    <3>2. i + 1 = Len(wire[c]) => i = Len(wire'[c])
      BY <1>3, <2>10
    <3>. QED BY <1>3, <1>10, <3>1, <3>2
  <2>14. \/ Len(wire'[c]) = k
         \/ Len(wire'[c]) = k + 1 /\ wire'[c][k + 1] = Timeout /\ loop'[c].pc = "closed"
    <3>1. CASE Len(wire[c]) = n
      BY <1>3, <2>10, <3>1
    <3>2. CASE Len(wire[c]) = n + 1 /\ wire[c][n + 1] = Timeout /\ loop[c].pc = "closed"
      <4>1. k + 1 = n /\ n \in 1 .. Len(wire[c]) - 1 /\ Len(wire'[c]) = n
        BY <1>3, <2>1, <2>10, <3>2
      <4>2. wire'[c][n] = wire[c][n + 1]
        BY <1>3, <4>1
      <4>. QED BY <1>3, <3>2, <4>1, <4>2
    <3>. QED BY <1>10, <3>1, <3>2
  <2>15. ToldClosing' => wire'[c] = <<>> /\ loop'[c].pc = "closed"
    <3>. SUFFICES ASSUME ToldClosing' PROVE wire'[c] = <<>> /\ loop'[c].pc = "closed"
      OBVIOUS
    <3>1. client'.told \in Seq(EventRow)
      BY <2>3 DEF Reader
    <3>2. PICK i \in 1 .. t + 1 : client'.told[i].kind \in Closing
      BY <2>3, <3>1, LenProperties DEF ToldClosing
    <3>3. e.kind \in Closing
      BY <2>6, <2>8, <3>2
    <3>4. Len(wire'[c]) = 0 /\ loop'[c].pc = "closed"
      BY <1>3, <2>2, <3>3
    <3>5. wire'[c] \in Seq(EventRow \cup {Timeout})
      BY <1>3
    <3>. QED BY <3>4, <3>5, EmptySeq
  <2>16. client'.cursor <= loop'[c].cursor
    BY <1>3, <2>2, <2>3
  <2>17. Carries(c, k)'
    BY <2>12, <2>13, <2>14, <2>15, <2>16 DEF Carries
  <2>18. k \in 0 .. Len(wire'[c])
    BY <1>3, <2>1, <2>10
  <2>19. \A d \in Conns : CarriesRising(d)'
    BY <1>2, <2>3, <2>17, <2>18 DEF CarriesRising, Reads
  <2>. QED BY <1>8, <1>9, <2>4, <2>5, <2>9, <2>19 DEF OverlapInv
<1>. QED BY <1>11, <1>12

-----------------------------------------------------------------------------
\* At the start nothing is told, sent or numbered.
LEMMA RisingStart == StreamInit => OverlapInv
<1>. SUFFICES ASSUME StreamInit PROVE OverlapInv
  OBVIOUS
<1>1. StreamTypes /\ Connected
  BY StreamStart DEF StreamInv
<1>2. Numbered
  BY FS_EmptySet DEF StreamInit, Numbered, Inserting
<1>3. Len(client.told) = 0
  BY EmptySeq DEF StreamInit
<1>4. ToldRising
  BY <1>3 DEF ToldRising, Rising
<1>5. \A c \in Conns : SendsRising(c) /\ CarriesRising(c)
  BY DEF StreamInit, SendsRising, CarriesRising, Reads
<1>. QED BY <1>1, <1>2, <1>4, <1>5 DEF OverlapInv

\* Every step keeps it, whether deliveries overlap or not.
LEMMA OverlapInvariant == StreamSpec => []OverlapInv
<1>1. ASSUME OverlapInv, NEW a \in Deliveries, Redeliver(a) \/ Die(a) PROVE OverlapInv'
  <2>1. PICK p \in {"running", "dead"} : delivery' = [delivery EXCEPT ![a].pc = p]
    BY <1>1 DEF Redeliver, Die
  <2>2. UNCHANGED <<nextId, rows, loop, wire, client>>
    BY <1>1 DEF Redeliver, Die
  <2>. QED BY <1>1, <2>1, <2>2, DeliveryTurns
<1>2. ASSUME OverlapInv, StreamNext PROVE OverlapInv'
  BY <1>1, <1>2, InsertTakesNew, CommitAddsOne, SelectRises, SendRises, WakeRises, TimeOutRises,
     ConnectRises, ReadRises, ReadEndRises, DisconnectRises DEF StreamNext, Serve
<1>3. ASSUME OverlapInv, UNCHANGED stream PROVE OverlapInv'
  <2>1. UNCHANGED <<nextId, rows, delivery, loop, wire, client>>
    BY <1>3 DEF stream
  <2>2. Numbered'
    BY <1>3, <2>1 DEF OverlapInv, Numbered, Inserting
  <2>3. nextId' \in Nat \ {0} /\ rows' \subseteq EventRow /\ delivery' \in [Deliveries -> Working]
    BY <1>3, <2>1 DEF OverlapInv, StreamTypes
  <2>. QED BY <1>3, <2>1, <2>2, <2>3, LogGrows
<1>4. OverlapInv /\ [StreamNext]_stream => OverlapInv'
  BY <1>2, <1>3
<1>. QED BY RisingStart, <1>4, PTL DEF StreamSpec

\* What the client was told are rows of the log, in the order of their ids, so none
\* twice, and none after the first that closes the stream.
ReplayIsInOrder ==
    \A i \in DOMAIN client.told :
        /\ client.told[i] \in rows
        /\ \A j \in DOMAIN client.told : i < j => client.told[i].id < client.told[j].id
        /\ client.told[i].kind \in Closing => i = Len(client.told)

\* Also where a delivery that pg-boss gave up on runs on beside its redelivery, and rows
\* commit in another order than their ids: the stream may leave a row out, but it
\* repeats none, turns none around and tells nothing after the verdict that ends it.
THEOREM ReplayStaysInOrder == StreamSpec => []ReplayIsInOrder
<1>1. OverlapInv => ReplayIsInOrder
  <2>. SUFFICES ASSUME OverlapInv PROVE ReplayIsInOrder
    OBVIOUS
  <2>1. DOMAIN client.told = 1 .. Len(client.told)
    BY LenProperties DEF OverlapInv, StreamTypes, Reader
  <2>. QED BY <2>1 DEF OverlapInv, ToldRising, Rising, ReplayIsInOrder
<1>. QED BY <1>1, OverlapInvariant, PTL
=============================================================================
