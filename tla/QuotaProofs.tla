----------------------------- MODULE QuotaProofs -----------------------------
(***************************************************************************)
(* The bound on over-admission of Quota for every finite set of callers,   *)
(* every quota, window, horizon and number of requests.                    *)
(***************************************************************************)
EXTENDS Quota, FiniteSetTheorems, TLAPS

\* The requests that have counted and not yet logged, as the window at t sees them.
Loggers(k, t) == {p \in Callers : /\ call[p].pc = "log" /\ call[p].key = k
                                  /\ t - Window <= call[p].now /\ call[p].now <= t}

Bound == IF Limit = 0 THEN 0 ELSE Limit + Cardinality(Callers) - 1

\* A request that has counted is as good as a row.
Admitted ==
    \A k \in Keys, t \in Time :
        Cardinality(Burst(k, t)) + Cardinality(Loggers(k, t)) <= Bound

\* The rows are of the requests made so far, and those of a request that has
\* not logged are of earlier ones.
Unlogged == {"count", "earliest", "log", "429"}
Fresh ==
    \A r \in rows : /\ r.n <= call[r.by].n
                    /\ call[r.by].pc \in Unlogged => r.n < call[r.by].n

\* A request about to be refused has found its partition used up.
Earned ==
    \A p \in Callers : call[p].pc \in {"earliest", "429"} =>
        Cardinality(Since(call[p].key, call[p].now - Window)) >= Limit

\* A request past its log has its row.
Logged == \A p \in Callers : call[p].pc \in {"resolve", "invoke", "200"} => RowOf(p) \in rows

\* A request in flight is its caller's first, second, ...
Numbered == \A p \in Callers : call[p].pc # "idle" => call[p].n >= 1

IInv == /\ TypeOK /\ IsFiniteSet(rows)
        /\ Numbered /\ Admitted /\ Fresh /\ Earned /\ Logged

-----------------------------------------------------------------------------
\* The number of callers, and that one caller is enough for it to be positive.
LEMMA CallersCount == Cardinality(Callers) \in Nat /\ (Callers # {} => Cardinality(Callers) >= 1)
<1>1. Cardinality(Callers) \in Nat
  BY ConstantsOK, FS_CardinalityType
<1>2. Cardinality(Callers) = 0 <=> Callers = {}
  BY ConstantsOK, FS_EmptySet
<1> QED BY <1>1, <1>2, SMT

\* The window of a request is the rows since its own clock minus the window.
LEMMA SinceWindow == \A k, t : InWindow(k, t) = Since(k, t - Window)
BY DEF InWindow, Since

\* What is counted is finite.
LEMMA FiniteParts ==
    ASSUME IsFiniteSet(rows), NEW k, NEW t
    PROVE  /\ IsFiniteSet(Burst(k, t)) /\ Cardinality(Burst(k, t)) \in Nat
           /\ IsFiniteSet(Since(k, t)) /\ Cardinality(Since(k, t)) \in Nat
           /\ IsFiniteSet(Loggers(k, t)) /\ Cardinality(Loggers(k, t)) \in Nat
<1>1. Burst(k, t) \in SUBSET rows /\ Since(k, t) \in SUBSET rows
  BY DEF Burst, Since
<1>2. Loggers(k, t) \in SUBSET Callers
  BY DEF Loggers
<1>3. IsFiniteSet(Burst(k, t)) /\ IsFiniteSet(Since(k, t)) /\ IsFiniteSet(Loggers(k, t))
  BY <1>1, <1>2, ConstantsOK, FS_Subset
<1> QED BY <1>3, FS_CardinalityType

\* The fields of a request in flight.
LEMMA CallFact ==
    TypeOK => \A p \in Callers :
        /\ call[p] \in Call /\ call[p].key \in Keys /\ call[p].now \in Time
        /\ call[p].n \in 0 .. MaxCalls
        /\ call[p].pc \in PC
BY SMT DEF TypeOK, Call

\* No rows, no requests.
LEMMA InitIInv == Init => IInv
<1> SUFFICES ASSUME Init PROVE IInv
  OBVIOUS
<1>0. \A p \in Callers : /\ call[p].pc = "idle" /\ call[p].n = 0 /\ call[p].now = 0
                         /\ call[p].key \in Keys /\ call[p].resetAt = Never
  BY SMT DEF Init
<1>1. TypeOK
  <2>1. call \in [Callers -> Call]
    <3>1. [pc : {"idle"}, n : {0}, key : Keys, now : {0}, resetAt : {Never}] \subseteq Call
      BY ConstantsOK, SMT DEF Call, PC, Time
    <3> QED BY <3>1, SMT DEF Init
  <2> QED BY <2>1, ConstantsOK, SMT DEF Init, TypeOK, Time
<1>2. rows = {} /\ IsFiniteSet(rows)
  BY FS_EmptySet DEF Init
<1>3. Admitted
  <2> SUFFICES ASSUME NEW k \in Keys, NEW t \in Time
               PROVE  Cardinality(Burst(k, t)) + Cardinality(Loggers(k, t)) <= Bound
    BY DEF Admitted
  <2>1. Burst(k, t) = {} /\ Cardinality(Burst(k, t)) = 0
    BY <1>2, FS_EmptySet DEF Burst
  <2>2. Loggers(k, t) = {} /\ Cardinality(Loggers(k, t)) = 0
    BY <1>0, FS_EmptySet DEF Loggers
  <2>3. Bound >= 0
    BY CallersCount, ConstantsOK, SMT DEF Bound
  <2> QED BY <2>1, <2>2, <2>3, SMT
<1>4. Numbered /\ Fresh /\ Earned /\ Logged
  BY <1>0, <1>2, SMT DEF Numbered, Fresh, Earned, Logged
<1> QED BY <1>1, <1>2, <1>3, <1>4 DEF IInv

-----------------------------------------------------------------------------
(* Admitted, by the three ways a step can touch it.                        *)

\* No row is written and nobody new waits to log.
LEMMA AdmittedKept ==
    ASSUME IInv, rows' = rows,
           \A q \in Callers : call'[q].pc = "log" =>
               call[q].pc = "log" /\ call'[q].key = call[q].key /\ call'[q].now = call[q].now
    PROVE  Admitted'
<1> SUFFICES ASSUME NEW k \in Keys, NEW t \in Time
             PROVE  (Cardinality(Burst(k, t)) + Cardinality(Loggers(k, t)) <= Bound)'
  BY DEF Admitted
<1>1. Burst(k, t)' = Burst(k, t)
  BY DEF Burst
<1>2. Loggers(k, t)' \in SUBSET Loggers(k, t)
  BY SMT DEF Loggers
<1>3. Cardinality(Loggers(k, t)') <= Cardinality(Loggers(k, t))
      /\ Cardinality(Loggers(k, t)') \in Nat
  BY <1>2, FiniteParts, FS_Subset, FS_CardinalityType DEF IInv
<1>4. Bound' = Bound /\ Bound \in Int
  BY CallersCount, ConstantsOK, SMT DEF Bound
<1>5. Cardinality(Burst(k, t)) + Cardinality(Loggers(k, t)) <= Bound
  BY DEF IInv, Admitted
<1> QED BY <1>1, <1>3, <1>4, <1>5, FiniteParts, SMT DEF IInv

\* A request that waited to log logs, or at least writes its row.
LEMMA AdmittedLog ==
    ASSUME IInv, NEW p \in Callers, call[p].pc = "log", rows' = rows \cup {RowOf(p)},
           call'[p].pc # "log", \A q \in Callers \ {p} : call'[q] = call[q]
    PROVE  Admitted' /\ IsFiniteSet(rows')
<1>0. IsFiniteSet(rows')
  BY FS_AddElement DEF IInv
<1>1. ASSUME NEW k \in Keys, NEW t \in Time
      PROVE  (Cardinality(Burst(k, t)) + Cardinality(Loggers(k, t)) <= Bound)'
  <2>1. Bound' = Bound /\ Bound \in Int
    BY CallersCount, ConstantsOK, SMT DEF Bound
  <2>2. Cardinality(Burst(k, t)) + Cardinality(Loggers(k, t)) <= Bound
    BY DEF IInv, Admitted
  <2>3. CASE p \in Loggers(k, t)
    <3>1. Loggers(k, t)' = Loggers(k, t) \ {p}
      BY SMT DEF Loggers
    <3>2. Cardinality(Loggers(k, t)') = Cardinality(Loggers(k, t)) - 1
      BY <2>3, <3>1, FiniteParts, FS_RemoveElement DEF IInv
    <3>3. Burst(k, t)' \in SUBSET (Burst(k, t) \cup {RowOf(p)})
      BY DEF Burst
    <3>4. /\ IsFiniteSet(Burst(k, t) \cup {RowOf(p)})
          /\ Cardinality(Burst(k, t) \cup {RowOf(p)}) <= Cardinality(Burst(k, t)) + 1
      <4>1. IsFiniteSet(Burst(k, t)) /\ Cardinality(Burst(k, t)) \in Nat
        BY FiniteParts DEF IInv
      <4>2. /\ IsFiniteSet(Burst(k, t) \cup {RowOf(p)})
            /\ Cardinality(Burst(k, t) \cup {RowOf(p)}) =
                  IF RowOf(p) \in Burst(k, t) THEN Cardinality(Burst(k, t))
                                             ELSE Cardinality(Burst(k, t)) + 1
        BY <4>1, FS_AddElement
      <4> QED BY <4>1, <4>2, SMT
    <3>5. /\ Cardinality(Burst(k, t)') <= Cardinality(Burst(k, t) \cup {RowOf(p)})
          /\ Cardinality(Burst(k, t)') \in Nat
          /\ Cardinality(Burst(k, t) \cup {RowOf(p)}) \in Nat
      BY <3>3, <3>4, FS_Subset, FS_CardinalityType
    <3> QED BY <2>1, <2>2, <3>2, <3>4, <3>5, FiniteParts, SMT DEF IInv
  <2>4. CASE p \notin Loggers(k, t)
    <3>1. Loggers(k, t)' = Loggers(k, t)
      BY <2>4, SMT DEF Loggers
    <3>2. ~(RowOf(p).key = k /\ t - Window <= RowOf(p).at /\ RowOf(p).at <= t)
      BY <2>4, SMT DEF Loggers, RowOf
    <3>3. Burst(k, t)' = Burst(k, t)
      BY <3>2 DEF Burst
    <3> QED BY <2>1, <2>2, <3>1, <3>3
  <2> QED BY <2>3, <2>4
<1> QED BY <1>0, <1>1 DEF Admitted

\* A request is admitted: it has counted fewer than Limit rows, and whoever logs
\* after that is in flight with it.
LEMMA AdmittedCount ==
    ASSUME IInv, NEW p \in Callers, rows' = rows,
           Cardinality(InWindow(call[p].key, call[p].now)) < Limit,
           call'[p].key = call[p].key, call'[p].now = call[p].now,
           \A q \in Callers \ {p} : call'[q] = call[q]
    PROVE  Admitted'
<1> SUFFICES ASSUME NEW k \in Keys, NEW t \in Time
             PROVE  (Cardinality(Burst(k, t)) + Cardinality(Loggers(k, t)) <= Bound)'
  BY DEF Admitted
<1>1. Burst(k, t)' = Burst(k, t)
  BY DEF Burst
<1>2. Bound' = Bound /\ Bound \in Int
  BY CallersCount, ConstantsOK, SMT DEF Bound
<1>3. CASE p \in Loggers(k, t)'
  <2>1. call[p].key = k /\ t - Window <= call[p].now /\ call[p].now <= t
    BY <1>3 DEF Loggers
  <2>2. call[p].now \in Int /\ t \in Int /\ Window \in Int
    BY CallFact, ConstantsOK, SMT DEF IInv, Time
  <2>3. \A r \in rows : r.at \in Int
    BY ConstantsOK, SMT DEF IInv, TypeOK, Row, Time
  <2>4. Burst(k, t) \in SUBSET Since(k, call[p].now - Window)
    BY <2>1, <2>2, <2>3, SMT DEF Burst, Since
  <2>5. Cardinality(Burst(k, t)) <= Cardinality(Since(k, call[p].now - Window))
    BY <2>4, FiniteParts, FS_Subset DEF IInv
  <2>6. Cardinality(Since(k, call[p].now - Window)) < Limit
    BY <2>1, SinceWindow
  <2>7. Loggers(k, t)' \in SUBSET Callers
    BY DEF Loggers
  <2>8. Cardinality(Loggers(k, t)') <= Cardinality(Callers) /\ Cardinality(Loggers(k, t)') \in Nat
    BY <2>7, ConstantsOK, FS_Subset, FS_CardinalityType
  <2> QED BY <1>1, <1>2, <2>5, <2>6, <2>8, FiniteParts, ConstantsOK, CallersCount, SMT DEF IInv, Bound
<1>4. CASE p \notin Loggers(k, t)'
  <2>1. Loggers(k, t)' \in SUBSET Loggers(k, t)
    BY <1>4, SMT DEF Loggers
  <2>2. Cardinality(Loggers(k, t)') <= Cardinality(Loggers(k, t))
        /\ Cardinality(Loggers(k, t)') \in Nat
    BY <2>1, FiniteParts, FS_Subset, FS_CardinalityType DEF IInv
  <2>3. Cardinality(Burst(k, t)) + Cardinality(Loggers(k, t)) <= Bound
    BY DEF IInv, Admitted
  <2> QED BY <1>1, <1>2, <2>2, <2>3, FiniteParts, SMT DEF IInv
<1> QED BY <1>3, <1>4

-----------------------------------------------------------------------------
(* The other parts, and the actions.                                       *)

\* A step of one request that writes no row.
LEMMA RowlessStep ==
    ASSUME IInv, NEW p \in Callers, NEW new \in Call,
           new.n = call[p].n, new.key = call[p].key, new.now = call[p].now,
           new.pc \notin {"log", "resolve", "idle"}, call[p].pc # "idle",
           new.pc \in Unlogged => call[p].pc \in Unlogged,
           new.pc \in {"invoke", "200"} => call[p].pc \in {"resolve", "invoke"},
           new.pc = "429" => call[p].pc = "earliest",
           new.pc = "earliest" => Cardinality(InWindow(call[p].key, call[p].now)) >= Limit,
           call' = [call EXCEPT ![p] = new],
           UNCHANGED <<clock, rows>>, faults' \in 0 .. MaxFaults
    PROVE  IInv'
<1>1. /\ call'[p] = new /\ \A q \in Callers \ {p} : call'[q] = call[q]
      /\ call \in [Callers -> Call]
  BY SMT DEF IInv, TypeOK
<1>2. TypeOK'
  <2>1. call' \in [Callers -> Call]
    BY <1>1, SMT
  <2> QED BY <2>1, SMT DEF IInv, TypeOK
<1>3. IsFiniteSet(rows') /\ Admitted'
  BY <1>1, AdmittedKept DEF IInv
<1>4. Numbered' /\ Fresh'
  BY <1>1, SMT DEF IInv, Numbered, Fresh, TypeOK, Row
<1>5. Earned'
  <2>1. \A k, t : Since(k, t)' = Since(k, t)
    BY DEF Since
  <2> QED BY <1>1, <2>1, SinceWindow DEF IInv, Earned
<1>6. Logged'
  BY <1>1, SMT DEF IInv, Logged, RowOf
<1> QED BY <1>2, <1>3, <1>4, <1>5, <1>6 DEF IInv

\* The count of a request that is admitted.
LEMMA AdmitStep ==
    ASSUME IInv, NEW p \in Callers, call[p].pc = "count",
           Cardinality(InWindow(call[p].key, call[p].now)) < Limit,
           call' = [call EXCEPT ![p].pc = "log"], UNCHANGED <<clock, rows, faults>>
    PROVE  IInv'
<1>0. /\ call'[p] = [call[p] EXCEPT !.pc = "log"]
      /\ \A q \in Callers \ {p} : call'[q] = call[q]
      /\ call[p] \in Call /\ call \in [Callers -> Call]
  BY SMT DEF IInv, TypeOK
<1>1. /\ call'[p].pc = "log" /\ call'[p].key = call[p].key /\ call'[p].now = call[p].now
      /\ call'[p].n = call[p].n
  BY <1>0, SMT DEF Call
<1>2. TypeOK'
  <2>1. call' \in [Callers -> Call]
    BY <1>0, SMT DEF Call, PC
  <2> QED BY <2>1, SMT DEF IInv, TypeOK
<1>3. IsFiniteSet(rows') /\ Admitted'
  BY <1>0, <1>1, AdmittedCount DEF IInv
<1>4. Numbered' /\ Fresh'
  BY <1>0, <1>1, SMT DEF IInv, Numbered, Fresh, Unlogged, TypeOK, Row
<1>5. Earned' /\ Logged'
  <2>1. \A k, t : Since(k, t)' = Since(k, t)
    BY DEF Since
  <2>2. Earned'
    BY <1>0, <1>1, <2>1 DEF IInv, Earned
  <2>3. Logged'
    BY <1>0, <1>1, SMT DEF IInv, Logged, RowOf
  <2> QED BY <2>2, <2>3
<1> QED BY <1>2, <1>3, <1>4, <1>5 DEF IInv

\* The insert, with or without an answer from the database.
LEMMA LogStep ==
    ASSUME IInv, NEW p \in Callers, call[p].pc = "log", NEW to \in {"resolve", "500"},
           rows' = rows \cup {RowOf(p)}, call' = [call EXCEPT ![p].pc = to],
           UNCHANGED clock, faults' \in 0 .. MaxFaults
    PROVE  IInv'
<1>0. /\ call'[p] = [call[p] EXCEPT !.pc = to]
      /\ \A q \in Callers \ {p} : call'[q] = call[q]
      /\ call[p] \in Call /\ call \in [Callers -> Call]
  BY SMT DEF IInv, TypeOK
<1>1. /\ call'[p].pc = to /\ call'[p].key = call[p].key /\ call'[p].now = call[p].now
      /\ call'[p].n = call[p].n /\ call[p].n \in 1 .. MaxCalls
  BY <1>0, SMT DEF Call, IInv, Numbered
<1>2. TypeOK'
  <2>1. call' \in [Callers -> Call]
    BY <1>0, SMT DEF Call, PC, Answer
  <2>2. RowOf(p) \in Row
    BY <1>0, <1>1, SMT DEF Call, Row, RowOf
  <2> QED BY <2>1, <2>2, SMT DEF IInv, TypeOK
<1>3. IsFiniteSet(rows') /\ Admitted'
  BY <1>0, <1>1, AdmittedLog
<1>4. Numbered' /\ Fresh'
  <2>1. \A r \in rows : r.by \in Callers /\ r.n \in Int
    BY SMT DEF IInv, TypeOK, Row
  <2>2. RowOf(p).by = p /\ RowOf(p).n = call[p].n
    BY DEF RowOf
  <2>3. Numbered'
    BY <1>0, <1>1, SMT DEF IInv, Numbered
  <2> QED BY <1>0, <1>1, <2>1, <2>2, <2>3, SMT DEF IInv, Fresh, Unlogged
<1>5. Earned'
  <2>1. ASSUME NEW k, NEW t, Cardinality(Since(k, t)) >= Limit
        PROVE  Cardinality(Since(k, t)') >= Limit
    <3>1. Since(k, t) \in SUBSET (Since(k, t)') /\ Since(k, t)' \in SUBSET (rows')
      BY DEF Since
    <3>2. IsFiniteSet(Since(k, t)') /\ Cardinality(Since(k, t)) <= Cardinality(Since(k, t)')
      BY <1>3, <3>1, FS_Subset
    <3>3. Cardinality(Since(k, t)) \in Nat /\ Cardinality(Since(k, t)') \in Nat
      BY <3>2, FiniteParts, FS_CardinalityType DEF IInv
    <3> QED BY <2>1, <3>2, <3>3, ConstantsOK, SMT
  <2>2. \A q \in Callers : call'[q].pc \in {"earliest", "429"} => q # p /\ call'[q] = call[q]
    BY <1>0, <1>1
  <2> QED BY <2>1, <2>2 DEF IInv, Earned
<1>6. Logged'
  <2>1. RowOf(p)' = RowOf(p)
    BY <1>1 DEF RowOf
  <2> QED BY <1>0, <1>1, <2>1, SMT DEF IInv, Logged, RowOf
<1> QED BY <1>2, <1>3, <1>4, <1>5, <1>6 DEF IInv

\* A new request of a caller whose last one is answered.
LEMMA ArriveStep == ASSUME IInv, NEW p \in Callers, NEW k \in Keys, Arrive(p, k) PROVE IInv'
<1>0. /\ call'[p] = [pc |-> "count", n |-> call[p].n + 1, key |-> k, now |-> clock,
                     resetAt |-> Never]
      /\ \A q \in Callers \ {p} : call'[q] = call[q]
      /\ call[p] \in Call /\ call \in [Callers -> Call]
      /\ rows' = rows
  BY SMT DEF IInv, TypeOK, Arrive
<1>1. TypeOK'
  <2>1. call'[p] \in Call
    BY <1>0, ConstantsOK, SMT DEF Call, PC, IInv, TypeOK, Arrive
  <2>2. call' = [call EXCEPT ![p] = call'[p]]
    BY <1>0, SMT DEF Arrive
  <2>3. call' \in [Callers -> Call]
    BY <1>0, <2>1, <2>2, SMT
  <2> QED BY <2>3, SMT DEF IInv, TypeOK, Arrive
<1>2. IsFiniteSet(rows') /\ Admitted'
  BY <1>0, AdmittedKept DEF IInv
<1>3. Numbered' /\ Fresh'
  <2>1. \A r \in rows : r.by \in Callers /\ r.n \in Int
    BY SMT DEF IInv, TypeOK, Row
  <2>2. call[p].n \in Nat
    BY <1>0, ConstantsOK, SMT DEF Call
  <2> QED BY <1>0, <2>1, <2>2, SMT DEF IInv, Numbered, Fresh
<1>4. Earned' /\ Logged'
  <2>1. \A s, t : Since(s, t)' = Since(s, t)
    BY <1>0 DEF Since
  <2>2. Earned'
    BY <1>0, <2>1 DEF IInv, Earned
  <2>3. Logged'
    BY <1>0, SMT DEF IInv, Logged, RowOf
  <2> QED BY <2>2, <2>3
<1> QED BY <1>1, <1>2, <1>3, <1>4 DEF IInv

\* A step that moves one request to a place and changes nothing else of it.
LEMMA MoveStep ==
    ASSUME IInv, NEW p \in Callers, NEW to \in PC,
           to \notin {"log", "resolve", "idle", "429"}, call[p].pc # "idle",
           to \in Unlogged => call[p].pc \in Unlogged,
           to \in {"invoke", "200"} => call[p].pc \in {"resolve", "invoke"},
           to = "earliest" => Cardinality(InWindow(call[p].key, call[p].now)) >= Limit,
           call' = [call EXCEPT ![p].pc = to],
           UNCHANGED <<clock, rows>>, faults' \in 0 .. MaxFaults
    PROVE  IInv'
<1> DEFINE new == [call[p] EXCEPT !.pc = to]
<1>1. call[p] \in Call
  BY CallFact DEF IInv
<1>2. /\ new \in Call /\ new.pc = to
      /\ new.n = call[p].n /\ new.key = call[p].key /\ new.now = call[p].now
  BY <1>1, SMT DEF Call
<1>3. call' = [call EXCEPT ![p] = new]
  OBVIOUS
<1> HIDE DEF new
<1> QED BY <1>2, <1>3, RowlessStep

\* Every statement of the invoke route keeps the invariant.
LEMMA PostStep == ASSUME IInv, NEW p \in Callers, Post(p) PROVE IInv'
<1>0. call[p] \in Call /\ faults \in 0 .. MaxFaults
  BY CallFact DEF IInv, TypeOK
<1>1. CASE \E k \in Keys : Arrive(p, k)
  BY <1>1, ArriveStep
<1>2. CASE Count(p)
  <2>1. CASE Cardinality(InWindow(call[p].key, call[p].now)) >= Limit
    <3>1. call' = [call EXCEPT ![p].pc = "earliest"] /\ call[p].pc = "count"
      BY <1>2, <2>1, SMT DEF Count, Goto
    <3>2. "earliest" \in PC /\ "count" \in Unlogged
      BY DEF PC, Unlogged
    <3> QED BY <1>0, <1>2, <2>1, <3>1, <3>2, MoveStep DEF Count
  <2>2. CASE ~(Cardinality(InWindow(call[p].key, call[p].now)) >= Limit)
    <3>1. call' = [call EXCEPT ![p].pc = "log"] /\ call[p].pc = "count"
      BY <1>2, <2>2, SMT DEF Count, Goto
    <3>2. Cardinality(InWindow(call[p].key, call[p].now)) < Limit
      BY <2>2, FiniteParts, SinceWindow, ConstantsOK, SMT DEF IInv
    <3> QED BY <1>2, <3>1, <3>2, AdmitStep DEF Count
  <2> QED BY <2>1, <2>2
<1>3. CASE Earliest(p)
  <2> DEFINE seen == InWindow(call[p].key, call[p].now)
  <2>1. PICK reset \in {Never} \cup (0 .. Horizon + Window) : Reject(p, reset)
    <3>1. \A r \in seen : r.at + Window \in 0 .. Horizon + Window
      <4>1. \A r \in seen : r.at \in Time
        BY SMT DEF InWindow, IInv, TypeOK, Row
      <4> QED BY <4>1, ConstantsOK, SMT DEF Time
    <3> QED BY <1>3, <3>1, SMT DEF Earliest
  <2> DEFINE new == [pc |-> "429", n |-> call[p].n, key |-> call[p].key,
                     now |-> call[p].now, resetAt |-> reset]
  <2>2. /\ new \in Call /\ new.pc = "429"
        /\ new.n = call[p].n /\ new.key = call[p].key /\ new.now = call[p].now
    BY <1>0, SMT DEF Call, PC, Answer
  <2>3. "earliest" \in Unlogged /\ call[p].pc = "earliest"
    BY <1>3 DEF Unlogged, Earliest
  <2>4. call' = [call EXCEPT ![p] = new]
    BY <2>1 DEF Reject
  <2> HIDE DEF new
  <2>5. UNCHANGED <<clock, rows>> /\ faults' \in 0 .. MaxFaults
    BY <1>0, <1>3 DEF Earliest
  <2> QED BY <2>2, <2>3, <2>4, <2>5, RowlessStep
<1>4. CASE Log(p)
  BY <1>0, <1>4, LogStep DEF Log, Goto
<1>5. CASE Resolve(p)
  <2>1. PICK to \in {"invoke", "400", "500"} : Goto(p, "resolve", to)
    BY <1>5 DEF Resolve
  <2>2. to \in PC /\ to \notin Unlogged
    BY DEF PC, Answer, Unlogged
  <2> QED BY <1>0, <1>5, <2>1, <2>2, MoveStep DEF Resolve, Goto
<1>6. CASE Invoke(p)
  <2>1. PICK to \in {"200", "403", "500"} : Goto(p, "invoke", to)
    BY <1>6 DEF Invoke
  <2>2. to \in PC /\ to \notin Unlogged
    BY DEF PC, Answer, Unlogged
  <2> QED BY <1>0, <1>6, <2>1, <2>2, MoveStep DEF Invoke, Goto
<1>7. CASE StatementFails(p)
  <2>1. faults' \in 0 .. MaxFaults
    BY <1>0, <1>7, ConstantsOK, SMT DEF StatementFails
  <2>2. "500" \in PC /\ "500" \notin Unlogged
    BY DEF PC, Answer, Unlogged
  <2>3. CASE rows' = rows
    BY <1>7, <2>1, <2>2, <2>3, MoveStep DEF StatementFails
  <2>4. CASE call[p].pc = "log" /\ rows' = rows \cup {RowOf(p)}
    BY <1>7, <2>1, <2>4, LogStep DEF StatementFails
  <2> QED BY <1>7, <2>3, <2>4 DEF StatementFails
<1> QED BY <1>1, <1>2, <1>3, <1>4, <1>5, <1>6, <1>7 DEF Post

\* So do the clock and a step that changes nothing: no bound mentions the time
\* that has passed.
LEMMA QuietStep == ASSUME IInv, Tick \/ UNCHANGED vars PROVE IInv'
<1>1. UNCHANGED <<rows, call, faults>> /\ clock' \in Time
  BY ConstantsOK, SMT DEF Tick, vars, IInv, TypeOK, Time
<1>2. TypeOK' /\ IsFiniteSet(rows') /\ Numbered' /\ Fresh' /\ Logged'
  BY <1>1 DEF IInv, TypeOK, Numbered, Fresh, Logged, RowOf
<1>3. Admitted' /\ Earned'
  BY <1>1 DEF IInv, Admitted, Burst, Loggers, Bound, Earned, Since
<1> QED BY <1>2, <1>3 DEF IInv

-----------------------------------------------------------------------------
\* The inductive invariant holds of every behaviour.
THEOREM Invariance == Spec => []IInv
<1>1. Init => IInv
  BY InitIInv
<1>2. IInv /\ [Next]_vars => IInv'
  BY PostStep, QuietStep DEF Next
<1> QED BY <1>1, <1>2, PTL DEF Spec

\* Type correctness.
THEOREM TypeCorrect == Spec => []TypeOK
<1>1. IInv => TypeOK
  BY DEF IInv
<1> QED BY <1>1, Invariance, PTL

\* A window never holds more than Limit rows and one for every other request
\* that can be in flight; a quota of zero admits nothing.
THEOREM BoundedOverAdmission == Spec => []OverAdmissionBounded
<1>1. ASSUME IInv PROVE OverAdmissionBounded
  <2> SUFFICES ASSUME NEW k \in Keys, NEW t \in Time
               PROVE  Cardinality(Burst(k, t)) <= Bound
    BY DEF OverAdmissionBounded, Bound
  <2>1. Cardinality(Burst(k, t)) + Cardinality(Loggers(k, t)) <= Bound
    BY <1>1 DEF IInv, Admitted
  <2>2. Bound \in Int
    BY CallersCount, ConstantsOK, SMT DEF Bound
  <2> QED BY <1>1, <2>1, <2>2, FiniteParts, SMT DEF IInv
<1> QED BY <1>1, Invariance, PTL

\* Whoever is turned away has used up a partition of her own.
THEOREM EarnedRejection == Spec => []RejectionIsEarned
<1>1. IInv => RejectionIsEarned
  BY SMT DEF IInv, Earned, RejectionIsEarned
<1> QED BY <1>1, Invariance, PTL

\* A 429 costs nothing, and what was served has its row.
THEOREM ServedAndLogged == Spec => []ServedIsLogged
<1>1. ASSUME IInv PROVE ServedIsLogged
  <2> SUFFICES ASSUME NEW p \in Callers
               PROVE  /\ call[p].pc \in {"200", "invoke"} => RowOf(p) \in rows
                      /\ call[p].pc \in {"earliest", "429"} => RowOf(p) \notin rows
    BY DEF ServedIsLogged
  <2>1. RowOf(p).by = p /\ RowOf(p).n = call[p].n /\ call[p].n \in Int
    BY <1>1, CallFact, ConstantsOK, SMT DEF RowOf, IInv
  <2> QED BY <1>1, <2>1, SMT DEF IInv, Logged, Fresh, Unlogged
<1> QED BY <1>1, Invariance, PTL

-----------------------------------------------------------------------------
(* The reset time.                                                         *)

\* A resetAt is a window after a row that counted against the request, and that row
\* and those not before it use the partition up.
Named(p) ==
    \E r \in rows : /\ r.key = call[p].key /\ r.at >= call[p].now - Window
                    /\ call[p].resetAt = r.at + Window
                    /\ Cardinality(Since(call[p].key, r.at)) >= Limit

ResetsNamed == \A p \in Callers : Reset(p) => Named(p)

\* Rows are only added, so what used a partition up still does.
LEMMA NamedStays ==
    ASSUME IsFiniteSet(rows), IsFiniteSet(rows'), rows \subseteq rows',
           NEW p \in Callers, call'[p] = call[p], Named(p)
    PROVE  Named(p)'
<1>1. PICK r \in rows : /\ r.key = call[p].key /\ r.at >= call[p].now - Window
                        /\ call[p].resetAt = r.at + Window
                        /\ Cardinality(Since(call[p].key, r.at)) >= Limit
  BY DEF Named
<1>2. \A k, t : Cardinality(Since(k, t)) >= Limit => Cardinality(Since(k, t)') >= Limit
  <2> SUFFICES ASSUME NEW k, NEW t, Cardinality(Since(k, t)) >= Limit
               PROVE  Cardinality(Since(k, t)') >= Limit
    OBVIOUS
  <2>1. Since(k, t) \in SUBSET (Since(k, t)') /\ Since(k, t)' \in SUBSET (rows')
    BY DEF Since
  <2>2. IsFiniteSet(Since(k, t)') /\ Cardinality(Since(k, t)) <= Cardinality(Since(k, t)')
    BY <2>1, FS_Subset
  <2>3. Cardinality(Since(k, t)) \in Nat /\ Cardinality(Since(k, t)') \in Nat
    BY <2>2, FiniteParts, FS_CardinalityType
  <2> QED BY <2>2, <2>3, ConstantsOK, SMT
<1>3. r \in rows' /\ Cardinality({s \in rows' : s.key = call[p].key /\ s.at >= r.at}) >= Limit
  BY <1>1, <1>2 DEF Since
<1> QED BY <1>1, <1>3 DEF Named, Since

\* The 429 names the earliest row that counted.
LEMMA EarliestNames ==
    ASSUME IInv, NEW p \in Callers, Earliest(p), Reset(p)' PROVE Named(p)'
<1> DEFINE k    == call[p].key
           now  == call[p].now
           seen == InWindow(k, now)
<1>1. /\ call[p] \in Call /\ call \in [Callers -> Call] /\ call[p].pc = "earliest" /\ rows' = rows
  BY CallFact DEF Earliest, IInv, TypeOK
<1>2. PICK r \in seen : (\A s \in seen : r.at <= s.at) /\ Reject(p, r.at + Window)
  <2>1. ~Reject(p, Never)
    BY <1>1 DEF Reject, Reset
  <2> QED BY <2>1 DEF Earliest
<1>3. call'[p].key = k /\ call'[p].now = now /\ call'[p].resetAt = r.at + Window
  BY <1>1, <1>2 DEF Reject
<1>4. r \in rows /\ r.key = k /\ r.at >= now - Window
  BY <1>2 DEF InWindow
<1>5. Since(k, r.at) = seen
  <2>1. \A s \in rows : s.at \in Int
    BY ConstantsOK, SMT DEF IInv, TypeOK, Row, Time
  <2>2. now \in Int /\ Window \in Int
    BY CallFact, ConstantsOK, SMT DEF IInv, Time
  <2>3. \A s \in rows : (s.key = k /\ s.at >= r.at) <=> (s.key = k /\ s.at >= now - Window)
    BY <1>2, <1>4, <2>1, <2>2, SMT DEF InWindow
  <2> QED BY <2>3 DEF Since, InWindow
<1>6. Cardinality(seen) >= Limit
  BY <1>1, SinceWindow DEF IInv, Earned
<1>7. Cardinality({s \in rows' : s.key = k /\ s.at >= r.at}) >= Limit
  BY <1>1, <1>5, <1>6 DEF Since
<1> HIDE DEF k, now, seen
<1> QED BY <1>1, <1>3, <1>4, <1>7 DEF Named, Since

\* Nobody else's step, and no other step of the request, makes a 429.
LEMMA ResetsStep == ASSUME IInv, ResetsNamed, [Next]_vars, IInv' PROVE ResetsNamed'
<1>1. IsFiniteSet(rows) /\ IsFiniteSet(rows') /\ call \in [Callers -> Call]
  BY DEF IInv, TypeOK
<1>2. CASE Tick \/ UNCHANGED vars
  <2>1. rows' = rows /\ call' = call
    BY <1>2 DEF Tick, vars
  <2> QED BY <1>1, <2>1, NamedStays DEF ResetsNamed, Reset
<1>3. ASSUME NEW p \in Callers, Post(p) PROVE ResetsNamed'
  <2>1. rows \subseteq rows'
    BY <1>3 DEF Post, Arrive, Count, Earliest, Log, Resolve, Invoke, StatementFails
  <2>2. \A q \in Callers \ {p} : call'[q] = call[q]
    BY <1>1, <1>3 DEF Post, Arrive, Count, Earliest, Reject, Log, Resolve, Invoke,
                      StatementFails, Goto
  <2>3. \A q \in Callers \ {p} : Reset(q)' => Named(q)'
    BY <1>1, <2>1, <2>2, NamedStays DEF ResetsNamed, Reset
  <2>4. Reset(p)' => Earliest(p)
    <3>0. \A to : to # "429" /\ call' = [call EXCEPT ![p].pc = to] => ~Reset(p)'
      <4>1. \A to : [call[p] EXCEPT !.pc = to].pc = to
        BY <1>1, Zenon DEF Call
      <4> QED BY <1>1, <4>1 DEF Reset
    <3>1. ASSUME Resolve(p) PROVE ~Reset(p)'
      BY <3>0, <3>1 DEF Resolve, Goto
    <3>2. ASSUME Invoke(p) PROVE ~Reset(p)'
      BY <3>0, <3>2 DEF Invoke, Goto
    <3>3. ASSUME Count(p) \/ Log(p) \/ StatementFails(p) PROVE ~Reset(p)'
      BY <3>0, <3>3 DEF Count, Log, StatementFails, Goto
    <3>4. ASSUME NEW k \in Keys, Arrive(p, k) PROVE ~Reset(p)'
      BY <1>1, <3>4 DEF Arrive, Reset
    <3> QED BY <1>3, <3>1, <3>2, <3>3, <3>4 DEF Post
  <2>5. Reset(p)' => Named(p)'
    BY <2>4, EarliestNames
  <2> QED BY <2>3, <2>5 DEF ResetsNamed
<1> QED BY <1>2, <1>3 DEF Next

\* The resetAt of a 429 is exact, unless a race had overdrawn the partition or somebody
\* spends more: at that time the request would still be refused, a tick later not.
THEOREM ExactReset == Spec => []ResetIsExact
<1>1. Init => ResetsNamed
  BY SMT DEF Init, ResetsNamed, Reset
<1>2. IInv /\ ResetsNamed /\ [Next]_vars /\ IInv' => ResetsNamed'
  BY ResetsStep
<1>3. ASSUME IInv, ResetsNamed PROVE ResetIsExact
  <2> SUFFICES ASSUME NEW p \in Callers, Reset(p),
                      Cardinality(Since(call[p].key, call[p].now - Window)) = Limit
               PROVE  /\ Cardinality(Since(call[p].key, call[p].resetAt - Window)) >= Limit
                      /\ Cardinality(Since(call[p].key, call[p].resetAt + 1 - Window)) < Limit
    BY DEF ResetIsExact
  <2> DEFINE k    == call[p].key
             seen == Since(k, call[p].now - Window)
             late == Since(k, call[p].resetAt + 1 - Window)
  <2>1. PICK r \in rows : /\ r.key = k /\ r.at >= call[p].now - Window
                          /\ call[p].resetAt = r.at + Window
                          /\ Cardinality(Since(k, r.at)) >= Limit
    BY <1>3 DEF ResetsNamed, Named
  <2>2. /\ \A s \in rows : s.at \in Int
        /\ call[p].now \in Int /\ Window \in Int
    BY <1>3, CallFact, ConstantsOK, SMT DEF IInv, TypeOK, Row, Time
  <2>3. call[p].resetAt - Window = r.at
    BY <2>1, <2>2, SMT
  <2>4. r \in seen /\ IsFiniteSet(seen)
    BY <1>3, <2>1, FiniteParts DEF IInv, Since
  <2>5. late \in SUBSET (seen \ {r})
    BY <2>1, <2>2, SMT DEF Since
  <2> HIDE DEF seen, late
  <2>6. IsFiniteSet(seen \ {r}) /\ Cardinality(seen \ {r}) = Cardinality(seen) - 1
    BY <2>4, FS_RemoveElement
  <2>7. Cardinality(late) <= Cardinality(seen \ {r}) /\ IsFiniteSet(late)
    BY <2>5, <2>6, FS_Subset
  <2>8. Cardinality(late) < Limit
    <3>1. Cardinality(seen) = Limit
      BY DEF seen
    <3>2. Cardinality(late) \in Nat
      BY <2>7, FS_CardinalityType
    <3> QED BY <2>6, <2>7, <3>1, <3>2, ConstantsOK, SMT
  <2> QED BY <2>1, <2>3, <2>8 DEF late
<1> QED BY <1>1, <1>2, <1>3, Invariance, PTL DEF Spec
=============================================================================
