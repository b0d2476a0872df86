--------------------------------- MODULE Quota ---------------------------------
(***************************************************************************)
(* The rolling-window quota of agent invocations: checkAndConsumeQuota of  *)
(* packages/ai-runtime over agent_invocation_log, as the synchronous route *)
(* POST /api/agent/invoke calls it.  Counting and logging are two awaited  *)
(* statements, a request's `now' is read before both, and the route spends *)
(* the quota before it knows whether the request can be served.            *)
(***************************************************************************)
EXTENDS Integers, FiniteSets

CONSTANTS
    Callers,     \* the requests that can be in flight at once
    Keys,        \* the (principal, kind) partitions
    Limit,       \* quotaPerDay
    Window,      \* WINDOW_MS, in ticks
    Horizon,     \* bound: the last tick of the clock
    MaxCalls,    \* bound: the requests one caller makes
    MaxFaults    \* bound: statements that fail

ASSUME ConstantsOK ==
    /\ IsFiniteSet(Callers)
    /\ Limit \in Nat /\ Window \in Nat /\ Horizon \in Nat
    /\ MaxCalls \in Nat /\ MaxFaults \in Nat

VARIABLES
    clock,       \* Date.now()
    rows,        \* agent_invocation_log; n tells the requests of a caller apart
    call,        \* the request each caller has in flight
    faults       \* statements that failed so far

vars == <<clock, rows, call, faults>>

Never == -1      \* resetAt = null

Time   == 0 .. Horizon
Row    == [by : Callers, n : 1 .. MaxCalls, key : Keys, at : Time]
Answer == {"200", "400", "403", "429", "500"}
PC     == {"idle", "count", "earliest", "log", "resolve", "invoke"} \cup Answer
Call   == [pc : PC, n : 0 .. MaxCalls, key : Keys, now : Time,
           resetAt : {Never} \cup (0 .. Horizon + Window)]

TypeOK ==
    /\ clock \in Time
    /\ rows \subseteq Row
    /\ call \in [Callers -> Call]
    /\ faults \in 0 .. MaxFaults

Init ==
    /\ clock = 0
    /\ rows = {}
    /\ call \in [Callers -> [pc : {"idle"}, n : {0}, key : Keys, now : {0}, resetAt : {Never}]]
    /\ faults = 0

Goto(p, from, to) ==
    call[p].pc = from /\ call' = [call EXCEPT ![p].pc = to]

-----------------------------------------------------------------------------
(* The window.                                                             *)

\* The rows count and earliestIn select: no upper bound, and `since' included.
InWindow(k, now) ==
    {r \in rows : r.key = k /\ r.at >= now - Window}

RowOf(p) == [by |-> p, n |-> call[p].n, key |-> call[p].key, at |-> call[p].now]

-----------------------------------------------------------------------------
(* The route.                                                              *)

Tick ==
    /\ clock < Horizon
    /\ clock' = clock + 1
    /\ UNCHANGED <<rows, call, faults>>

\* A request that passes the session, body and access checks reads the clock.
Arrive(p, k) ==
    /\ call[p].pc \in {"idle"} \cup Answer
    /\ call[p].n < MaxCalls
    /\ call' = [call EXCEPT ![p] = [pc |-> "count", n |-> @.n + 1, key |-> k,
                                    now |-> clock, resetAt |-> Never]]
    /\ UNCHANGED <<clock, rows, faults>>

Count_OffByOne(p) ==           \* mutant: > for >=
    /\ Goto(p, "count", IF Cardinality(InWindow(call[p].key, call[p].now)) > Limit
                        THEN "earliest" ELSE "log")
    /\ UNCHANGED <<clock, rows, faults>>

Count(p) ==
    /\ Goto(p, "count", IF Cardinality(InWindow(call[p].key, call[p].now)) >= Limit
                        THEN "earliest" ELSE "log")
    /\ UNCHANGED <<clock, rows, faults>>

Reject(p, resetAt) ==
    call' = [call EXCEPT ![p] = [pc |-> "429", n |-> @.n, key |-> @.key, now |-> @.now,
                                 resetAt |-> resetAt]]

Earliest_FromNow(p) ==         \* mutant: no query, a whole window from now
    /\ call[p].pc = "earliest"
    /\ Reject(p, call[p].now + Window)
    /\ UNCHANGED <<clock, rows, faults>>

\* earliestIn, then the 429 with its resetAt and Retry-After.
Earliest(p) ==
    /\ call[p].pc = "earliest"
    /\ LET seen == InWindow(call[p].key, call[p].now) IN
       \/ seen = {} /\ Reject(p, Never)
       \/ \E r \in seen : (\A s \in seen : r.at <= s.at) /\ Reject(p, r.at + Window)
    /\ UNCHANGED <<clock, rows, faults>>

Log(p) ==
    /\ Goto(p, "log", "resolve")
    /\ rows' = rows \cup {RowOf(p)}
    /\ UNCHANGED <<clock, faults>>

\* The provider and the plugin registry; then the check of userInstruction.
Resolve(p) ==
    /\ \E to \in {"invoke", "400", "500"} : Goto(p, "resolve", to)
    /\ UNCHANGED <<clock, rows, faults>>

Invoke(p) ==
    /\ \E to \in {"200", "403", "500"} : Goto(p, "invoke", to)
    /\ UNCHANGED <<clock, rows, faults>>

\* A statement outside the try block throws: 500.  The insert may have happened.
StatementFails(p) ==
    /\ faults < MaxFaults /\ faults' = faults + 1
    /\ call[p].pc \in {"count", "earliest", "log"}
    /\ call' = [call EXCEPT ![p].pc = "500"]
    /\ \/ UNCHANGED rows
       \/ call[p].pc = "log" /\ rows' = rows \cup {RowOf(p)}
    /\ UNCHANGED clock

Post(p) == \/ \E k \in Keys : Arrive(p, k)
           \/ Count(p) \/ Earliest(p) \/ Log(p) \/ Resolve(p) \/ Invoke(p)
           \/ StatementFails(p)

Next == Tick \/ \E p \in Callers : Post(p)

Spec == Init /\ [][Next]_vars

-----------------------------------------------------------------------------
(* Properties.                                                             *)

Reset(p) == call[p].pc = "429" /\ call[p].resetAt # Never

\* Nobody spent anything in the partition of p after the `now' of p.
Alone(p) == \A r \in rows : r.key = call[p].key => r.at <= call[p].now

\* What a partition spent from a time on.
Since(k, t) == {r \in rows : r.key = k /\ r.at >= t}

\* The rows of a partition that lie in the window that ends at t.
Burst(k, t) == {r \in rows : r.key = k /\ t - Window <= r.at /\ r.at <= t}

\* checkAndConsumeQuota admits at most Limit invocations per window, plus one
\* for every other request in flight: the race of count and log costs no more
\* than that, however slow the requests and wherever the window starts.
OverAdmissionBounded ==
    \A k \in Keys, t \in Time :
        Cardinality(Burst(k, t)) <= IF Limit = 0 THEN 0 ELSE Limit + Cardinality(Callers) - 1

\* "One alice's citation quota does not affect alice's reviewer quota or bob's
\* citation quota": who is turned away has used up a partition of her own.
RejectionIsEarned ==
    \A p \in Callers :
        call[p].pc = "429" => Cardinality(Since(call[p].key, call[p].now - Window)) >= Limit

\* A 429 costs nothing, and whatever was served has its row, also when a
\* statement failed on the way and the caller tried again.
ServedIsLogged ==
    \A p \in Callers :
        /\ call[p].pc \in {"200", "invoke"}  => RowOf(p) \in rows
        /\ call[p].pc \in {"earliest", "429"} => RowOf(p) \notin rows

\* Unless a race had overdrawn the partition or somebody spends more, the resetAt
\* of a 429 is exact: the last row that stands in the way leaves the window in the
\* tick after it (since is inclusive), so that a later retry is served and an
\* earlier one is not.
ResetIsExact ==
    \A p \in Callers :
        LET seen == Since(call[p].key, call[p].now - Window) IN
        Reset(p) /\ Alone(p) /\ Cardinality(seen) = Limit =>
            /\ Cardinality(Since(call[p].key, call[p].resetAt - Window)) >= Limit
            /\ Cardinality(Since(call[p].key, call[p].resetAt + 1 - Window)) < Limit
=============================================================================
