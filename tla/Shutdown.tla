------------------------------- MODULE Shutdown -------------------------------
(***************************************************************************)
(* The life of a process (main.ts) and its graceful shutdown               *)
(* (graceful-shutdown.ts): the timers start work that awaits, signals      *)
(* arrive, requests are served, and work fails.                            *)
(*                                                                         *)
(* A watcher tick awaits nothing, so it is never in flight when anything   *)
(* else happens; a work is a batch of the outbox, or a tick of the poll    *)
(* scheduler, which is asked to stop between two workflows.                *)
(***************************************************************************)
EXTENDS Integers, FiniteSets

CONSTANTS
    Batches,       \* batches of the outbox that may run at a time
    Polls,         \* ticks of the poll scheduler
    Requests,      \* requests that may be served at a time
    Units,         \* bound: awaits of a work
    GraceMs,       \* SHUTDOWN_GRACE_MS
    MaxSignals,    \* bound: signals
    MaxFailures    \* bound: works that fail

Works == Batches \cup Polls

ASSUME ShutdownAssumption ==
    /\ Batches \cap Polls = {}
    /\ Units \in Nat \ {0} /\ GraceMs \in Nat \ {0}
    /\ MaxSignals \in Nat /\ MaxFailures \in Nat

VARIABLES
    shuttingDown,
    timers,       \* the interval timers are set, and the scheduler not stopped
    left,         \* inFlight: the awaits each work has still before it
    pending,      \* the works in flight when the shutdown began
    waited,       \* how long it has waited for them
    serving,      \* the requests being served
    listening,
    stage,        \* where shutdown is
    result,       \* what it will return
    database,     \* the connection is open
    exit,         \* the exit code, "none" while the process runs
    signals, failures

controlVars == <<shuttingDown, timers, pending, waited, result>>
shutdownVars == <<controlVars, left, serving, listening, stage, database, exit, signals,
          failures>>

Running == {w \in Works : left[w] > 0}

ShutdownTypeOK ==
    /\ shuttingDown \in BOOLEAN /\ timers \in BOOLEAN
    /\ left \in [Works -> 0 .. Units]
    /\ pending \in SUBSET Works
    /\ waited \in 0 .. GraceMs
    /\ serving \in SUBSET Requests
    /\ listening \in BOOLEAN
    /\ stage \in {"up", "waiting", "closing", "draining", "closed"}
    /\ result \in {"completed", "forced"}
    /\ database \in BOOLEAN
    /\ exit \in {"none", "0", "1"}
    /\ signals \in 0 .. MaxSignals
    /\ failures \in 0 .. MaxFailures

ShutdownInit ==
    /\ shuttingDown = FALSE /\ timers = TRUE
    /\ left = [w \in Works |-> 0]
    /\ pending = {}
    /\ waited = 0
    /\ serving = {}
    /\ listening = TRUE
    /\ stage = "up"
    /\ result = "completed"
    /\ database = TRUE
    /\ exit = "none"
    /\ signals = 0
    /\ failures = 0

Alive == exit = "none"

-----------------------------------------------------------------------------
(* Work                                                                    *)

Accepts == timers /\ ~shuttingDown

\* A timer fires; a tick of the scheduler that is still running is joined.
StartWork(w) ==
    /\ Alive /\ Accepts
    /\ left[w] = 0
    /\ \E n \in 1 .. Units : left' = [left EXCEPT ![w] = n]
    /\ UNCHANGED <<controlVars, serving, listening, stage, database, exit, signals,
                   failures>>

\* A stopped scheduler ends its tick at the next workflow.
Rest(w) == IF w \in Polls /\ ~timers THEN 0 ELSE left[w] - 1

\* An await of a work is over.
Advance(w) ==
    /\ Alive
    /\ left[w] > 0
    /\ left' = [left EXCEPT ![w] = Rest(w)]
    /\ UNCHANGED <<controlVars, serving, listening, stage, database, exit, signals,
                   failures>>

\* track derives a promise from the work by finally and drops it: when the work
\* is rejected, so is that one, and Node ends a process for that.
Rejection == "1"

Fail(w) ==
    /\ Alive
    /\ left[w] > 0
    /\ failures < MaxFailures
    /\ failures' = failures + 1
    /\ left' = [left EXCEPT ![w] = 0]
    /\ exit' = Rejection
    /\ UNCHANGED <<controlVars, serving, listening, stage, database, signals>>

StartRequest(r) ==
    /\ Alive /\ listening
    /\ serving' = serving \cup {r}
    /\ UNCHANGED <<controlVars, left, listening, stage, database, exit, signals, failures>>

FinishRequest(r) ==
    /\ Alive
    /\ r \in serving
    /\ serving' = serving \ {r}
    /\ UNCHANGED <<controlVars, left, listening, stage, database, exit, signals, failures>>

-----------------------------------------------------------------------------
(* Shutdown                                                                *)

\* A shutdown that has begun answers "completed", and main exits with 0.
Again == "0"

Signal ==
    /\ Alive
    /\ signals < MaxSignals
    /\ signals' = signals + 1
    /\ IF shuttingDown
       THEN exit' = Again /\ UNCHANGED <<controlVars, stage>>
       ELSE /\ shuttingDown' = TRUE
            /\ timers' = FALSE
            /\ pending' = Running
            /\ stage' = IF Running = {} THEN "closing" ELSE "waiting"
            /\ UNCHANGED <<waited, result, exit>>
    /\ UNCHANGED <<left, serving, listening, database, failures>>

\* Mutant: one of the works is enough (Promise.race instead of allSettled).
SettledAny == \E w \in pending : left[w] = 0

Settled == pending \cap Running = {}

AwaitWork ==
    /\ Alive
    /\ stage = "waiting"
    /\ Settled
    /\ stage' = "closing"
    /\ UNCHANGED <<controlVars, left, serving, listening, database, exit, signals,
                   failures>>

\* Mutant: the grace is never over.
GraceNever == FALSE

GraceOver == waited = GraceMs

ForceExit ==
    /\ Alive
    /\ stage = "waiting"
    /\ GraceOver
    /\ result' = "forced"
    /\ stage' = "closing"
    /\ UNCHANGED <<shuttingDown, timers, pending, waited, left, serving, listening,
                   database, exit, signals, failures>>

\* app.close stops listening and waits for the requests.
CloseHttp ==
    /\ Alive
    /\ stage = "closing"
    /\ listening' = FALSE
    /\ stage' = "draining"
    /\ UNCHANGED <<controlVars, left, serving, database, exit, signals, failures>>

\* sqlite.close, and what follows without yielding: the process exits.
CloseAndExit ==
    /\ Alive
    /\ stage = "draining"
    /\ serving = {}
    /\ database' = FALSE
    /\ stage' = "closed"
    /\ exit' = IF result = "forced" THEN "1" ELSE "0"
    /\ UNCHANGED <<controlVars, left, serving, listening, signals, failures>>

Time ==
    /\ Alive
    /\ stage = "waiting"
    /\ waited < GraceMs
    /\ waited' = waited + 1
    /\ UNCHANGED <<shuttingDown, timers, pending, result, left, serving, listening, stage,
                   database, exit, signals, failures>>

-----------------------------------------------------------------------------

ShutdownStep == AwaitWork \/ ForceExit \/ CloseHttp \/ CloseAndExit

ShutdownNext ==
    \/ \E w \in Works : StartWork(w) \/ Advance(w) \/ Fail(w)
    \/ \E r \in Requests : StartRequest(r) \/ FinishRequest(r)
    \/ Signal
    \/ ShutdownStep
    \/ Time

ShutdownSpec == ShutdownInit /\ [][ShutdownNext]_shutdownVars

\* Time passes, a shutdown goes on, and requests are answered; works need not
\* come to an end.
ShutdownFairness ==
    /\ WF_shutdownVars(Time) /\ WF_shutdownVars(ShutdownStep)
    /\ \A r \in Requests : WF_shutdownVars(FinishRequest(r))

-----------------------------------------------------------------------------
(* Properties                                                              *)

\* An exit that claims to be complete has drained everything: no work was in
\* flight, no request was being answered and the database was closed.
ExitIsClean ==
    exit = "0" => Running = {} /\ serving = {} /\ ~database

\* Work in flight is only cut off by a shutdown after it had the whole grace.
GraceIsGranted == stage \in {"draining", "closed"} /\ Running # {} => waited = GraceMs

\* A signal ends the process, even if the work in flight hangs.
SignalEnds == signals > 0 ~> exit # "none"
=============================================================================
