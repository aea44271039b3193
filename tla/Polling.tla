------------------------------- MODULE Polling -------------------------------
(***************************************************************************)
(* The poll scheduler (run-poll-scheduler.ts) and the polling of one       *)
(* workflow (poll-workflow.ts) against n8n, which answers late, wrongly or *)
(* not at all while other processes poll on the same database.             *)
(*                                                                         *)
(* A tick reads the clock and the rows once, then claims and polls one     *)
(* workflow after the other and awaits n8n in between.  What follows an    *)
(* answer runs without yielding, and so does what follows the answer to a  *)
(* test of a connector; each statement of it is a step of its own because  *)
(* another process may write between any two, and each may be the last.    *)
(***************************************************************************)
EXTENDS Incidents, Outbound, FiniteSets, SequencesExt

CONSTANTS
    Processes,
    Nobody,         \* the owner of a claim left by a dead process, or of none
    Connectors,
    NoConnector,
    ConnectorOf,    \* n8n_connectors.id of each workflow
    Interval,       \* poll_interval_ms
    MaxBackoff,     \* MAX_BACKOFF_MS
    MaxFailures,    \* N8N_POLL_MAX_CONSECUTIVE_FAILURES
    ClaimTtl,       \* N8N_POLL_CLAIM_TTL_MS
    ReadTimeout,    \* the longest wait for an answer of n8n
    PageSize,       \* executions n8n lists at once (50)
    MaxTick,        \* bound: how long a tick may take
    MaxExecutions,  \* bound: executions that finish
    MaxTurns,       \* bound: changes of n8n and the contracts, and tests
    MaxCrashes      \* bound: processes that die within a tick

\* The problem of a workflow is its connector_unavailable.
Workflows == Problems
NoWorkflow == "no workflow"
NoExecution == [id |-> 0, at |-> 0]
NoTask == [step |-> "none", on |-> NoConnector, rest |-> {}, row |-> 0]

ASSUME PollingAssumption ==
    /\ Nobody \notin Processes
    /\ NoWorkflow \notin Workflows /\ NoConnector \notin Connectors
    /\ ConnectorOf \in [Workflows -> Connectors]
    /\ Backoff = 0
    /\ Interval \in Nat \ {0} /\ MaxBackoff \in Nat \ {0}
    /\ MaxFailures \in Nat \ {0}
    /\ ClaimTtl \in Nat \ {0} /\ ReadTimeout \in Nat /\ MaxTick \in Nat
    /\ PageSize \in Nat \ {0}
    /\ MaxExecutions \in Nat /\ MaxTurns \in Nat /\ MaxCrashes \in Nat

\* A finish that old makes every workflow due, even for an old tick.
Old == MaxBackoff + MaxTick

VARIABLES
    condition,   \* how n8n appears to each connector
    finished,    \* the executions of each workflow, in the order they finished
    refused,     \* those whose evidence the contract refuses
    active,      \* the contract is active
    enabled,     \* the connector is active
    health,      \* n8n_connectors.health
    stored,      \* the executions in heartbeat_events, in order of insertion
    checkpoint,  \* n8n_poll_checkpoints
    owner,       \* n8n_poll_claims.claim_owner
    left,        \* time until claim_expires_at (negative: expired for so long)
    idle,        \* time since last_poll_finished_at (Old before the first)
    failures,    \* consecutive_failures
    pc,          \* where each process is
    todo,        \* the workflows its tick has still to poll
    cur,         \* the workflow it polls
    age,         \* time since its tick began
    fired,       \* its timer has fired in this unit of time
    waited,      \* time since it asked n8n
    reply, page, \* the health that was concluded, and the executions listed
    queue,       \* the executions it has still to ingest
    latest,      \* the checkpoint it will save
    outcome,     \* the poll was a success
    task,        \* what it does about the incidents of the connector that answered
    doubt,       \* history: the connectors whose last answer was not seen through alone
    turns,       \* changes and tests, and crashes, so far
    crashes

worldVars == <<condition, finished, refused>>
adminVars == <<active, enabled>>
claimVars == <<owner, left, idle, failures>>
pollVars == <<waited, reply, page, queue, latest, outcome>>
alarmVars == <<incidents, health, task, doubt>>
vars == <<alarmVars, worldVars, adminVars, stored, checkpoint, claimVars, pc,
          todo, cur, age, fired, pollVars, turns, crashes>>

Executions == [id : 1 .. MaxExecutions, at : 1 .. MaxExecutions]
Place == {"idle", "next", "begin", "await", "arrived", "answer", "ingest", "finish"}

\* The statements that are left of an answer: those of a recovery, and those that
\* record an outage.
Recovering == {"own", "recover", "check", "write", "tell"}
Recording == {"record", "insert", "announce"}
Task ==
    [step : {"none"} \cup Recovering \cup Recording, on : Connectors \cup {NoConnector},
     rest : SUBSET Workflows, row : Nat]

TypeOK ==
    /\ incidents \in Seq(Incident)
    /\ condition \in [Connectors -> Appearances]
    /\ finished \in [Workflows -> Seq(Executions)]
    /\ refused \in SUBSET (1 .. MaxExecutions)
    /\ active \in [Workflows -> BOOLEAN]
    /\ enabled \in [Connectors -> BOOLEAN]
    /\ health \in [Connectors -> ConnectorHealth]
    /\ stored \in [Workflows -> Seq(Executions)]
    /\ checkpoint \in [Workflows -> Executions \cup {NoExecution}]
    /\ owner \in [Workflows -> Processes \cup {Nobody}]
    /\ left \in [Workflows -> -(MaxTick + 1) .. ClaimTtl]
    /\ idle \in [Workflows -> 0 .. Old]
    /\ failures \in [Workflows -> 0 .. MaxFailures]
    /\ pc \in [Processes -> Place]
    /\ todo \in [Processes -> SUBSET Workflows]
    /\ cur \in [Processes -> Workflows \cup {NoWorkflow}]
    /\ age \in [Processes -> 0 .. MaxTick]
    /\ fired \in [Processes -> BOOLEAN]
    /\ waited \in [Processes -> 0 .. ReadTimeout]
    /\ reply \in [Processes -> ConnectorHealth]
    /\ page \in [Processes -> SUBSET Executions]
    /\ queue \in [Processes -> SUBSET Executions]
    /\ latest \in [Processes -> Executions \cup {NoExecution}]
    /\ outcome \in [Processes -> BOOLEAN]
    /\ task \in [Processes -> Task]
    /\ doubt \in SUBSET Connectors
    /\ turns \in 0 .. MaxTurns
    /\ crashes \in 0 .. MaxCrashes

Init ==
    /\ incidents = <<>>
    /\ condition \in [Connectors -> Appearances]
    /\ finished = [w \in Workflows |-> <<>>]
    /\ refused = {}
    /\ active = [w \in Workflows |-> TRUE]
    /\ enabled = [c \in Connectors |-> TRUE]
    /\ health = [c \in Connectors |-> "unknown"]
    /\ stored = [w \in Workflows |-> <<>>]
    /\ checkpoint = [w \in Workflows |-> NoExecution]
    /\ owner = [w \in Workflows |-> Nobody]
    /\ left = [w \in Workflows |-> -(MaxTick + 1)]
    /\ idle = [w \in Workflows |-> Old]
    /\ failures = [w \in Workflows |-> 0]
    /\ pc = [p \in Processes |-> "idle"]
    /\ todo = [p \in Processes |-> {}]
    /\ cur = [p \in Processes |-> NoWorkflow]
    /\ age = [p \in Processes |-> 0]
    /\ fired = [p \in Processes |-> FALSE]
    /\ waited = [p \in Processes |-> 0]
    /\ reply = [p \in Processes |-> "unknown"]
    /\ page = [p \in Processes |-> {}]
    /\ queue = [p \in Processes |-> {}]
    /\ latest = [p \in Processes |-> NoExecution]
    /\ outcome = [p \in Processes |-> FALSE]
    /\ task = [p \in Processes |-> NoTask]
    /\ doubt = {}
    /\ turns = 0
    /\ crashes = 0

-----------------------------------------------------------------------------
(* Helpers                                                                 *)

Goto(p, place) == pc' = [pc EXCEPT ![p] = place]

Least(x, y) == IF x < y THEN x ELSE y

\* isDue: min(base * 2^failures, 30 minutes) since the last poll finished; the
\* exponent's own limit of eight is never reached before MaxFailures.
BackoffOf(w) == Least(Interval * 2 ^ failures[w], MaxBackoff)
Due(w) == idle[w] >= BackoffOf(w)

\* shouldSkipPermanently
Stopped(w) == health[ConnectorOf[w]] = "auth_failed" \/ failures[w] >= MaxFailures

\* Mutant: the claim is not looked at.
HeldNever(p, w) == FALSE

\* tryClaimPoll compares the expiry with the instant at which the tick began.
\* The claim of a dead process names an owner that is nobody's any more.
Held(p, w) == owner[w] # p /\ left[w] + age[p] >= 0

\* compareExecutionId and the comparison of finishing times.
Precedes(x, y) == x.at < y.at \/ (x.at = y.at /\ x.id < y.id)

\* The filter of pollWorkflow against the checkpoint.
Unseen(x, c) == c = NoExecution \/ Precedes(c, x)

\* Mutant: only the latest execution is asked for.
PageLatest(w) == IF finished[w] = <<>> THEN {} ELSE {Last(finished[w])}

\* n8n lists the newest executions, by id.
Page(w) ==
    LET all == ToSet(finished[w])
    IN  {x \in all : Cardinality({y \in all : y.id > x.id}) < PageSize}

Free(p) == task[p] = NoTask
Contested(p, c) == \E q \in Processes \ {p} : task[q].on = c

\* The statements of updateConnectorHealth.  An answer that comes while another
\* process still writes what follows from its own leaves the connector in doubt.
WriteHealth(p, c, h) ==
    /\ health' = [health EXCEPT ![c] = h]
    /\ doubt' = IF Contested(p, c) THEN doubt \cup {c} ELSE doubt \ {c}

Begun(step, c, rest) == [step |-> step, on |-> c, rest |-> rest, row |-> 0]
Becomes(p, t) == task' = [task EXCEPT ![p] = t]
Does(p, step) == Becomes(p, [task[p] EXCEPT !.step = step])

\* Mutant: the other workflows of the connector are not thought of.
AffectedNone(c) == {}

\* The workflows that a success of the connector is about.
Affected(c) == {w \in Workflows : ConnectorOf[w] = c}

\* What a process forgets when it leaves a workflow.
ForgetPoll(p) ==
    /\ cur' = [cur EXCEPT ![p] = NoWorkflow]
    /\ waited' = [waited EXCEPT ![p] = 0]
    /\ reply' = [reply EXCEPT ![p] = "unknown"]
    /\ page' = [page EXCEPT ![p] = {}]
    /\ queue' = [queue EXCEPT ![p] = {}]
    /\ latest' = [latest EXCEPT ![p] = NoExecution]
    /\ outcome' = [outcome EXCEPT ![p] = FALSE]

-----------------------------------------------------------------------------
(* A tick                                                                  *)

\* The clock is read and the rows are listed once; the timer finds a tick of its
\* own process still running, or starts one.
StartTick(p) ==
    /\ pc[p] = "idle" /\ Free(p)
    /\ ~fired[p]
    /\ fired' = [fired EXCEPT ![p] = TRUE]
    /\ todo' = [todo EXCEPT ![p] =
                  {w \in Workflows : enabled[ConnectorOf[w]] /\ ~Stopped(w) /\ Due(w)}]
    /\ Goto(p, "next")
    /\ UNCHANGED <<alarmVars, worldVars, adminVars, stored, checkpoint,
                   claimVars, cur, age, pollVars, turns, crashes>>

FinishTick(p) ==
    /\ pc[p] = "next"
    /\ todo[p] = {}
    /\ Goto(p, "idle")
    /\ age' = [age EXCEPT ![p] = 0]
    /\ UNCHANGED <<alarmVars, worldVars, adminVars, stored, checkpoint,
                   claimVars, todo, cur, pollVars, turns, crashes, fired>>

\* tryClaimPoll: the UPDATE repeats the condition of the SELECT.
Claim(p) ==
    /\ pc[p] = "next"
    /\ \E w \in todo[p] :
          /\ todo' = [todo EXCEPT ![p] = @ \ {w}]
          /\ IF Held(p, w) THEN UNCHANGED <<pc, cur, owner, left>>
             ELSE /\ owner' = [owner EXCEPT ![w] = p]
                  /\ left' = [left EXCEPT ![w] = ClaimTtl - age[p]]
                  /\ cur' = [cur EXCEPT ![p] = w]
                  /\ Goto(p, "begin")
    /\ UNCHANGED <<alarmVars, worldVars, adminVars, stored, checkpoint, idle,
                   failures, age, pollVars, turns, crashes, fired>>

\* pollWorkflow looks at the contract and the connector before it asks n8n.
Begin(p) ==
    /\ pc[p] = "begin"
    /\ Goto(p, IF active[cur[p]] /\ enabled[ConnectorOf[cur[p]]]
               THEN "await" ELSE "finish")
    /\ UNCHANGED <<alarmVars, worldVars, adminVars, stored, checkpoint,
                   claimVars, todo, cur, age, pollVars, turns, crashes, fired>>

\* n8n answers; the answer may take its time to arrive.
Answer(p) ==
    /\ pc[p] = "await" /\ Free(p)
    /\ reply' = [reply EXCEPT ![p] = condition[ConnectorOf[cur[p]]].polled]
    /\ page' = [page EXCEPT ![p] = IF reply'[p] = "healthy" THEN Page(cur[p]) ELSE {}]
    /\ Goto(p, "arrived")
    /\ UNCHANGED <<alarmVars, worldVars, adminVars, stored, checkpoint,
                   claimVars, todo, cur, age, waited, queue, latest, outcome, turns,
                   crashes, fired>>

\* The answer sets the health of the connector, and what follows for the incidents
\* is left to do.
Arrive(p) ==
    /\ pc[p] = "arrived" /\ Free(p)
    /\ LET c == ConnectorOf[cur[p]]
       IN  /\ WriteHealth(p, c, reply[p])
           /\ Becomes(p, IF reply[p] = "healthy" THEN Begun("own", c, Affected(c))
                         ELSE Begun("record", c, {cur[p]}))
    /\ Goto(p, "answer")
    /\ UNCHANGED <<incidents, worldVars, adminVars, stored, checkpoint, claimVars, todo,
                   cur, age, pollVars, turns, crashes, fired>>

\* The sort is by the time of finishing; executions of one millisecond stay in the
\* order in which n8n lists them.
Oldest(S) == {x \in S : \A y \in S : x.at <= y.at}

\* Only accepted evidence, new or known, becomes the last one seen.
Latest(p, x) == IF x.id \in refused THEN latest[p] ELSE x

\* ingestPolledEvidence of one execution.
IngestOne(p, w, x) ==
    /\ stored' = IF x.id \in refused \/ x \in ToSet(stored[w]) THEN stored
                 ELSE [stored EXCEPT ![w] = Append(@, x)]
    /\ latest' = [latest EXCEPT ![p] = Latest(p, x)]
    /\ queue' = [queue EXCEPT ![p] = @ \ {x}]
    /\ UNCHANGED pc

\* An inactive contract ends the poll, and nothing is saved.
IngestInactive(p) == Goto(p, "finish") /\ UNCHANGED <<stored, latest, queue>>

Ingest(p) ==
    /\ pc[p] = "ingest"
    /\ \E x \in Oldest(queue[p]) :
          IF active[cur[p]] THEN IngestOne(p, cur[p], x) ELSE IngestInactive(p)
    /\ UNCHANGED <<alarmVars, worldVars, adminVars, checkpoint, claimVars, todo,
                   cur, age, waited, reply, page, outcome, turns, crashes, fired>>

\* upsertCheckpoint, once the page is done.
Save(p) ==
    /\ pc[p] = "ingest"
    /\ queue[p] = {}
    /\ checkpoint' = [checkpoint EXCEPT ![cur[p]] = latest[p]]
    /\ outcome' = [outcome EXCEPT ![p] = TRUE]
    /\ Goto(p, "finish")
    /\ UNCHANGED <<alarmVars, worldVars, adminVars, stored, claimVars, todo, cur,
                   age, waited, reply, page, queue, latest, turns, crashes, fired>>

\* What finishPollClaim writes: the claim expires now, but not before.
Expiry == 0
Failures(p, w) == IF outcome[p] THEN 0 ELSE Least(failures[w] + 1, MaxFailures)

\* finishPollClaim changes the row only if it still names this owner.
Finish(p) ==
    /\ pc[p] = "finish"
    /\ LET w == cur[p]
       IN  IF owner[w] = p
           THEN /\ left' = [left EXCEPT ![w] = Expiry]
                /\ idle' = [idle EXCEPT ![w] = 0]
                /\ failures' = [failures EXCEPT ![w] = Failures(p, w)]
           ELSE UNCHANGED <<left, idle, failures>>
    /\ Goto(p, "next")
    /\ ForgetPoll(p)
    /\ UNCHANGED <<alarmVars, worldVars, adminVars, stored, checkpoint, owner,
                   todo, age, turns, crashes, fired>>

-----------------------------------------------------------------------------
(* What an answer does to the incidents                                    *)

\* The statements about incidents leave the rest of the database alone.
AnswerFrame ==
    UNCHANGED <<health, worldVars, adminVars, stored, checkpoint, claimVars, todo, cur,
                age, waited, reply, page, outcome, turns, crashes, fired>>
PollFrame == AnswerFrame /\ UNCHANGED <<pc, queue, latest>>

\* A statement throws: a poll has failed, a test of the connector as well.
Throws(p) ==
    /\ Becomes(p, NoTask)
    /\ doubt' = doubt \cup {task[p].on}
    /\ pc' = IF pc[p] = "answer" THEN [pc EXCEPT ![p] = "finish"] ELSE pc
    /\ UNCHANGED <<incidents, queue, latest>>

\* The workflow that is looked at next: the polled one comes first, and once again.
Asked(p, w) ==
    \/ task[p].step = "own" /\ w = cur[p]
    \/ task[p].step = "recover" /\ w \in task[p].rest

\* resolveN8nConnectorUnavailableIncidents looks for an unresolved incident.
LookUp(p) ==
    /\ \E w \in Workflows :
          /\ Asked(p, w)
          /\ LET found == Unresolved(incidents, w)
                 remain == IF task[p].step = "own" THEN task[p].rest ELSE task[p].rest \ {w}
             IN  IF found = {}
                 THEN Becomes(p, [task[p] EXCEPT !.step = "recover", !.rest = remain])
                 ELSE \E i \in found :
                        Becomes(p, [task[p] EXCEPT !.step = "check", !.rest = remain, !.row = i])
    /\ UNCHANGED <<incidents, doubt>> /\ PollFrame

\* resolveIncident reads the row again and refuses what is resolved already.
Check(p) ==
    /\ task[p].step = "check"
    /\ IF Resolvable(incidents[task[p].row])
       THEN Does(p, "write") /\ UNCHANGED <<incidents, doubt, pc, queue, latest>>
       ELSE Throws(p)
    /\ AnswerFrame

WriteRecovery(p) ==
    /\ task[p].step = "write"
    /\ incidents' = Resolved(incidents, task[p].row)
    /\ Does(p, "tell")
    /\ UNCHANGED doubt /\ PollFrame

TellRecovery(p) ==
    /\ task[p].step = "tell"
    /\ incidents' = Told(incidents, task[p].row, "resolved")
    /\ Does(p, "recover")
    /\ UNCHANGED doubt /\ PollFrame

\* After the recovery a poll holds the page against the checkpoint; a test is over.
EndRecovery(p) ==
    /\ task[p].step = "recover" /\ task[p].rest = {}
    /\ Becomes(p, NoTask)
    /\ IF pc[p] = "answer"
       THEN LET seen == checkpoint[cur[p]]
            IN  /\ queue' = [queue EXCEPT ![p] = {x \in page[p] : Unseen(x, seen)}]
                /\ latest' = [latest EXCEPT ![p] = seen]
                /\ Goto(p, "ingest")
       ELSE UNCHANGED <<queue, latest, pc>>
    /\ UNCHANGED <<incidents, doubt>> /\ AnswerFrame

\* openOrObserveIncident looks for an unresolved incident of the workflow.
FindOutage(p) ==
    /\ task[p].step = "record"
    /\ \E w \in task[p].rest :
          LET found == Unresolved(incidents, w)
          IN  IF found = {} THEN Does(p, "insert")
              ELSE \E i \in found :
                     Becomes(p, [task[p] EXCEPT !.step = "announce", !.row = i])
    /\ UNCHANGED <<incidents, doubt>> /\ PollFrame

\* Its INSERT; the unique index refuses a second unresolved incident.
InsertOutage(p) ==
    /\ task[p].step = "insert"
    /\ \E w \in task[p].rest :
          IF Unresolved(incidents, w) = {}
          THEN /\ incidents' = Opened(incidents, w)
               /\ Becomes(p, [task[p] EXCEPT !.step = "announce", !.row = Len(incidents) + 1])
               /\ UNCHANGED <<doubt, pc, queue, latest>>
          ELSE Throws(p)
    /\ AnswerFrame

\* The incident is announced, whether it was opened or found; the poll has failed.
AnnounceOutage(p) ==
    /\ task[p].step = "announce" /\ pc[p] = "answer"
    /\ incidents' = Told(incidents, task[p].row, "opened")
    /\ Becomes(p, NoTask)
    /\ Goto(p, "finish")
    /\ UNCHANGED <<doubt, queue, latest>> /\ AnswerFrame

AnswerStep(p) ==
    \/ LookUp(p)     \/ Check(p)        \/ WriteRecovery(p)
    \/ TellRecovery(p) \/ EndRecovery(p)
    \/ FindOutage(p) \/ InsertOutage(p) \/ AnnounceOutage(p)

-----------------------------------------------------------------------------
(* Administration and the world                                            *)

\* POST /connectors/n8n/:id/test, as n8n answers it, in a process that awaits
\* nothing or n8n; a success ends the incidents, a failure opens none.
TestConnector(p, c) ==
    /\ pc[p] \in {"idle", "await", "arrived"} /\ Free(p)
    /\ turns < MaxTurns
    /\ turns' = turns + 1
    /\ WriteHealth(p, c, condition[c].tested)
    /\ IF condition[c].tested = "healthy" THEN Becomes(p, Begun("recover", c, Affected(c)))
       ELSE UNCHANGED task
    /\ UNCHANGED <<incidents, worldVars, adminVars, stored, checkpoint, claimVars, pc, todo,
                   cur, age, pollVars, crashes, fired>>

DisableConnector(c) ==
    /\ enabled[c]
    /\ enabled' = [enabled EXCEPT ![c] = FALSE]
    /\ UNCHANGED <<alarmVars, worldVars, active, stored, checkpoint, claimVars,
                   pc, todo, cur, age, pollVars, turns, crashes, fired>>

\* A contract is paused or activated.
ToggleContract(w) ==
    /\ turns < MaxTurns
    /\ turns' = turns + 1
    /\ active' = [active EXCEPT ![w] = ~@]
    /\ UNCHANGED <<alarmVars, worldVars, enabled, stored, checkpoint, claimVars,
                   pc, todo, cur, age, pollVars, crashes, fired>>

\* n8n comes and goes, and changes its mind about the API key.
Turn(c, to) ==
    /\ turns < MaxTurns
    /\ turns' = turns + 1
    /\ condition[c] # to
    /\ condition' = [condition EXCEPT ![c] = to]
    /\ UNCHANGED <<alarmVars, finished, refused, adminVars, stored, checkpoint,
                   claimVars, pc, todo, cur, age, pollVars, crashes, fired>>

Ids == {x.id : x \in UNION {ToSet(finished[w]) : w \in Workflows}}
LastAt(w) == IF finished[w] = <<>> THEN 0 ELSE Last(finished[w]).at

\* An execution finishes, perhaps one that began before the last to finish,
\* perhaps in the same millisecond, perhaps with evidence the contract refuses.
Execute(w, id, at, bad) ==
    /\ id \notin Ids
    /\ at - LastAt(w) \in {0, 1}
    /\ finished' = [finished EXCEPT ![w] = Append(@, [id |-> id, at |-> at])]
    /\ refused' = IF bad THEN refused \cup {id} ELSE refused
    /\ UNCHANGED <<alarmVars, condition, adminVars, stored, checkpoint, claimVars,
                   pc, todo, cur, age, pollVars, turns, crashes, fired>>

\* A process dies within a tick or a test; its successor may bear the same name.
Crash(p) ==
    /\ pc[p] # "idle" \/ ~Free(p)
    /\ crashes < MaxCrashes
    /\ crashes' = crashes + 1
    /\ \E heir \in {p, Nobody} :
          owner' = [w \in Workflows |-> IF owner[w] = p THEN heir ELSE owner[w]]
    /\ Goto(p, "idle")
    /\ todo' = [todo EXCEPT ![p] = {}]
    /\ age' = [age EXCEPT ![p] = 0]
    /\ ForgetPoll(p)
    /\ Becomes(p, NoTask)
    /\ doubt' = IF Free(p) THEN doubt ELSE doubt \cup {task[p].on}
    /\ UNCHANGED <<incidents, health, worldVars, adminVars, stored, checkpoint, left,
                   idle, failures, turns, fired>>

Waits(p) == pc[p] \in {"await", "arrived"}

\* Time passes while answers are awaited, no longer than they may take; what a
\* process does between two answers takes none.
Time ==
    /\ \A p \in Processes : pc[p] # "idle" =>
          Waits(p) /\ waited[p] < ReadTimeout /\ age[p] < MaxTick
    /\ \A p \in Processes : Free(p)
    /\ left' = [w \in Workflows |-> IF left[w] < -MaxTick THEN left[w] ELSE left[w] - 1]
    /\ idle' = [w \in Workflows |-> Least(idle[w] + 1, Old)]
    /\ age' = [p \in Processes |-> IF Waits(p) THEN age[p] + 1 ELSE age[p]]
    /\ waited' = [p \in Processes |-> IF Waits(p) THEN waited[p] + 1 ELSE waited[p]]
    /\ fired' = [p \in Processes |-> FALSE]
    /\ UNCHANGED <<alarmVars, worldVars, adminVars, stored, checkpoint, owner,
                   failures, pc, todo, cur, reply, page, queue, latest, outcome, turns,
                   crashes>>

-----------------------------------------------------------------------------

Step(p) ==
    \/ StartTick(p) \/ FinishTick(p)
    \/ Claim(p)     \/ Begin(p)
    \/ Answer(p)    \/ Arrive(p)
    \/ Ingest(p)    \/ Save(p)
    \/ Finish(p)    \/ AnswerStep(p)

Next ==
    \/ \E p \in Processes : Step(p) \/ Crash(p)
    \/ \E p \in Processes, c \in Connectors : TestConnector(p, c)
    \/ \E c \in Connectors : DisableConnector(c)
    \/ \E c \in Connectors, to \in Appearances : Turn(c, to)
    \/ \E w \in Workflows : ToggleContract(w)
    \/ \E w \in Workflows, id, at \in 1 .. MaxExecutions, bad \in BOOLEAN :
          Execute(w, id, at, bad)
    \/ Time

Spec == Init /\ [][Next]_vars

-----------------------------------------------------------------------------
(* Properties                                                              *)

Polls(p, w) == cur[p] = w

\* As long as the ticks of both are within the lease, two processes never poll
\* the same workflow, whatever rows their ticks have read.
PollsExclude ==
    \A p, q \in Processes, w \in Workflows :
        /\ p # q
        /\ Polls(p, w) /\ age[p] <= ClaimTtl
        /\ Polls(q, w) /\ age[q] <= ClaimTtl
        => FALSE

Overtaken(x, w) == \E y \in ToSet(stored[w]) : y.at = x.at /\ y.id > x.id

\* No execution that finished before the checkpoint is lost, though polls end
\* anywhere: it is stored, or refused, or was overtaken by a later one of its
\* own millisecond.  What is stored is in the order in which it finished, so that
\* the last report of a workflow is its latest.
NothingLost ==
    \A w \in Workflows :
        /\ \A x \in ToSet(finished[w]) :
              x.at < checkpoint[w].at =>
                  x \in ToSet(stored[w]) \/ x.id \in refused \/ Overtaken(x, w)
        /\ \A i, j \in DOMAIN stored[w] :
              i < j => stored[w][i].at <= stored[w][j].at

\* A connector shown as healthy has no unresolved incident, whichever of its
\* workflows met the outage, once the last answer has been seen through, without
\* another answer of the same connector, an exception or a death in the middle.
HealthyIsQuiet ==
    \A w \in Workflows :
        LET c == ConnectorOf[w]
        IN  /\ health[c] = "healthy" /\ c \notin doubt
            /\ \A p \in Processes : task[p].on # c
            => Unresolved(incidents, w) = {}
=============================================================================
