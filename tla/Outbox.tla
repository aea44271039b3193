------------------------------- MODULE Outbox -------------------------------
(***************************************************************************)
(* The durable notification outbox (process-outbox.ts and the outbox half  *)
(* of sqlite-alerting-repositories.ts).                                    *)
(*                                                                         *)
(* Rows are claimed in batches for a time-limited lease, then delivered    *)
(* one after the other: each delivery awaits a remote endpoint, so several *)
(* invocations of processBatch (overlapping timer ticks, the "test         *)
(* channel" request, another process on the same database) interleave at   *)
(* every await and may outlive their lease.  A worker is one such          *)
(* invocation.                                                             *)
(*                                                                         *)
(* Time is discrete.  Instants stored by the code (available_at,           *)
(* claim_expires_at) appear as the time left until them, which keeps the   *)
(* state finite without bounding the run.                                  *)
(***************************************************************************)
EXTENDS Integers, Sequences

CONSTANTS
    Workers,            \* concurrent invocations of processBatch
    Alerts,             \* outbox rows that announce an incident
    Tests,              \* outbox rows of event type channel_test
    Incidents,
    WorkflowIncidents,  \* the incidents whose workflow_id is not null
    Channels,
    IncidentOf,         \* the incident an alert row announces
    NoChannel,
    MaxAttempts,        \* OUTBOX_MAX_ATTEMPTS
    RetryBase,          \* OUTBOX_RETRY_BASE_MS
    ClaimTtl,           \* OUTBOX_CLAIM_TTL_MS
    DeliveryTimeout,    \* ALERT_DELIVERY_TIMEOUT_MS
    BatchLimit,         \* rows one batch may claim
    MaxAge,             \* bound: older due rows are equally old
    MaxCrashes          \* bound: invocations that die half way

Rows == Alerts \cup Tests

ASSUME OutboxAssumption ==
    /\ Alerts \cap Tests = {}
    /\ WorkflowIncidents \subseteq Incidents
    /\ IncidentOf \in [Alerts -> Incidents]
    /\ NoChannel \notin Channels
    /\ MaxAttempts \in Nat \ {0}
    /\ RetryBase \in Nat \ {0}
    /\ ClaimTtl \in Nat \ {0}
    /\ DeliveryTimeout \in Nat \ {0}
    /\ BatchLimit \in Nat \ {0}
    /\ MaxAge \in Nat
    /\ MaxCrashes \in Nat

VARIABLES
    status,        \* per row: absent, pending, or how it was first settled
    availIn,       \* time until available_at (negative: due for so long)
    lease,         \* time until claim_expires_at, NoLease when null or past
    attempts,      \* attempt_count
    active,        \* alert_channels.is_active
    readable,      \* the channel's config decrypts under the current key
    health,        \* alert_channel_states.current_health
    routes,        \* contract_alert_channels of the incident's workflow
    named,         \* the channel a test row names, NoChannel if it is not there
    notified,      \* incidents with last_notified_at set
    sentLog,       \* notification_attempts with status sent
    failureOpen,   \* an unresolved alert_delivery_failure incident exists
    pc,            \* where each invocation is
    candidates,    \* rows it selected and has not tried to claim yet
    batch,         \* rows it claimed and has not finished; the head is current
    claimLeft,     \* time left on the lease it took
    snapshot,      \* attempt_count as read when the current row began
    todo,          \* routes of the current row still to try
    target,        \* the channel it awaits
    waitLeft,      \* time until that delivery times out
    answer,        \* what the delivery returned
    results,       \* statuses seen in this pass (anySuccess, anyFailure)
    received,      \* history: rows a remote endpoint has received
    passes,        \* history: unsuccessful passes over an alert row, saturating
    crashes

rowVars     == <<status, availIn, lease, attempts>>
channelVars == <<active, readable, health, routes, named>>
passVars    == <<snapshot, todo, target, waitLeft, answer, results>>
workerVars  == <<pc, candidates, batch, claimLeft, passVars>>
vars == <<rowVars, channelVars, notified, sentLog, failureOpen, workerVars,
          received, passes, crashes>>

NoLease == -1
Health == {"unknown", "healthy", "degraded", "failing"}
Outcome == {"sent", "failed"}
Settled == {"delivered", "dropped", "exhausted", "tested"}
Synchronous == {"claiming", "item", "routes", "record", "giveUp"}

TypeOK ==
    /\ status \in [Rows -> {"absent", "pending"} \cup Settled]
    /\ availIn \in [Rows -> Int]
    /\ lease \in [Rows -> NoLease .. ClaimTtl]
    /\ attempts \in [Rows -> Nat]
    /\ active \in [Channels -> BOOLEAN]
    /\ readable \in [Channels -> BOOLEAN]
    /\ health \in [Channels -> Health]
    /\ routes \in [Incidents -> SUBSET Channels]
    /\ named \in [Tests -> Channels \cup {NoChannel}]
    /\ notified \subseteq Incidents
    /\ sentLog \subseteq Rows \X Channels
    /\ failureOpen \in BOOLEAN
    /\ pc \in [Workers -> {"idle", "awaiting"} \cup Synchronous]
    /\ candidates \in [Workers -> Seq(Rows)]
    /\ batch \in [Workers -> Seq(Rows)]
    /\ claimLeft \in [Workers -> NoLease .. ClaimTtl]
    /\ snapshot \in [Workers -> Nat]
    /\ todo \in [Workers -> SUBSET Channels]
    /\ target \in [Workers -> Channels \cup {NoChannel}]
    /\ waitLeft \in [Workers -> 0 .. DeliveryTimeout]
    /\ answer \in [Workers -> Outcome]
    /\ results \in [Workers -> SUBSET Outcome]
    /\ received \subseteq Rows \X Channels
    /\ passes \in [Alerts -> 0 .. MaxAttempts + 1]
    /\ crashes \in 0 .. MaxCrashes

Init ==
    /\ status = [r \in Rows |-> "absent"]
    /\ availIn = [r \in Rows |-> 0]
    /\ lease = [r \in Rows |-> NoLease]
    /\ attempts = [r \in Rows |-> 0]
    /\ active = [c \in Channels |-> TRUE]
    /\ readable \in [Channels -> BOOLEAN]
    /\ health = [c \in Channels |-> "unknown"]
    /\ routes \in [Incidents -> SUBSET Channels]
    /\ named \in [Tests -> Channels \cup {NoChannel}]
    /\ notified = {}
    /\ sentLog = {}
    /\ failureOpen = FALSE
    /\ pc = [w \in Workers |-> "idle"]
    /\ candidates = [w \in Workers |-> <<>>]
    /\ batch = [w \in Workers |-> <<>>]
    /\ claimLeft = [w \in Workers |-> NoLease]
    /\ snapshot = [w \in Workers |-> 0]
    /\ todo = [w \in Workers |-> {}]
    /\ target = [w \in Workers |-> NoChannel]
    /\ waitLeft = [w \in Workers |-> 0]
    /\ answer = [w \in Workers |-> "failed"]
    /\ results = [w \in Workers |-> {}]
    /\ received = {}
    /\ passes = [a \in Alerts |-> 0]
    /\ crashes = 0

-----------------------------------------------------------------------------
(* Helpers                                                                 *)

Processed(r) == status[r] \in Settled
Current(w) == Head(batch[w])

\* Mutant: one half of the WHERE clause forgotten.
ClaimableWhileLeased(r) == status[r] = "pending"

\* processed_at IS NULL AND (claim_expires_at IS NULL OR < now)
Claimable(r) == status[r] = "pending" /\ lease[r] = NoLease

\* The rows the SELECT of claimOutboxBatch considers.
Due == {r \in Rows : Claimable(r) /\ availIn[r] <= 0}

\* ORDER BY available_at LIMIT BatchLimit over the due rows.
IsSelection(s, n) ==
    /\ s \in [1 .. n -> Due]
    /\ \A i, j \in 1 .. n : i < j => /\ s[i] # s[j]
                                     /\ availIn[s[i]] <= availIn[s[j]]
    /\ \A r \in Due : \/ \E i \in 1 .. n : s[i] = r
                      \/ n = BatchLimit /\ availIn[s[n]] <= availIn[r]

\* markOutboxProcessed: unconditional, it also drops whatever lease there is.
\* The status remembers only how the row was settled first.
MarkProcessed(r, how) ==
    /\ status' = [status EXCEPT ![r] = IF @ = "pending" THEN how ELSE @]
    /\ lease' = [lease EXCEPT ![r] = NoLease]
    /\ UNCHANGED <<availIn, attempts>>

\* Mutants: the retry also clears processed_at; attempt_count is not stored.
ScheduleRetryReopening(r, attempt) ==
    /\ availIn' = [availIn EXCEPT ![r] = RetryBase * attempt]
    /\ attempts' = [attempts EXCEPT ![r] = attempt]
    /\ lease' = [lease EXCEPT ![r] = NoLease]
    /\ status' = [status EXCEPT ![r] = "pending"]
ScheduleRetryUncounted(r, attempt) ==
    /\ availIn' = [availIn EXCEPT ![r] = RetryBase * attempt]
    /\ lease' = [lease EXCEPT ![r] = NoLease]
    /\ UNCHANGED <<status, attempts>>

\* scheduleOutboxRetry: unconditional, whoever holds the row by now.
ScheduleRetry(r, attempt) ==
    /\ availIn' = [availIn EXCEPT ![r] = RetryBase * attempt]
    /\ attempts' = [attempts EXCEPT ![r] = attempt]
    /\ lease' = [lease EXCEPT ![r] = NoLease]
    /\ UNCHANGED status

\* The worker is done with its current row.
Advance(w) ==
    /\ batch' = [batch EXCEPT ![w] = Tail(@)]
    /\ pc' = [pc EXCEPT ![w] = IF Len(batch[w]) = 1 THEN "idle" ELSE "item"]
    /\ snapshot' = [snapshot EXCEPT ![w] = 0]
    /\ todo' = [todo EXCEPT ![w] = {}]
    /\ target' = [target EXCEPT ![w] = NoChannel]
    /\ waitLeft' = [waitLeft EXCEPT ![w] = 0]
    /\ answer' = [answer EXCEPT ![w] = "failed"]
    /\ results' = [results EXCEPT ![w] = {}]
    /\ UNCHANGED <<candidates, claimLeft>>

\* nextAlertChannelHealth
HealthAfter(outcome, retriesRemaining) ==
    IF outcome = "sent" THEN "healthy"
    ELSE IF retriesRemaining THEN "degraded" ELSE "failing"

\* recordNotificationAttempt and applyChannelDeliveryResult.  Nothing reads a
\* failed attempt back, so only the successful ones are kept.
RecordAttempt(r, c, outcome, retriesRemaining) ==
    /\ sentLog' = IF outcome = "sent" THEN sentLog \cup {<<r, c>>} ELSE sentLog
    /\ health' = [health EXCEPT ![c] = HealthAfter(outcome, retriesRemaining)]
    /\ UNCHANGED <<active, readable, routes, named>>

\* Mutant: the limit compared one off.
RetriesRemainOneLess(w) == snapshot[w] + 2 < MaxAttempts

\* attempt_count + 1 < maxAttempts, from the value read before the awaits
RetriesRemain(w) == snapshot[w] + 1 < MaxAttempts

CountPass(a) ==
    passes' = [passes EXCEPT ![a] = IF @ > MaxAttempts THEN @ ELSE @ + 1]

-----------------------------------------------------------------------------
(* Producers and administration                                            *)

\* enqueueOutbox: available at once, unclaimed, no attempt made.
Enqueue(r) ==
    /\ status[r] = "absent"
    /\ status' = [status EXCEPT ![r] = "pending"]
    /\ availIn' = [availIn EXCEPT ![r] = 0]
    /\ lease' = [lease EXCEPT ![r] = NoLease]
    /\ attempts' = [attempts EXCEPT ![r] = 0]
    /\ UNCHANGED <<channelVars, notified, sentLog, failureOpen, workerVars,
                   received, passes, crashes>>

\* disableAlertChannel: nothing turns a channel on again.
DisableChannel(c) ==
    /\ active[c]
    /\ active' = [active EXCEPT ![c] = FALSE]
    /\ UNCHANGED <<rowVars, readable, health, routes, named, notified, sentLog,
                   failureOpen, workerVars, received, passes, crashes>>

\* removeWorkflow deletes the routes of its contracts.
RemoveRoutes(i) ==
    /\ routes[i] # {}
    /\ routes' = [routes EXCEPT ![i] = {}]
    /\ UNCHANGED <<rowVars, active, readable, health, named, notified, sentLog,
                   failureOpen, workerVars, received, passes, crashes>>

\* An administrator resolves the alert_delivery_failure incident.
ResolveFailure ==
    /\ failureOpen
    /\ failureOpen' = FALSE
    /\ UNCHANGED <<rowVars, channelVars, notified, sentLog, workerVars, received,
                   passes, crashes>>

-----------------------------------------------------------------------------
(* claimOutboxBatch                                                        *)

\* The SELECT.
SelectBatch(w) ==
    /\ pc[w] = "idle"
    /\ \E n \in 1 .. BatchLimit : \E s \in [1 .. n -> Due] :
          /\ IsSelection(s, n)
          /\ candidates' = [candidates EXCEPT ![w] = s]
    /\ pc' = [pc EXCEPT ![w] = "claiming"]
    /\ batch' = [batch EXCEPT ![w] = <<>>]
    /\ claimLeft' = [claimLeft EXCEPT ![w] = ClaimTtl]
    /\ UNCHANGED <<rowVars, channelVars, notified, sentLog, failureOpen, passVars,
                   received, passes, crashes>>

\* One conditional UPDATE per selected row; another process may have taken
\* or settled the row since the SELECT.  available_at is not looked at again.
ClaimRow(w) ==
    /\ pc[w] = "claiming"
    /\ LET r == Head(candidates[w])
           mine == IF Claimable(r) THEN Append(batch[w], r) ELSE batch[w]
       IN  /\ lease' = [lease EXCEPT
                          ![r] = IF Claimable(r) THEN ClaimTtl ELSE @]
           /\ batch' = [batch EXCEPT ![w] = mine]
           /\ pc' = [pc EXCEPT ![w] =
                       IF Len(candidates[w]) > 1 THEN "claiming"
                       ELSE IF mine = <<>> THEN "idle" ELSE "item"]
    /\ candidates' = [candidates EXCEPT ![w] = Tail(@)]
    /\ UNCHANGED <<status, availIn, attempts, channelVars, notified, sentLog,
                   failureOpen, claimLeft, passVars, received, passes, crashes>>

-----------------------------------------------------------------------------
(* processOne, up to the first await                                       *)

\* The row was settled by someone else meanwhile.
SkipProcessed(w) ==
    /\ pc[w] = "item"
    /\ Processed(Current(w))
    /\ Advance(w)
    /\ UNCHANGED <<rowVars, channelVars, notified, sentLog, failureOpen, received,
                   passes, crashes>>

\* No workflow behind the incident, or no route: settled without a delivery.
DropUndeliverable(w) ==
    /\ pc[w] = "item"
    /\ ~Processed(Current(w))
    /\ Current(w) \in Alerts
    /\ LET i == IncidentOf[Current(w)]
       IN  i \notin WorkflowIncidents \/ routes[i] = {}
    /\ MarkProcessed(Current(w), "dropped")
    /\ Advance(w)
    /\ UNCHANGED <<channelVars, notified, sentLog, failureOpen, received, passes,
                   crashes>>

\* The pass begins: attempt_count and the routes are read once, here.
BeginAlert(w) ==
    /\ pc[w] = "item"
    /\ ~Processed(Current(w))
    /\ Current(w) \in Alerts
    /\ IncidentOf[Current(w)] \in WorkflowIncidents
    /\ routes[IncidentOf[Current(w)]] # {}
    /\ pc' = [pc EXCEPT ![w] = "routes"]
    /\ snapshot' = [snapshot EXCEPT ![w] = attempts[Current(w)]]
    /\ todo' = [todo EXCEPT ![w] = routes[IncidentOf[Current(w)]]]
    /\ results' = [results EXCEPT ![w] = {}]
    /\ UNCHANGED <<rowVars, channelVars, notified, sentLog, failureOpen,
                   candidates, batch, claimLeft, target, waitLeft, answer,
                   received, passes, crashes>>

\* The worker starts a delivery to c and yields.
Await(w, c) ==
    /\ pc' = [pc EXCEPT ![w] = "awaiting"]
    /\ target' = [target EXCEPT ![w] = c]
    /\ waitLeft' = [waitLeft EXCEPT ![w] = DeliveryTimeout]

\* processChannelTest of a row that names no channel, or none that is there.
TestUnaddressed(w) ==
    /\ pc[w] = "item"
    /\ ~Processed(Current(w))
    /\ Current(w) \in Tests
    /\ named[Current(w)] = NoChannel
    /\ MarkProcessed(Current(w), "tested")
    /\ Advance(w)
    /\ UNCHANGED <<channelVars, notified, sentLog, failureOpen, received, passes,
                   crashes>>

\* Or of a channel whose config does not decrypt.
TestUnreadable(w) ==
    /\ pc[w] = "item"
    /\ ~Processed(Current(w))
    /\ Current(w) \in Tests
    /\ named[Current(w)] # NoChannel
    /\ ~readable[named[Current(w)]]
    /\ health' = [health EXCEPT ![named[Current(w)]] = "failing"]
    /\ MarkProcessed(Current(w), "tested")
    /\ Advance(w)
    /\ UNCHANGED <<active, readable, routes, named, notified, sentLog, failureOpen,
                   received, passes, crashes>>

\* A test is sent even when the channel has been disabled.
BeginTest(w) ==
    /\ pc[w] = "item"
    /\ ~Processed(Current(w))
    /\ Current(w) \in Tests
    /\ named[Current(w)] # NoChannel
    /\ readable[named[Current(w)]]
    /\ Await(w, named[Current(w)])
    /\ UNCHANGED <<rowVars, channelVars, notified, sentLog, failureOpen,
                   candidates, batch, claimLeft, snapshot, todo, answer,
                   results, received, passes, crashes>>

-----------------------------------------------------------------------------
(* The loop over the routes of an alert                                    *)

SkipInactive(w) ==
    /\ pc[w] = "routes"
    /\ \E c \in todo[w] : /\ ~active[c]
                          /\ todo' = [todo EXCEPT ![w] = @ \ {c}]
    /\ UNCHANGED <<rowVars, channelVars, notified, sentLog, failureOpen, pc,
                   candidates, batch, claimLeft, snapshot, target, waitLeft,
                   answer, results, received, passes, crashes>>

FailUnreadable(w) ==
    /\ pc[w] = "routes"
    /\ \E c \in todo[w] :
          /\ active[c]
          /\ ~readable[c]
          /\ todo' = [todo EXCEPT ![w] = @ \ {c}]
          /\ RecordAttempt(Current(w), c, "failed", FALSE)
    /\ results' = [results EXCEPT ![w] = @ \cup {"failed"}]
    /\ UNCHANGED <<rowVars, notified, failureOpen, pc, candidates, batch,
                   claimLeft, snapshot, target, waitLeft, answer, received,
                   passes, crashes>>

SendAlert(w) ==
    /\ pc[w] = "routes"
    /\ \E c \in todo[w] :
          /\ active[c]
          /\ readable[c]
          /\ todo' = [todo EXCEPT ![w] = @ \ {c}]
          /\ Await(w, c)
    /\ UNCHANGED <<rowVars, channelVars, notified, sentLog, failureOpen,
                   candidates, batch, claimLeft, snapshot, answer, results,
                   received, passes, crashes>>

-----------------------------------------------------------------------------
(* The remote endpoint and the resumption after the await                  *)

\* The endpoint received the message and its 2xx came back in time.
RemoteAccepts(w) ==
    /\ pc[w] = "awaiting"
    /\ received' = received \cup {<<Current(w), target[w]>>}
    /\ answer' = [answer EXCEPT ![w] = "sent"]
    /\ pc' = [pc EXCEPT ![w] = "record"]
    /\ UNCHANGED <<rowVars, channelVars, notified, sentLog, failureOpen,
                   candidates, batch, claimLeft, snapshot, todo, target,
                   waitLeft, results, passes, crashes>>

\* Refused, unreachable, malformed config, or the answer was lost or late:
\* the endpoint may have received the message all the same.
RemoteFails(w) ==
    /\ pc[w] = "awaiting"
    /\ received' \in {received, received \cup {<<Current(w), target[w]>>}}
    /\ answer' = [answer EXCEPT ![w] = "failed"]
    /\ pc' = [pc EXCEPT ![w] = "record"]
    /\ UNCHANGED <<rowVars, channelVars, notified, sentLog, failureOpen,
                   candidates, batch, claimLeft, snapshot, todo, target,
                   waitLeft, results, passes, crashes>>

RecordAlert(w) ==
    /\ pc[w] = "record"
    /\ Current(w) \in Alerts
    /\ RecordAttempt(Current(w), target[w], answer[w], RetriesRemain(w))
    /\ results' = [results EXCEPT ![w] = @ \cup {answer[w]}]
    /\ target' = [target EXCEPT ![w] = NoChannel]
    /\ waitLeft' = [waitLeft EXCEPT ![w] = 0]
    /\ pc' = [pc EXCEPT ![w] = "routes"]
    /\ UNCHANGED <<rowVars, notified, failureOpen, candidates, batch,
                   claimLeft, snapshot, todo, answer, received, passes,
                   crashes>>

RecordTest(w) ==
    /\ pc[w] = "record"
    /\ Current(w) \in Tests
    /\ RecordAttempt(Current(w), target[w], answer[w], FALSE)
    /\ MarkProcessed(Current(w), "tested")
    /\ Advance(w)
    /\ UNCHANGED <<notified, failureOpen, received, passes, crashes>>

-----------------------------------------------------------------------------
(* The end of a pass                                                       *)

PassDone(w) == pc[w] = "routes" /\ todo[w] = {}

\* Mutant: no failure is taken for success.
NoneFailed(w) == "failed" \notin results[w]

\* anySuccess && !anyFailure
AllSent(w) == results[w] = {"sent"}

FinishDelivered(w) ==
    /\ PassDone(w)
    /\ AllSent(w)
    /\ notified' = notified \cup {IncidentOf[Current(w)]}
    /\ MarkProcessed(Current(w), "delivered")
    /\ Advance(w)
    /\ UNCHANGED <<channelVars, sentLog, failureOpen, received, passes, crashes>>

FinishRetry(w) ==
    /\ PassDone(w)
    /\ ~AllSent(w)
    /\ RetriesRemain(w)
    /\ ScheduleRetry(Current(w), snapshot[w] + 1)
    /\ CountPass(Current(w))
    /\ Advance(w)
    /\ UNCHANGED <<channelVars, notified, sentLog, failureOpen, received,
                   crashes>>

\* Retries exhausted: the row is settled first ...
FinishExhausted(w) ==
    /\ PassDone(w)
    /\ ~AllSent(w)
    /\ ~RetriesRemain(w)
    /\ MarkProcessed(Current(w), "exhausted")
    /\ CountPass(Current(w))
    /\ pc' = [pc EXCEPT ![w] = "giveUp"]
    /\ UNCHANGED <<channelVars, notified, sentLog, failureOpen, candidates, batch,
                   claimLeft, passVars, received, crashes>>

\* ... and the system incident opened (or observed again) next.
OpenFailure(w) ==
    /\ pc[w] = "giveUp"
    /\ failureOpen' = TRUE
    /\ Advance(w)
    /\ UNCHANGED <<rowVars, channelVars, notified, sentLog, received, passes,
                   crashes>>

-----------------------------------------------------------------------------
(* Crashes and time                                                        *)

\* The process dies, or a statement throws and the batch is abandoned: the
\* leases stay behind.
Crash(w) ==
    /\ pc[w] # "idle"
    /\ crashes < MaxCrashes
    /\ crashes' = crashes + 1
    /\ pc' = [pc EXCEPT ![w] = "idle"]
    /\ candidates' = [candidates EXCEPT ![w] = <<>>]
    /\ batch' = [batch EXCEPT ![w] = <<>>]
    /\ claimLeft' = [claimLeft EXCEPT ![w] = NoLease]
    /\ snapshot' = [snapshot EXCEPT ![w] = 0]
    /\ todo' = [todo EXCEPT ![w] = {}]
    /\ target' = [target EXCEPT ![w] = NoChannel]
    /\ waitLeft' = [waitLeft EXCEPT ![w] = 0]
    /\ answer' = [answer EXCEPT ![w] = "failed"]
    /\ results' = [results EXCEPT ![w] = {}]
    /\ UNCHANGED <<rowVars, channelVars, notified, sentLog, failureOpen, received,
                   passes>>

\* Synchronous code takes no time, and no delivery outlives its timeout.
Tick ==
    /\ \A w \in Workers : pc[w] \notin Synchronous
    /\ \A w \in Workers : pc[w] = "awaiting" => waitLeft[w] > 0
    /\ availIn' = [r \in Rows |-> IF status[r] = "pending" /\ availIn[r] > -MaxAge
                                  THEN availIn[r] - 1 ELSE availIn[r]]
    /\ lease' = [r \in Rows |-> IF lease[r] > NoLease
                                THEN lease[r] - 1 ELSE NoLease]
    /\ claimLeft' = [w \in Workers |-> IF claimLeft[w] > NoLease
                                       THEN claimLeft[w] - 1 ELSE NoLease]
    /\ waitLeft' = [w \in Workers |-> IF pc[w] = "awaiting"
                                      THEN waitLeft[w] - 1 ELSE waitLeft[w]]
    /\ UNCHANGED <<status, attempts, channelVars, notified, sentLog, failureOpen,
                   pc, candidates, batch, snapshot, todo, target, answer,
                   results, received, passes, crashes>>

-----------------------------------------------------------------------------

WorkerStep(w) ==
    \/ SelectBatch(w)     \/ ClaimRow(w)
    \/ SkipProcessed(w)   \/ DropUndeliverable(w) \/ BeginAlert(w)
    \/ TestUnaddressed(w) \/ TestUnreadable(w)   \/ BeginTest(w)
    \/ SkipInactive(w)    \/ FailUnreadable(w)    \/ SendAlert(w)
    \/ RemoteAccepts(w)   \/ RemoteFails(w)
    \/ RecordAlert(w)     \/ RecordTest(w)
    \/ FinishDelivered(w) \/ FinishRetry(w)
    \/ FinishExhausted(w) \/ OpenFailure(w)

Administration ==
    \/ \E c \in Channels : DisableChannel(c)
    \/ \E i \in Incidents : RemoveRoutes(i)
    \/ ResolveFailure

Next ==
    \/ \E r \in Rows : Enqueue(r)
    \/ \E w \in Workers : WorkerStep(w) \/ Crash(w)
    \/ Administration
    \/ Tick

Spec == Init /\ [][Next]_vars

\* The interval timers keep starting batches, promises settle within the
\* delivery timeout, and the clock advances.
Fairness == WF_vars(Tick) /\ \A w \in Workers : WF_vars(WorkerStep(w))

FairSpec == Spec /\ Fairness

-----------------------------------------------------------------------------
(* Properties                                                              *)

\* A settled row carries no lease: the conditional UPDATE of
\* claimOutboxBatch never takes a row that was settled after its SELECT.
SettledRowsUnclaimed ==
    \A r \in Rows : Processed(r) => lease[r] = NoLease

\* attempt_count never reaches OUTBOX_MAX_ATTEMPTS: the pass that would make
\* it so settles the row, whatever other invocations wrote in between.
AttemptsBelowMax == \A r \in Rows : attempts[r] < MaxAttempts

\* What stale passes and claims leave of a row: both of them.
RowInv == SettledRowsUnclaimed /\ AttemptsBelowMax

\* An alert is given up only after OUTBOX_MAX_ATTEMPTS unsuccessful passes,
\* even when overlapping invocations overwrite each other's attempt_count.
GivesUpOnlyAfterMaxAttempts ==
    \A a \in Alerts : status[a] = "exhausted" => passes[a] >= MaxAttempts

\* An incident counts as notified only when some endpoint has received an
\* alert about it, and the attempt is on record as sent.
NotifiedWasReceived ==
    \A i \in notified : \E a \in Alerts, c \in Channels :
        IncidentOf[a] = i /\ <<a, c>> \in received \cap sentLog

\* Two invocations never both hold a row on an unexpired lease, also when a
\* delivery outlives its lease, as long as a row that is scheduled again waits
\* no less than a lease lasts, as it does by default.  Of more than two, none may
\* end a pass between the SELECT and the UPDATEs of another (OutboxProofs says
\* why), as none does within one process.
ClaimExclusive ==
    RetryBase >= ClaimTtl =>
    \A v, w \in Workers : v # w =>
        \A i \in DOMAIN batch[v], j \in DOMAIN batch[w] :
            claimLeft[v] > 0 /\ claimLeft[w] > 0 => batch[v][i] # batch[w][j]

\* A row never returns to the queue once it is settled.
SettledStaysSettled ==
    [][\A r \in Rows : Processed(r) => status'[r] = status[r]]_vars

\* Every row put in the outbox is settled in the end.
EveryRowSettles ==
    \A r \in Rows : status[r] = "pending" ~> Processed(r)
=============================================================================
