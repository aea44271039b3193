------------------------------ MODULE Ingestion ------------------------------
(***************************************************************************)
(* The ingestion of reports: signed heartbeats (ingest-heartbeat.ts) and   *)
(* polled executions (ingest-polled-evidence.ts) of one workflow.          *)
(*                                                                         *)
(* A request passes its gates, each of which reads the database, and ends  *)
(* in one transaction that stores the event, updates the state of the      *)
(* workflow and opens and resolves incidents.  The incident API and the     *)
(* watchdog write about the same incidents, statement by statement and in   *)
(* no transaction.  What two processes execute interleaves between the     *)
(* statements; within one process nothing does, since nothing in these     *)
(* handlers is awaited.                                                    *)
(***************************************************************************)
EXTENDS Incidents, Integers, FiniteSets

CONSTANTS
    Processes,
    Keys,        \* idempotency keys
    Reports,     \* what may be reported, see Report
    NoReport,
    Agreements,  \* the contracts the workflow may have, see Agreement
    Cap,         \* HEARTBEAT_RATE_LIMIT_PER_MINUTE + HEARTBEAT_RATE_LIMIT_BURST
    Sustained,   \* HEARTBEAT_SUSTAINED_REJECTION_THRESHOLD
    Window,      \* the length of a rate-limit window
    MaxEvents,   \* bound: events stored in a run
    MaxAdmin     \* bound: ticks that find a silence and handlers of the incident API

NoMark == -1
Never == -1
Evidence == {"success", "failure", "empty_result"}
IncidentType == {"silent_absence", "hard_failure", "empty_result",
                 "freshness_stale", "effect_count_mismatch"}
Answer == {"none", "accepted", "replay", "conflict", "unauthorized",
           "rate_limited", "not_active", "bad_request", "error"}

\* items is null (Never), zero or one for "some"; mark is sourceWatermark;
\* effect compares expectedCount and writtenCount when both are there.
Report ==
    [key : Keys, status : {"success", "failure"}, items : {Never, 0, 1},
     at : Nat, mark : Nat \cup {NoMark}, effect : {"missing", "equal", "unequal"}]

Agreement ==
    [method : {"push", "poll"},   \* monitoring_method of the workflow
     policy : {"allowed", "warning", "failure"}, threshold : Nat \ {0},
     marks : BOOLEAN, staleness : Nat, effects : BOOLEAN, countless : BOOLEAN]

ASSUME IngestionAssumption ==
    /\ Problems = IncidentType /\ Backoff = 0
    /\ Reports \subseteq Report
    /\ NoReport \notin Reports
    /\ Agreements \subseteq Agreement
    /\ Cap \in Nat \ {0}
    /\ Sustained \in Nat \ {0}
    /\ Window \in Nat \ {0}
    /\ MaxEvents \in Nat /\ MaxAdmin \in Nat

VARIABLES
    events,     \* heartbeat_events, in the order of insertion
    state,      \* the row of workflow_states
    agreement,  \* the contract, fixed in a run
    active,     \* workflow and contract are active
    trusted,    \* the credential is active
    limit,      \* ingestion_rate_limit_states: age of the window, counts
    pc,         \* where each request is
    request,    \* its report
    decision,   \* the counts its transaction is going to write
    answer,     \* what the last request of each process was answered
    inc,        \* the incident a handler or a tick writes about, 0 for none
    read,       \* what it has read: the incident had recovered, or, in a tick,
                \* there was an unresolved silence
    admin,      \* interventions so far
    raced       \* history: the incidents written from a reading that no longer held

handlerVars == <<inc, read>>
requestVars == <<pc, request, decision, answer>>
vars == <<incidents, events, state, agreement, active, trusted, limit, requestVars,
          handlerVars, admin, raced>>

\* An absent row of the limiter behaves like an expired window.
Limits == [age : 0 .. Window, accepted : 0 .. Cap, rejected : Nat]
NewWindow == [age |-> Window, accepted |-> 0, rejected |-> 0]

HandlerPlace == {"writeResolve", "tellResolved", "writeAck", "tellAck"}
TickPlace == {"before", "find", "insert", "announce"}

States ==
    [last : Evidence \cup {"unknown"}, at : Nat \cup {Never},
     health : {"unknown", "healthy", "warning", "overdue"},
     empties : Nat, mark : Nat \cup {NoMark}, markAt : Nat \cup {Never}, stale : Nat,
     effect : {"none", "not_evaluated", "passed", "breached"}]

TypeOK ==
    /\ incidents \in Seq(Incident)
    /\ events \in Seq(Reports)
    /\ state \in States
    /\ agreement \in Agreements
    /\ active \in BOOLEAN
    /\ trusted \in BOOLEAN
    /\ limit \in Limits
    /\ pc \in [Processes -> {"idle", "limit", "reject", "contract", "write"}
                             \cup HandlerPlace \cup TickPlace]
    /\ request \in [Processes -> Reports \cup {NoReport}]
    /\ decision \in [Processes -> Limits]
    /\ answer \in [Processes -> Answer]
    /\ inc \in [Processes -> Nat]
    /\ read \in [Processes -> BOOLEAN]
    /\ admin \in 0 .. MaxAdmin
    /\ raced \subseteq DOMAIN incidents

Init ==
    /\ incidents = <<>>
    /\ events = <<>>
    /\ state = [last |-> "unknown", at |-> Never, health |-> "unknown", empties |-> 0,
                mark |-> NoMark, markAt |-> Never, stale |-> 0, effect |-> "none"]
    /\ agreement \in Agreements
    /\ active = TRUE
    /\ trusted = TRUE
    /\ limit = NewWindow
    /\ pc = [p \in Processes |-> "idle"]
    /\ request = [p \in Processes |-> NoReport]
    /\ decision = [p \in Processes |-> NewWindow]
    /\ answer = [p \in Processes |-> "none"]
    /\ inc = [p \in Processes |-> 0]
    /\ read = [p \in Processes |-> FALSE]
    /\ admin = 0
    /\ raced = {}

-----------------------------------------------------------------------------
(* The transaction                                                         *)

\* classifyInboundHeartbeatPayload: success with nothing processed is empty.
EvidenceOf(r) ==
    IF r.status = "success" /\ r.items = 0 THEN "empty_result" ELSE r.status

\* A success must say how many items it processed, unless the contract does
\* not ask for it.
Complete(r) == r.status = "success" /\ r.items = Never => agreement.countless

\* nextConsecutiveEmptyResults
Empties(st, r) ==
    CASE EvidenceOf(r) = "empty_result"                  -> st.empties + 1
      [] EvidenceOf(r) = "success" /\ r.items > 0        -> 0
      [] OTHER                                           -> st.empties

MarkCounts(r) == agreement.marks /\ EvidenceOf(r) = "success"

Advances(st, r) == r.mark # NoMark /\ (st.mark = NoMark \/ r.mark > st.mark)

\* An unchanged watermark is tolerated for freshness_allowed_staleness_seconds.
Tolerated(st, r) ==
    /\ r.mark # NoMark /\ ~Advances(st, r)
    /\ agreement.staleness > 0 /\ st.markAt # Never
    /\ r.at - st.markAt <= agreement.staleness

\* evaluateWatermarkFreshness: what becomes of the watermark and its counter.
Freshness(st, r) ==
    LET kept == [mark |-> st.mark, markAt |-> st.markAt, stale |-> st.stale]
    IN  IF ~MarkCounts(r) THEN kept
        ELSE IF r.mark = NoMark THEN [kept EXCEPT !.stale = @ + 1]
        ELSE IF Advances(st, r) THEN [mark |-> r.mark, markAt |-> r.at, stale |-> 0]
        ELSE IF Tolerated(st, r) THEN [kept EXCEPT !.mark = r.mark]
        ELSE [kept EXCEPT !.mark = r.mark, !.stale = @ + 1]

\* shouldOpenIncident
StaleNow(st, r) ==
    /\ MarkCounts(r)
    /\ ~Advances(st, r) /\ ~Tolerated(st, r)
    /\ Freshness(st, r).stale >= agreement.threshold

\* evaluateEffectReceipt; the polled path never evaluates it.
EffectCounts(r) ==
    agreement.method = "push" /\ agreement.effects /\ EvidenceOf(r) = "success"
Effect(st, r) ==
    IF ~EffectCounts(r) THEN st.effect
    ELSE CASE r.effect = "missing" -> "not_evaluated"
           [] r.effect = "equal"   -> "passed"
           [] r.effect = "unequal" -> "breached"

\* upsertWorkflowStateAfterHeartbeat: the last report counts, not the newest.
After(st, r) ==
    LET fresh == Freshness(st, r)
    IN  [last |-> EvidenceOf(r), at |-> r.at, health |-> "healthy",
         empties |-> Empties(st, r),
         mark |-> fresh.mark, markAt |-> fresh.markAt, stale |-> fresh.stale,
         effect |-> Effect(st, r)]

\* resolveOpenIncidentsOfTypes: every unresolved incident of these types is
\* resolved and announced as such.
CloseAll(rows, types) ==
    [i \in DOMAIN rows |->
        IF i \in UNION {Unresolved(rows, t) : t \in types}
        THEN Told(Resolved(rows, i), i, "resolved")[i]
        ELSE rows[i]]

\* openOrObserveIncident, and enqueueOpened unless there was one before.
Raise(rows, t) ==
    IF Unresolved(rows, t) = {}
    THEN Told(Opened(rows, t), Len(rows) + 1, "opened")
    ELSE rows

\* Mutant: a report that says something bad keeps what it says nothing of.
OnEmptyKeeping(rows, n) ==
    IF agreement.policy # "allowed" /\ n >= agreement.threshold
    THEN Raise(rows, "empty_result") ELSE rows

\* An empty result is not a hard failure; the policy says what else it is.
OnEmpty(rows, n) ==
    LET noFailure == CloseAll(rows, {"hard_failure"})
    IN  IF agreement.policy = "allowed" THEN CloseAll(noFailure, {"empty_result"})
        ELSE IF n >= agreement.threshold THEN Raise(noFailure, "empty_result")
        ELSE noFailure

OnEffect(rows, r) ==
    IF ~EffectCounts(r) \/ r.effect = "missing" THEN rows
    ELSE IF r.effect = "equal" THEN CloseAll(rows, {"effect_count_mismatch"})
    ELSE Raise(rows, "effect_count_mismatch")

OnSuccess(rows, st, r) ==
    LET closed == CloseAll(rows, {"hard_failure", "empty_result", "freshness_stale"})
        fresh == IF StaleNow(st, r) THEN Raise(closed, "freshness_stale") ELSE closed
    IN  OnEffect(fresh, r)

\* What a report does to the incidents: any report ends a silence.
Incidence(rows, st, r) ==
    LET heard == CloseAll(rows, {"silent_absence"})
    IN  CASE EvidenceOf(r) = "failure"      -> Raise(heard, "hard_failure")
          [] EvidenceOf(r) = "empty_result" -> OnEmpty(heard, Empties(st, r))
          [] EvidenceOf(r) = "success"      -> OnSuccess(heard, st, r)

Stored(r) == \E i \in DOMAIN events : events[i].key = r.key
StoredSame(r) == \E i \in DOMAIN events : events[i] = r

-----------------------------------------------------------------------------
(* The limiter                                                             *)

\* evaluateCredentialRateLimit begins a new window when the old one is over.
Current(l) ==
    IF l.age < Window THEN l ELSE [age |-> 0, accepted |-> 0, rejected |-> 0]

Allowed(l) == Current(l).accepted < Cap

\* Rejections are counted as far as they matter.
OneMoreRejected(l) ==
    [Current(l) EXCEPT !.rejected = IF @ = Sustained THEN @ ELSE @ + 1]

-----------------------------------------------------------------------------
(* A request                                                               *)

Finish(p, a) ==
    /\ pc' = [pc EXCEPT ![p] = "idle"]
    /\ request' = [request EXCEPT ![p] = NoReport]
    /\ decision' = [decision EXCEPT ![p] = NewWindow]
    /\ answer' = [answer EXCEPT ![p] = a]

Proceed(p, place) ==
    /\ pc' = [pc EXCEPT ![p] = place]
    /\ UNCHANGED <<request, answer>>

\* A signed heartbeat arrives: the workflow, the credential and the idempotency
\* key are looked up.
Arrive(p, r) ==
    /\ agreement.method = "push"
    /\ pc[p] = "idle"
    /\ Len(events) < MaxEvents
    /\ \/ /\ ~active
          /\ Finish(p, "not_active")
       \/ /\ active /\ ~trusted
          /\ Finish(p, "unauthorized")
       \/ /\ active /\ trusted /\ Stored(r)
          /\ Finish(p, IF StoredSame(r) THEN "replay" ELSE "conflict")
       \/ /\ active /\ trusted /\ ~Stored(r)
          /\ pc' = [pc EXCEPT ![p] = "limit"]
          /\ request' = [request EXCEPT ![p] = r]
          /\ answer' = [answer EXCEPT ![p] = "none"]
          /\ UNCHANGED decision
    /\ UNCHANGED <<incidents, events, state, agreement, active, trusted, limit,
                   handlerVars, admin, raced>>

\* The limiter lets the report pass and keeps its decision for the
\* transaction ...
PassLimit(p) ==
    /\ pc[p] = "limit"
    /\ Allowed(limit)
    /\ decision' = [decision EXCEPT ![p] = [Current(limit) EXCEPT !.accepted = @ + 1]]
    /\ Proceed(p, "contract")
    /\ UNCHANGED <<incidents, events, state, agreement, active, trusted, limit,
                   handlerVars, admin, raced>>

\* ... or rejects it: first it reads the counts ...
HitLimit(p) ==
    /\ pc[p] = "limit"
    /\ ~Allowed(limit)
    /\ decision' = [decision EXCEPT ![p] = OneMoreRejected(limit)]
    /\ Proceed(p, "reject")
    /\ UNCHANGED <<incidents, events, state, agreement, active, trusted, limit,
                   handlerVars, admin, raced>>

\* ... then it writes them, and after a while shows a warning.
Reject(p) ==
    /\ pc[p] = "reject"
    /\ limit' = decision[p]
    /\ state' = IF decision[p].rejected = Sustained
                THEN [state EXCEPT !.health = "warning"] ELSE state
    /\ Finish(p, "rate_limited")
    /\ UNCHANGED <<incidents, events, agreement, active, trusted, handlerVars, admin,
                   raced>>

\* The contract must be active and the payload what it asks for.
CheckContract(p) ==
    /\ pc[p] = "contract"
    /\ \/ ~active /\ Finish(p, "not_active")
       \/ active /\ ~Complete(request[p]) /\ Finish(p, "bad_request")
       \/ /\ active /\ Complete(request[p])
          /\ Proceed(p, "write")
          /\ UNCHANGED decision
    /\ UNCHANGED <<incidents, events, state, agreement, active, trusted, limit,
                   handlerVars, admin, raced>>

\* A polled execution: no credential and no limiter.
ArrivePolled(p, r) ==
    /\ agreement.method = "poll"
    /\ pc[p] = "idle"
    /\ Len(events) < MaxEvents
    /\ \/ /\ ~active
          /\ Finish(p, "not_active")
       \/ /\ active /\ Stored(r)
          /\ Finish(p, "replay")
       \/ /\ active /\ ~Stored(r) /\ ~Complete(r)
          /\ Finish(p, "bad_request")
       \/ /\ active /\ ~Stored(r) /\ Complete(r)
          /\ pc' = [pc EXCEPT ![p] = "write"]
          /\ request' = [request EXCEPT ![p] = r]
          /\ answer' = [answer EXCEPT ![p] = "none"]
          /\ UNCHANGED decision
    /\ UNCHANGED <<incidents, events, state, agreement, active, trusted, limit,
                   handlerVars, admin, raced>>

\* The transaction.  Only a push writes its decision about the limit, and
\* whatever another process has written meanwhile is overwritten.
Write(p) ==
    /\ pc[p] = "write"
    /\ ~Stored(request[p])
    /\ LET r == request[p]
       IN  /\ events' = Append(events, r)
           /\ state' = After(state, r)
           /\ incidents' = Incidence(incidents, state, r)
    /\ limit' = IF agreement.method = "push" THEN decision[p] ELSE limit
    /\ Finish(p, "accepted")
    /\ UNCHANGED <<agreement, active, trusted, handlerVars, admin, raced>>

\* Mutant: nobody catches the failure.
WriteThrows(p) ==
    /\ pc[p] = "write"
    /\ Stored(request[p])
    /\ Finish(p, "error")
    /\ UNCHANGED <<incidents, events, state, agreement, active, trusted, limit,
                   handlerVars, admin, raced>>

\* Another process has stored the key in the meantime: the unique index undoes
\* the transaction.  Only the polled path catches that.
WriteRefused(p) ==
    /\ pc[p] = "write"
    /\ Stored(request[p])
    /\ Finish(p, IF agreement.method = "poll" THEN "replay" ELSE "error")
    /\ UNCHANGED <<incidents, events, state, agreement, active, trusted, limit,
                   handlerVars, admin, raced>>

-----------------------------------------------------------------------------
(* The incident API                                                        *)

\* POST .../resolve, or the watchdog of p once the workflow is healthy: the row
\* is read, and a transition that is not allowed answers 409 ...
AdminResolve(p, i) ==
    /\ pc[p] = "idle"
    /\ admin < MaxAdmin
    /\ Resolvable(incidents[i])
    /\ admin' = admin + 1
    /\ inc' = [inc EXCEPT ![p] = i]
    /\ read' = [read EXCEPT ![p] = incidents[i].recovered]
    /\ Proceed(p, "writeResolve")
    /\ UNCHANGED <<incidents, events, state, agreement, active, trusted, limit,
                   decision, raced>>

\* The history of a write to the row p has read.
RacedFor(p) ==
    IF incidents[inc[p]].recovered = read[p] THEN raced ELSE raced \cup {inc[p]}

\* ... it is updated, whatever it has become by now ...
WriteResolve(p) ==
    /\ pc[p] = "writeResolve"
    /\ incidents' = Resolved(incidents, inc[p])
    /\ raced' = RacedFor(p)
    /\ Proceed(p, "tellResolved")
    /\ UNCHANGED <<events, state, agreement, active, trusted, limit, decision,
                   handlerVars, admin>>

\* POST .../acknowledge: the row is read, and nothing follows if somebody has
\* acknowledged it already.
AdminAcknowledge(p, i) ==
    /\ pc[p] = "idle"
    /\ admin < MaxAdmin
    /\ ~incidents[i].acked
    /\ admin' = admin + 1
    /\ inc' = [inc EXCEPT ![p] = i]
    /\ read' = [read EXCEPT ![p] = incidents[i].recovered]
    /\ Proceed(p, "writeAck")
    /\ UNCHANGED <<incidents, events, state, agreement, active, trusted, limit,
                   decision, raced>>

EndHandler(p) ==
    /\ Proceed(p, "idle")
    /\ inc' = [inc EXCEPT ![p] = 0]
    /\ read' = [read EXCEPT ![p] = FALSE]
    /\ UNCHANGED decision

\* The status an acknowledgement writes follows from the row as it was read.
NewStatus(p) == LegacyStatus([incidents[inc[p]] EXCEPT !.recovered = read[p]])
Others(p) == Unresolved(incidents, incidents[inc[p]].problem) \ {inc[p]}

\* The UPDATE names the row only: it makes a row count as unresolved again if
\* it has been resolved meanwhile.
WriteAck(p) ==
    /\ pc[p] = "writeAck"
    /\ NewStatus(p) = "acknowledged" => Others(p) = {}
    /\ incidents' = Acknowledged(incidents, inc[p], NewStatus(p))
    /\ raced' = RacedFor(p)
    /\ Proceed(p, "tellAck")
    /\ UNCHANGED <<events, state, agreement, active, trusted, limit, decision,
                   handlerVars, admin>>

\* The unique index allows only one unresolved incident about the problem.
AckRefused(p) ==
    /\ pc[p] = "writeAck"
    /\ NewStatus(p) = "acknowledged" /\ Others(p) # {}
    /\ EndHandler(p)
    /\ UNCHANGED <<incidents, events, state, agreement, active, trusted, limit,
                   admin, raced>>

\* Both handlers end with an outbox row.
TellHandler(p) ==
    /\ pc[p] \in {"tellResolved", "tellAck"}
    /\ incidents' = Told(incidents, inc[p],
                         IF pc[p] = "tellAck" THEN "acknowledged" ELSE "resolved")
    /\ EndHandler(p)
    /\ UNCHANGED <<events, state, agreement, active, trusted, limit, admin, raced>>

-----------------------------------------------------------------------------
(* The watchdog                                                            *)

Silences == Unresolved(incidents, "silent_absence")

\* The tick of p finds the workflow overdue and says so.  Its claim on the
\* contract keeps other ticks out (Watcher).
FindOverdue(p) ==
    /\ active
    /\ pc[p] = "idle"
    /\ \A q \in Processes : pc[q] \notin TickPlace
    /\ admin < MaxAdmin
    /\ admin' = admin + 1
    /\ state' = [state EXCEPT !.health = "overdue"]
    /\ Proceed(p, "before")
    /\ UNCHANGED <<incidents, events, agreement, active, trusted, limit, decision,
                   handlerVars, raced>>

\* It looks for the incident it may have to remind of ...
LookBefore(p) ==
    /\ pc[p] = "before"
    /\ read' = [read EXCEPT ![p] = Silences # {}]
    /\ Proceed(p, "find")
    /\ UNCHANGED <<incidents, events, state, agreement, active, trusted, limit,
                   decision, inc, admin, raced>>

\* ... openOrObserveIncident looks again ...
FindExisting(p) ==
    /\ pc[p] = "find"
    /\ \/ /\ Silences = {}
          /\ Proceed(p, "insert")
          /\ UNCHANGED inc
       \/ \E i \in Silences :
             /\ inc' = [inc EXCEPT ![p] = i]
             /\ Proceed(p, "announce")
    /\ UNCHANGED <<incidents, events, state, agreement, active, trusted, limit,
                   decision, read, admin, raced>>

\* ... and inserts one; the unique index may refuse it, and the tick fails.
InsertIncident(p) ==
    /\ pc[p] = "insert"
    /\ Silences = {}
    /\ incidents' = Opened(incidents, "silent_absence")
    /\ inc' = [inc EXCEPT ![p] = Len(incidents) + 1]
    /\ raced' = IF read[p] THEN raced \cup {Len(incidents) + 1} ELSE raced
    /\ Proceed(p, "announce")
    /\ UNCHANGED <<events, state, agreement, active, trusted, limit, decision,
                   read, admin>>

InsertRefused(p) ==
    /\ pc[p] = "insert"
    /\ Silences # {}
    /\ EndHandler(p)
    /\ UNCHANGED <<incidents, events, state, agreement, active, trusted, limit,
                   admin, raced>>

\* Mutant: opened is announced although there was an incident before.
AnnounceAnyway(p) ==
    /\ pc[p] = "announce"
    /\ incidents' = Told(incidents, inc[p], "opened")
    /\ EndHandler(p)
    /\ UNCHANGED <<events, state, agreement, active, trusted, limit, admin, raced>>

\* Opened is announced unless there was an incident before.
Announce(p) ==
    /\ pc[p] = "announce"
    /\ incidents' = IF read[p] THEN incidents ELSE Told(incidents, inc[p], "opened")
    /\ EndHandler(p)
    /\ UNCHANGED <<events, state, agreement, active, trusted, limit, admin, raced>>

-----------------------------------------------------------------------------
(* The rest of the program                                                 *)

\* The workflow is removed, or its credential revoked.
Remove ==
    /\ active
    /\ active' = FALSE
    /\ trusted' = FALSE
    /\ UNCHANGED <<incidents, events, state, agreement, limit, requestVars,
                   handlerVars, admin, raced>>

Revoke ==
    /\ trusted
    /\ trusted' = FALSE
    /\ UNCHANGED <<incidents, events, state, agreement, active, limit, requestVars,
                   handlerVars, admin, raced>>

\* Requests take no time.
Tick ==
    /\ \A p \in Processes : pc[p] = "idle"
    /\ limit.age < Window
    /\ limit' = [limit EXCEPT !.age = @ + 1]
    /\ UNCHANGED <<incidents, events, state, agreement, active, trusted, requestVars,
                   handlerVars, admin, raced>>

-----------------------------------------------------------------------------

RequestStep(p) ==
    \/ \E r \in Reports : Arrive(p, r) \/ ArrivePolled(p, r)
    \/ PassLimit(p) \/ HitLimit(p) \/ Reject(p) \/ CheckContract(p)
    \/ Write(p) \/ WriteRefused(p)

HandlerStep(p) ==
    \/ \E i \in DOMAIN incidents : AdminResolve(p, i) \/ AdminAcknowledge(p, i)
    \/ WriteResolve(p) \/ WriteAck(p) \/ AckRefused(p) \/ TellHandler(p)

TickStep(p) ==
    \/ FindOverdue(p) \/ LookBefore(p) \/ FindExisting(p)
    \/ InsertIncident(p) \/ InsertRefused(p) \/ Announce(p)

Next ==
    \/ \E p \in Processes : RequestStep(p) \/ HandlerStep(p) \/ TickStep(p)
    \/ Remove \/ Revoke
    \/ Tick

Spec == Init /\ [][Next]_vars

-----------------------------------------------------------------------------
(* Properties                                                              *)

\* p is about to announce that incident i has been opened, or resolved.
Opening(p, i) == pc[p] = "announce" /\ inc[p] = i /\ ~read[p]
Ending(p, i) == pc[p] = "tellResolved" /\ inc[p] = i

\* A problem has at most one unresolved incident, whatever is acknowledged late.
\* Every incident is announced once when it opens and once when it ends, or its
\* announcement is under way, whoever ends it and whatever arrives twice, at once
\* or in two processes; only an incident that somebody wrote from a reading that
\* no longer held may have missed one or got a second.
AnnouncedOnceEach ==
    /\ \A t \in IncidentType : Cardinality(Unresolved(incidents, t)) <= 1
    /\ \A i \in DOMAIN incidents \ raced :
          /\ incidents[i].told["opened"]
               = IF \E p \in Processes : Opening(p, i) THEN 0 ELSE 1
          /\ incidents[i].told["resolved"]
               = IF Resolvable(incidents[i]) \/ \E p \in Processes : Ending(p, i)
                 THEN 0 ELSE 1

Empty(i) == EvidenceOf(events[i]) = "empty_result"
Full(i) == EvidenceOf(events[i]) = "success" /\ events[i].items > 0

\* The streak of empty results counts the empty reports stored since the last one
\* with items: each once, however often it was sent and whatever failures and
\* countless successes came in between.  An incident about the evidence is
\* unresolved only as long as the evidence that is retained says so, unless it was
\* resolved while somebody was acknowledging it.
IncidentsMatchEvidence ==
    LET about(t) == Unresolved(incidents, t) \ raced # {}
    IN  /\ state.empties = Cardinality({i \in DOMAIN events :
                               Empty(i) /\ \A j \in i .. Len(events) : ~Full(j)})
        /\ about("hard_failure") =>
              events # <<>> /\ events[Len(events)].status = "failure"
        /\ about("empty_result") =>
              agreement.policy # "allowed" /\ state.empties >= agreement.threshold
        /\ about("freshness_stale") => state.stale >= agreement.threshold
        /\ about("effect_count_mismatch") =>
              state.effect \in {"breached", "not_evaluated"}

\* A copy of a polled execution that has been stored is answered like the first
\* one, also when it loses the race for its key.
CopiesAreAccepted ==
    [][\A p \in Processes :
         active /\ agreement.method = "poll"
             /\ pc[p] # "idle" /\ pc'[p] = "idle" /\ StoredSame(request[p])
           => answer'[p] \in {"accepted", "replay"}]_vars
=============================================================================
