------------------------------- MODULE Watcher -------------------------------
(***************************************************************************)
(* The silence watchdog (run-watcher.ts) with what it races against: the   *)
(* reports that end a silence, the incident API, the connector's health,   *)
(* the removal of workflows, and a second process on the same database.    *)
(*                                                                         *)
(* A process executes its handlers and ticks without yielding, so within   *)
(* one process nothing happens between two statements of a tick except a   *)
(* crash.  Between processes every statement is a step of its own: only    *)
(* the ingestion of a report and the removal of a workflow are             *)
(* transactions.                                                           *)
(***************************************************************************)
EXTENDS Incidents, Integers

CONSTANTS
    Processes,
    Nobody,         \* no process: the owner of a claim left by a dead process
    Polled,         \* the contracts whose workflow is polled
    SlotLength,     \* a report covers the contract for so long (healthy)
    Deadline,       \* SlotLength and allowed_lateness_minutes (then overdue)
    FirstDeadline,  \* first deadline and initial grace, from the start
    MaxLate,        \* bound: how old the execution a report announces may be
    ClaimTtl,       \* WATCHER_CLAIM_TTL_MS
    MaxStall,       \* bound: time a process may be suspended within a tick
    MaxEnds,        \* bound: reports ingested and resolutions asked for in a run
    MaxCrashes      \* bound: processes that die within a tick or a handler

NoClaim == "no claim"

\* The problem of a contract is its silent_absence.
Contracts == Problems
Later(x, y) == IF x > y THEN x ELSE y
Horizon == Later(Deadline, FirstDeadline) + 1

ASSUME WatcherAssumption ==
    /\ Processes # {} /\ Nobody \notin Processes /\ NoClaim \notin Processes
    /\ Polled \subseteq Contracts
    /\ SlotLength \in Nat /\ Deadline \in Nat /\ FirstDeadline \in Nat
    /\ SlotLength <= Deadline
    /\ MaxLate \in 0 .. Horizon
    /\ ClaimTtl \in Nat \ {0}
    /\ MaxStall \in Nat
    /\ MaxEnds \in Nat
    /\ MaxCrashes \in Nat

VARIABLES
    monitored,  \* workflow and contract are active
    quiet,      \* time since last_execution_at, or since monitoring started
    reported,   \* last_execution_at is set
    bad,        \* the n8n connector is unreachable, auth_failed, misconfigured
    shown,      \* workflow_states.current_health
    owner,      \* watcher_contract_claims.claim_owner, or NoClaim
    left,       \* time until claim_expires_at (negative: expired for so long)
    pc,         \* where each process is
    todo,       \* the contracts its tick has still to visit
    cur,        \* the contract it evaluates
    stall,      \* time since its tick began
    health,     \* the evaluation of the current contract
    suppress,   \* the monitor was found unreachable
    before,     \* the unresolved incident found before, 0 for none
    beforeAge,  \* that row's age as it was read
    inc,        \* the incident it is writing about, 0 for none
    newStatus,  \* the status an acknowledgement is about to write
    ends,       \* reports, resolutions and crashes so far
    crashes

claimVars == <<owner, left>>
stateVars == <<monitored, quiet, reported, bad, shown>>
localVars == <<todo, cur, stall, health, suppress, before, beforeAge, inc, newStatus>>
counts == <<ends, crashes>>
vars == <<incidents, stateVars, claimVars, pc, localVars, counts>>

NoContract == "no contract"
Health == {"unknown", "healthy", "warning", "overdue"}
TickPlace == {"next", "insertClaim", "takeClaim", "evaluate", "upsert", "before",
              "find", "insert", "announce", "lookup", "checkResolve",
              "writeResolve", "announceResolved", "release"}
HandlerPlace == {"writeAck", "tellAck", "writeAdmin", "tellAdmin"}

TypeOK ==
    /\ incidents \in Seq(Incident)
    /\ monitored \in [Contracts -> BOOLEAN]
    /\ quiet \in [Contracts -> 0 .. Horizon]
    /\ reported \in [Contracts -> BOOLEAN]
    /\ bad \in [Contracts -> BOOLEAN]
    /\ shown \in [Contracts -> Health]
    /\ owner \in [Contracts -> Processes \cup {Nobody, NoClaim}]
    /\ left \in [Contracts -> -(MaxStall + 1) .. ClaimTtl]
    /\ pc \in [Processes -> {"idle"} \cup TickPlace \cup HandlerPlace]
    /\ todo \in [Processes -> SUBSET Contracts]
    /\ cur \in [Processes -> Contracts \cup {NoContract}]
    /\ stall \in [Processes -> 0 .. MaxStall]
    /\ health \in [Processes -> Health]
    /\ suppress \in [Processes -> BOOLEAN]
    /\ before \in [Processes -> Nat]
    /\ beforeAge \in [Processes -> 0 .. Backoff]
    /\ inc \in [Processes -> Nat]
    /\ newStatus \in [Processes -> Status]
    /\ ends \in 0 .. MaxEnds
    /\ crashes \in 0 .. MaxCrashes

Init ==
    /\ incidents = <<>>
    /\ monitored = [k \in Contracts |-> TRUE]
    /\ quiet = [k \in Contracts |-> 0]
    /\ reported = [k \in Contracts |-> FALSE]
    /\ bad = [k \in Contracts |-> FALSE]
    /\ shown = [k \in Contracts |-> "unknown"]
    /\ owner = [k \in Contracts |-> NoClaim]
    /\ left = [k \in Contracts |-> 0]
    /\ pc = [p \in Processes |-> "idle"]
    /\ todo = [p \in Processes |-> {}]
    /\ cur = [p \in Processes |-> NoContract]
    /\ stall = [p \in Processes |-> 0]
    /\ health = [p \in Processes |-> "unknown"]
    /\ suppress = [p \in Processes |-> FALSE]
    /\ before = [p \in Processes |-> 0]
    /\ beforeAge = [p \in Processes |-> 0]
    /\ inc = [p \in Processes |-> 0]
    /\ newStatus = [p \in Processes |-> "open"]
    /\ ends = 0
    /\ crashes = 0

-----------------------------------------------------------------------------
(* Helpers                                                                 *)

Goto(p, place) == pc' = [pc EXCEPT ![p] = place]

\* What a tick forgets when it leaves a contract.
ForgetContract(p) ==
    /\ cur' = [cur EXCEPT ![p] = NoContract]
    /\ health' = [health EXCEPT ![p] = "unknown"]
    /\ suppress' = [suppress EXCEPT ![p] = FALSE]
    /\ before' = [before EXCEPT ![p] = 0]
    /\ beforeAge' = [beforeAge EXCEPT ![p] = 0]
    /\ inc' = [inc EXCEPT ![p] = 0]
    /\ UNCHANGED newStatus

\* evaluateCadence, for an interval that restarts at every report.
Evaluation(k) ==
    IF reported[k]
    THEN IF quiet[k] <= SlotLength THEN "healthy"
         ELSE IF quiet[k] <= Deadline THEN "warning" ELSE "overdue"
    ELSE IF quiet[k] <= FirstDeadline THEN "unknown" ELSE "overdue"

\* shouldSuppressSilentAbsence
MonitorUnreachable(k) == k \in Polled /\ bad[k]

\* An expiry compared with the instant at which p's tick began.
ExpiresBefore(p, k) == left[k] + stall[p] < 0

-----------------------------------------------------------------------------
(* A tick                                                                  *)

\* The contracts are listed once, the clock is read once.
StartTick(p) ==
    /\ pc[p] = "idle"
    /\ Goto(p, "next")
    /\ todo' = [todo EXCEPT ![p] = {k \in Contracts : monitored[k]}]
    /\ UNCHANGED <<incidents, stateVars, claimVars, cur, stall, health, suppress,
                   before, beforeAge, inc, newStatus, counts>>

FinishTick(p) ==
    /\ pc[p] = "next"
    /\ todo[p] = {}
    /\ Goto(p, "idle")
    /\ stall' = [stall EXCEPT ![p] = 0]
    /\ UNCHANGED <<incidents, stateVars, claimVars, todo, cur, health, suppress,
                   before, beforeAge, inc, newStatus, counts>>

\* Mutants: the expiry, or the owner, is not looked at.
HeldByOtherNever(p, k) == FALSE
HeldByOtherForever(p, k) == owner[k] \notin {p, NoClaim}

\* tryClaim: the claim of another owner that has not expired.
HeldByOther(p, k) == owner[k] \notin {p, NoClaim} /\ ~ExpiresBefore(p, k)

\* The SELECT of tryClaim.
TryClaim(p) ==
    /\ pc[p] = "next"
    /\ \E k \in todo[p] :
          IF HeldByOther(p, k)
          THEN todo' = [todo EXCEPT ![p] = @ \ {k}] /\ UNCHANGED <<cur, pc>>
          ELSE /\ cur' = [cur EXCEPT ![p] = k]
               /\ Goto(p, IF owner[k] = NoClaim THEN "insertClaim" ELSE "takeClaim")
               /\ UNCHANGED todo
    /\ UNCHANGED <<incidents, stateVars, claimVars, stall, health, suppress, before,
                   beforeAge, inc, newStatus, counts>>

\* The write of tryClaim: an INSERT that fails if there is a row by now, or
\* an UPDATE that matches nothing if the row is no longer there for the taking.
WriteClaim(p) ==
    /\ pc[p] \in {"insertClaim", "takeClaim"}
    /\ LET k == cur[p]
           mine == IF pc[p] = "insertClaim" THEN owner[k] = NoClaim
                   ELSE owner[k] # NoClaim /\ ~HeldByOther(p, k)
       IN  IF mine
           THEN /\ owner' = [owner EXCEPT ![k] = p]
                /\ left' = [left EXCEPT ![k] = ClaimTtl - stall[p]]
                /\ Goto(p, "evaluate")
                /\ UNCHANGED <<todo, cur>>
           ELSE /\ Goto(p, "next")
                /\ todo' = [todo EXCEPT ![p] = @ \ {k}]
                /\ cur' = [cur EXCEPT ![p] = NoContract]
                /\ UNCHANGED claimVars
    /\ UNCHANGED <<incidents, stateVars, stall, health, suppress, before, beforeAge,
                   inc, newStatus, counts>>

\* evaluateOne reads the state of the workflow and the connector's health.
Evaluate(p) ==
    /\ pc[p] = "evaluate"
    /\ health' = [health EXCEPT ![p] = Evaluation(cur[p])]
    /\ suppress' = [suppress EXCEPT ![p] = MonitorUnreachable(cur[p])]
    /\ Goto(p, "upsert")
    /\ UNCHANGED <<incidents, stateVars, claimVars, todo, cur, stall, before,
                   beforeAge, inc, newStatus, counts>>

\* Mutant: an incident is looked for only when the contract turns healthy.
ConsequenceOfChange(p) ==
    CASE suppress[p] -> "release"
      [] ~suppress[p] /\ health[p] = "overdue" -> "before"
      [] ~suppress[p] /\ health[p] = "healthy" /\ shown[cur[p]] # "healthy" -> "lookup"
      [] OTHER -> "release"

\* What follows from the health a tick has found.
Consequence(p) ==
    CASE suppress[p] -> "release"
      [] ~suppress[p] /\ health[p] = "overdue" -> "before"
      [] ~suppress[p] /\ health[p] = "healthy" -> "lookup"
      [] OTHER -> "release"

UpsertState(p) ==
    /\ pc[p] = "upsert"
    /\ shown' = [shown EXCEPT ![cur[p]] = health[p]]
    /\ Goto(p, Consequence(p))
    /\ UNCHANGED <<incidents, monitored, quiet, reported, bad, claimVars, localVars,
                   counts>>

\* getUnresolvedIncident of evaluateOne.
LookBefore(p) ==
    /\ pc[p] = "before"
    /\ \/ /\ Unresolved(incidents, cur[p]) = {}
          /\ UNCHANGED <<before, beforeAge>>
       \/ \E i \in Unresolved(incidents, cur[p]) :
             /\ before' = [before EXCEPT ![p] = i]
             /\ beforeAge' = [beforeAge EXCEPT ![p] = incidents[i].age]
    /\ Goto(p, "find")
    /\ UNCHANGED <<incidents, stateVars, claimVars, todo, cur, stall, health, suppress,
                   inc, newStatus, counts>>

\* openOrObserveIncident looks for itself; observing changes no status.
FindExisting(p) ==
    /\ pc[p] = "find"
    /\ \/ /\ Unresolved(incidents, cur[p]) = {}
          /\ Goto(p, "insert")
          /\ UNCHANGED inc
       \/ \E i \in Unresolved(incidents, cur[p]) :
             /\ inc' = [inc EXCEPT ![p] = i]
             /\ Goto(p, "announce")
    /\ UNCHANGED <<incidents, stateVars, claimVars, todo, cur, stall, health, suppress,
                   before, beforeAge, newStatus, counts>>

InsertIncident(p) ==
    /\ pc[p] = "insert"
    /\ Unresolved(incidents, cur[p]) = {}
    /\ incidents' = Opened(incidents, cur[p])
    /\ inc' = [inc EXCEPT ![p] = Len(incidents) + 1]
    /\ Goto(p, "announce")
    /\ UNCHANGED <<stateVars, claimVars, todo, cur, stall, health, suppress, before,
                   beforeAge, newStatus, counts>>

\* What the watcher enqueues: "opened" when it saw no incident before, or a
\* renotification from the row it saw then.
Announce(p) ==
    /\ pc[p] = "announce"
    /\ incidents' = IF before[p] = 0 THEN Told(incidents, inc[p], "opened")
                    ELSE IF RenotificationDue(beforeAge[p])
                         THEN Told(incidents, before[p], "renotification")
                         ELSE incidents
    /\ Goto(p, "release")
    /\ UNCHANGED <<stateVars, claimVars, localVars, counts>>

\* Healthy: is there an incident to resolve?
LookForOpen(p) ==
    /\ pc[p] = "lookup"
    /\ \/ /\ Unresolved(incidents, cur[p]) = {}
          /\ Goto(p, "release")
          /\ UNCHANGED inc
       \/ \E i \in Unresolved(incidents, cur[p]) :
             /\ inc' = [inc EXCEPT ![p] = i]
             /\ Goto(p, "checkResolve")
    /\ UNCHANGED <<incidents, stateVars, claimVars, todo, cur, stall, health, suppress,
                   before, beforeAge, newStatus, counts>>

\* resolveIncident reads the row and checks the transition ...
CheckResolve(p) ==
    /\ pc[p] = "checkResolve"
    /\ Resolvable(incidents[inc[p]])
    /\ Goto(p, "writeResolve")
    /\ UNCHANGED <<incidents, stateVars, claimVars, localVars, counts>>

\* ... and updates it.
WriteResolve(p) ==
    /\ pc[p] \in {"writeResolve", "writeAdmin"}
    /\ incidents' = Resolved(incidents, inc[p])
    /\ Goto(p, IF pc[p] = "writeResolve" THEN "announceResolved" ELSE "tellAdmin")
    /\ UNCHANGED <<stateVars, claimVars, localVars, counts>>

AnnounceResolved(p) ==
    /\ pc[p] = "announceResolved"
    /\ incidents' = Told(incidents, inc[p], "resolved")
    /\ Goto(p, "release")
    /\ UNCHANGED <<stateVars, claimVars, localVars, counts>>

\* releaseClaim deletes the row only if it is still this owner's.
DeleteClaim(p) ==
    /\ owner' = [owner EXCEPT ![cur[p]] = IF @ = p THEN NoClaim ELSE @]
    /\ left' = [left EXCEPT ![cur[p]] = IF owner[cur[p]] = p THEN 0 ELSE @]

Release(p) ==
    /\ pc[p] = "release"
    /\ DeleteClaim(p)
    /\ Goto(p, "next")
    /\ todo' = [todo EXCEPT ![p] = @ \ {cur[p]}]
    /\ ForgetContract(p)
    /\ UNCHANGED <<incidents, stateVars, stall, counts>>

\* The unique index or the transition table throws: the claim is released,
\* the failure recorded, and the remaining contracts wait for the next tick.
Abort(p) ==
    /\ \/ pc[p] = "insert" /\ Unresolved(incidents, cur[p]) # {}
       \/ pc[p] = "checkResolve" /\ ~Resolvable(incidents[inc[p]])
    /\ DeleteClaim(p)
    /\ Goto(p, "idle")
    /\ todo' = [todo EXCEPT ![p] = {}]
    /\ stall' = [stall EXCEPT ![p] = 0]
    /\ ForgetContract(p)
    /\ UNCHANGED <<incidents, stateVars, counts>>

-----------------------------------------------------------------------------
(* Reports, administration and the world                                   *)

\* A report on contract k is ingested, in one transaction, by a process that
\* is not in the middle of anything else.  The execution it announces may
\* be old: nothing keeps last_execution_at from going back.
Report(p, k, late) ==
    /\ pc[p] = "idle"
    /\ monitored[k]
    /\ ends < MaxEnds
    /\ ends' = ends + 1
    /\ quiet' = [quiet EXCEPT ![k] = late]
    /\ reported' = [reported EXCEPT ![k] = TRUE]
    /\ shown' = [shown EXCEPT ![k] = "healthy"]
    /\ incidents' = [i \in DOMAIN incidents |->
                       IF i \in Unresolved(incidents, k)
                       THEN Told(Resolved(incidents, i), i, "resolved")[i]
                       ELSE incidents[i]]
    /\ UNCHANGED <<monitored, bad, claimVars, pc, localVars, crashes>>

\* removeWorkflow: its incidents stay as they are.
RemoveWorkflow(p, k) ==
    /\ pc[p] = "idle"
    /\ monitored[k]
    /\ monitored' = [monitored EXCEPT ![k] = FALSE]
    /\ owner' = [owner EXCEPT ![k] = NoClaim]
    /\ left' = [left EXCEPT ![k] = 0]
    /\ UNCHANGED <<incidents, quiet, reported, bad, shown, pc, localVars, counts>>

\* The poll scheduler of p finds the connector of k dead, or alive again.
ConnectorTurns(p, k) ==
    /\ pc[p] = "idle"
    /\ k \in Polled
    /\ bad' = [bad EXCEPT ![k] = ~@]
    /\ UNCHANGED <<incidents, monitored, quiet, reported, shown, claimVars, pc,
                   localVars, counts>>

\* POST .../acknowledge: the row is read, and nothing follows if somebody has
\* acknowledged it already.
Acknowledge(p, i) ==
    /\ pc[p] = "idle"
    /\ ~incidents[i].acked
    /\ inc' = [inc EXCEPT ![p] = i]
    /\ newStatus' = [newStatus EXCEPT ![p] = LegacyStatus(incidents[i])]
    /\ Goto(p, "writeAck")
    /\ UNCHANGED <<incidents, stateVars, claimVars, todo, cur, stall, health, suppress,
                   before, beforeAge, counts>>

EndHandler(p) ==
    /\ Goto(p, "idle")
    /\ inc' = [inc EXCEPT ![p] = 0]
    /\ newStatus' = [newStatus EXCEPT ![p] = "open"]
    /\ stall' = [stall EXCEPT ![p] = 0]
    /\ UNCHANGED <<todo, cur, health, suppress, before, beforeAge>>

\* The UPDATE names the row only; the unique index refuses a second
\* unresolved incident about the same problem.
WriteAck(p) ==
    /\ pc[p] = "writeAck"
    /\ LET i == inc[p]
           others == Unresolved(incidents, incidents[i].problem) \ {i}
       IN  IF newStatus[p] = "acknowledged" /\ others # {}
           THEN EndHandler(p) /\ UNCHANGED incidents
           ELSE /\ incidents' = Acknowledged(incidents, i, newStatus[p])
                /\ Goto(p, "tellAck")
                /\ UNCHANGED localVars
    /\ UNCHANGED <<stateVars, claimVars, counts>>

\* POST .../resolve: a transition that is not allowed answers 409.
AdminResolve(p, i) ==
    /\ pc[p] = "idle"
    /\ ends < MaxEnds
    /\ Resolvable(incidents[i])
    /\ ends' = ends + 1
    /\ inc' = [inc EXCEPT ![p] = i]
    /\ Goto(p, "writeAdmin")
    /\ UNCHANGED <<incidents, stateVars, claimVars, todo, cur, stall, health, suppress,
                   before, beforeAge, newStatus, crashes>>

\* Both handlers end with an outbox row.
TellHandler(p) ==
    /\ pc[p] \in {"tellAck", "tellAdmin"}
    /\ incidents' = Told(incidents, inc[p],
                         IF pc[p] = "tellAck" THEN "acknowledged" ELSE "resolved")
    /\ EndHandler(p)
    /\ UNCHANGED <<stateVars, claimVars, counts>>

\* The outbox has delivered something about incident i.
Deliver(i) ==
    /\ incidents[i].pending > 0
    /\ incidents[i].age > 0
    /\ incidents' = Notified(incidents, i)
    /\ UNCHANGED <<stateVars, claimVars, pc, localVars, counts>>

\* A process dies within a tick or a handler.  The claim it held names an
\* owner that is gone, or its successor's if hostname and pid recur.
Crash(p) ==
    /\ pc[p] # "idle"
    /\ crashes < MaxCrashes
    /\ crashes' = crashes + 1
    /\ \E heir \in {p, Nobody} :
          owner' = [k \in Contracts |-> IF owner[k] = p THEN heir ELSE owner[k]]
    /\ Goto(p, "idle")
    /\ todo' = [todo EXCEPT ![p] = {}]
    /\ stall' = [stall EXCEPT ![p] = 0]
    /\ cur' = [cur EXCEPT ![p] = NoContract]
    /\ health' = [health EXCEPT ![p] = "unknown"]
    /\ suppress' = [suppress EXCEPT ![p] = FALSE]
    /\ before' = [before EXCEPT ![p] = 0]
    /\ beforeAge' = [beforeAge EXCEPT ![p] = 0]
    /\ inc' = [inc EXCEPT ![p] = 0]
    /\ newStatus' = [newStatus EXCEPT ![p] = "open"]
    /\ UNCHANGED <<incidents, stateVars, left, ends>>

Busy(p) == pc[p] # "idle"

\* A process in the middle of its statements may be suspended, for so long.
Tick ==
    /\ \A p \in Processes : Busy(p) => stall[p] < MaxStall
    /\ quiet' = [k \in Contracts |-> IF quiet[k] = Horizon THEN Horizon ELSE quiet[k] + 1]
    /\ left' = [k \in Contracts |-> IF owner[k] = NoClaim THEN 0
                                    ELSE IF left[k] < -MaxStall THEN left[k]
                                    ELSE left[k] - 1]
    /\ stall' = [p \in Processes |-> IF Busy(p) THEN stall[p] + 1 ELSE stall[p]]
    /\ beforeAge' = [p \in Processes |->
                        IF before[p] = 0 THEN 0 ELSE Older(beforeAge[p])]
    /\ incidents' = Aged(incidents)
    /\ UNCHANGED <<monitored, reported, bad, shown, owner, pc, todo, cur, health,
                   suppress, before, inc, newStatus, counts>>

-----------------------------------------------------------------------------

TickStep(p) ==
    \/ StartTick(p)     \/ FinishTick(p)
    \/ TryClaim(p)      \/ WriteClaim(p)
    \/ Evaluate(p)      \/ UpsertState(p)
    \/ LookBefore(p)    \/ FindExisting(p) \/ InsertIncident(p) \/ Announce(p)
    \/ LookForOpen(p)   \/ CheckResolve(p)
    \/ AnnounceResolved(p)
    \/ Release(p)       \/ Abort(p)

HandlerStep(p) == WriteResolve(p) \/ WriteAck(p) \/ TellHandler(p)

Request(p) ==
    \/ \E k \in Contracts, late \in 0 .. MaxLate : Report(p, k, late)
    \/ \E k \in Contracts : RemoveWorkflow(p, k) \/ ConnectorTurns(p, k)
    \/ \E i \in DOMAIN incidents : Acknowledge(p, i) \/ AdminResolve(p, i)

Next ==
    \/ \E p \in Processes : TickStep(p) \/ HandlerStep(p) \/ Request(p) \/ Crash(p)
    \/ \E i \in DOMAIN incidents : Deliver(i)
    \/ Tick

Spec == Init /\ [][Next]_vars

\* The interval timer keeps starting ticks, and a process executes what it has
\* begun.
ProcessFairness == \A p \in Processes : WF_vars(TickStep(p) \/ HandlerStep(p))

\* The clock may stand still: ticks are short, and a slot is long.
TickingSpec == Spec /\ ProcessFairness

\* The clock advances: a suspended process can hold it up only for as long as it
\* is in the middle of something, hence the strong fairness.
FairSpec == Spec /\ ProcessFairness /\ SF_vars(Tick)

-----------------------------------------------------------------------------
(* Properties                                                              *)

\* p acts on contract k under the claim it took.
Holds(p, k) ==
    /\ cur[p] = k
    /\ pc[p] \in TickPlace \ {"next", "insertClaim", "takeClaim"}

\* Two processes never evaluate the same contract while the lease of each
\* still runs (a removed workflow loses its claim row).
ClaimExclusive ==
    \A p, q \in Processes, k \in Contracts :
        /\ p # q /\ monitored[k]
        /\ Holds(p, k) /\ stall[p] <= ClaimTtl
        /\ Holds(q, k) /\ stall[q] <= ClaimTtl
        => FALSE

\* A late acknowledgement has made the resolved incident i count as unresolved.
Revived(i) == incidents[i].acked /\ incidents[i].recovered

\* If no process is suspended for longer than a lease, an incident is announced
\* as opened at most once, whoever else looks at the contract meanwhile, unless
\* a late acknowledgement has revived it, or its workflow has been removed and
\* the claim on the contract with it.
OpenedAnnouncedOnce ==
    MaxStall <= ClaimTtl =>
    \A i \in DOMAIN incidents :
        monitored[incidents[i].problem] /\ ~Revived(i)
            => incidents[i].told["opened"] <= 1

\* Between the ticks and handlers of an only process every incident has been
\* announced as opened exactly once, and as resolved exactly when it is, unless
\* a process has died.
AnnouncedExactly ==
    /\ \A p, q \in Processes : p = q
    /\ crashes = 0
    /\ \A p \in Processes : ~Busy(p)
    =>  \A i \in DOMAIN incidents :
            /\ incidents[i].told["opened"] = 1
            /\ incidents[i].told["resolved"]
                 = IF incidents[i].status = "resolved" THEN 1 ELSE 0

Alarming(k) ==
    monitored[k] /\ Evaluation(k) = "overdue" /\ ~MonitorUnreachable(k)

\* A silence that lasts gets an incident somebody is told about or has
\* acknowledged, although a process may die between opening and announcing it.
SilenceIsAnnounced ==
    \A k \in Contracts :
        Alarming(k) ~>
          \/ ~Alarming(k)
          \/ \E i \in Unresolved(incidents, k) :
                \/ incidents[i].acked
                \/ \E e \in {"opened", "renotification"} : incidents[i].told[e] > 0

Recovered(k) == monitored[k] /\ Evaluation(k) = "healthy" /\ ~MonitorUnreachable(k)

\* An incident that a stale tick opened after the report came in does not
\* outlive the recovery: while the contract is healthy, some tick closes it,
\* without any help of the clock, unless a process died and its claim stands.
RecoveryClosesIncident ==
    \A k \in Contracts :
        Recovered(k) ~> \/ ~Recovered(k) \/ owner[k] = Nobody
                        \/ Unresolved(incidents, k) = {}
=============================================================================
