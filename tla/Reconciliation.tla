---------------------------- MODULE Reconciliation ----------------------------
(***************************************************************************)
(* The reconciliation of an outcome contract (run-reconciliation.ts): the  *)
(* registrations of a window are read from the source and the destination, *)
(* matched by email (match-email.ts), stored, and turned into incidents    *)
(* (outcome/incidents.ts).                                                 *)
(*                                                                         *)
(* Calls of runWindow are served by one process: a call can be overtaken   *)
(* at its two awaits and nowhere else, but the process can die between its *)
(* statements, the INSERT of an incident and that of its announcement      *)
(* among them.  There is one contract, always active.                      *)
(***************************************************************************)
EXTENDS Incidents, Board, Integers, FiniteSets, FiniteSetsExt

CONSTANTS
    Calls,             \* requests served at a time
    Windows,           \* the windows requested
    Emails,
    RegisteredAt,      \* when each email registers at the source
    Contracts,         \* the contracts there may be, see Contract
    MaxTime,           \* bound: the clock
    MaxFlight,         \* bound: how long a call waits for the two services
    MaxCopies,         \* bound: deliveries of an email
    MaxRevokes, MaxProbes, MaxExports, MaxWaives, MaxCrashes   \* bounds

None == -1
Instants == 0 .. MaxTime
Connectors == {"source", "destination"}
MissingType == {"missing_destination_records", "partial_delivery"}

Contract ==
    {c \in [mode : {"reconciliation", "aggregate_check"},
            target : {"medium", "high"},
            delay : Nat, count : Nat, percentage : 0 .. 100, retention : Nat] :
        /\ c.mode = "aggregate_check" => c.target = "medium"
        /\ c.retention > MaxFlight}

ASSUME ReconciliationAssumption ==
    /\ IsFiniteSet(Emails)
    /\ Windows \subseteq [start : Nat, end : Nat]
    /\ RegisteredAt \in [Emails -> SUBSET Nat]
    /\ Problems = MissingType \cup {"connector_unavailable"}
    /\ Contracts \subseteq Contract
    /\ MaxTime \in Nat /\ MaxFlight \in Nat
    /\ MaxCopies \in Nat /\ MaxRevokes \in Nat /\ MaxProbes \in Nat
    /\ MaxExports \in Nat /\ MaxWaives \in Nat /\ MaxCrashes \in Nat

VARIABLES
    contract,    \* the contract, fixed in a run
    now,
    delivered,   \* the instants at which an email has reached the destination
    connector,   \* connectors.status
    probing,     \* a probe of the connector waits for its answer
    run,         \* reconciliation_runs, by window
    items,       \* reconciliation_items, by window: one set for each insertItems
    referenced,  \* an audit event or an export token refers to the run
    call,        \* the calls of runWindow
    telling,     \* the incident that is stored but not announced yet, or 0
    cut,         \* history: those whose announcement a death has prevented
    waived,
    revokes, probes, exports, crashes

bounds == <<revokes, probes, exports, crashes>>
vars == <<contract, incidents, now, delivered, connector, probing, run, items,
          referenced, call, telling, cut, waived, bounds>>

MatchStatus == {"matched", "missing", "duplicate", "late", "waiting"}
NoRun == [status |-> "none"]
Idle == [at |-> "idle"]
NoMatch == [items |-> {}, source |-> 0, matched |-> 0, missing |-> 0,
            duplicate |-> 0, late |-> 0, waiting |-> 0]

Match ==
    [items : SUBSET (Emails \X MatchStatus), source : Nat, matched : Nat,
     missing : Nat, duplicate : Nat, late : Nat, waiting : Nat]

Run ==
    [status : {"running", "healthy", "warning", "failed"}, found : Match,
     evidence : {"medium", "high"}, started : Instants,
     completed : Instants \cup {None},
     error : {"none", "source", "destination", "constraint"}]

TypeOK ==
    /\ contract \in Contracts
    /\ incidents \in Seq(Incident)
    /\ now \in Instants
    /\ delivered \in [Emails -> SUBSET Instants]
    /\ connector \in [Connectors -> {"active", "invalid", "disconnected"}]
    /\ probing \in [Connectors -> BOOLEAN]
    /\ DOMAIN run = Windows
    /\ \A w \in Windows : run[w] = NoRun \/ run[w] \in Run
    /\ items \in [Windows -> Seq(SUBSET (Emails \X MatchStatus))]
    /\ referenced \in [Windows -> BOOLEAN]
    /\ \A w \in Windows : run[w] = NoRun => items[w] = <<>> /\ ~referenced[w]
    /\ DOMAIN call = Calls
    /\ \A k \in Calls :
          \/ call[k] = Idle
          \/ /\ call[k].at \in {"source", "destination", "answered", "insert",
                                "update", "incidents", "purge", "failed"}
             /\ call[k].window \in Windows
             /\ call[k].began \in Instants
             /\ call[k].match \in Match
    /\ telling \in DOMAIN incidents \cup {0}
    /\ cut \subseteq DOMAIN incidents
    /\ waived \in 0 .. MaxWaives
    /\ revokes \in 0 .. MaxRevokes /\ probes \in 0 .. MaxProbes
    /\ exports \in 0 .. MaxExports /\ crashes \in 0 .. MaxCrashes

Init ==
    /\ contract \in Contracts
    /\ incidents = <<>>
    /\ now = 0
    /\ delivered = [e \in Emails |-> {}]
    /\ connector = [c \in Connectors |-> "active"]
    /\ probing = [c \in Connectors |-> FALSE]
    /\ run = [w \in Windows |-> NoRun]
    /\ items = [w \in Windows |-> <<>>]
    /\ referenced = [w \in Windows |-> FALSE]
    /\ call = [k \in Calls |-> Idle]
    /\ telling = 0 /\ cut = {}
    /\ waived = 0
    /\ revokes = 0 /\ probes = 0 /\ exports = 0 /\ crashes = 0

-----------------------------------------------------------------------------
(* Matching                                                                *)

Within(w, t) == w.start <= t /\ t <= w.end
SeenIn(rows) == {row[1] : row \in rows}

\* What the services list for a window.
SourceRows(w) ==
    {row \in Emails \X Instants :
        row[2] \in RegisteredAt[row[1]] /\ row[2] <= now /\ Within(w, row[2])}
DestinationRows(w) ==
    {row \in Emails \X Instants :
        row[2] \in delivered[row[1]] /\ Within(w, row[2])}

Arrivals(e, rows) == {row[2] : row \in {r \in rows : r[1] = e}}

Punctuality(e, first, rows) ==
    IF Min(Arrivals(e, rows)) <= first[e] + contract.delay THEN "matched" ELSE "late"

\* first[e] is the registration the source lists first.
StatusOf(e, first, rows) ==
    IF Arrivals(e, rows) = {}
    THEN IF now <= first[e] + contract.delay THEN "waiting" ELSE "missing"
    ELSE Punctuality(e, first, rows)

\* matchByNormalizedEmail: repeated rows of either side are duplicates.
ByEmail(first, source, destination) ==
    LET seen == SeenIn(source)
        at(s) == {e \in seen : StatusOf(e, first, destination) = s}
        again == {e \in seen : Cardinality(Arrivals(e, source)) > 1}
    IN  [items |-> {<<e, StatusOf(e, first, destination)>> : e \in seen}
                       \cup {<<e, "duplicate">> : e \in again},
         source |-> Cardinality(source),
         matched |-> Cardinality(at("matched")),
         missing |-> Cardinality(at("missing")),
         late |-> Cardinality(at("late")),
         waiting |-> Cardinality(at("waiting")),
         duplicate |-> Cardinality(source) - Cardinality(seen)
                       + Cardinality(destination) - Cardinality(SeenIn(destination))]

\* The branch of aggregate_check.
Aggregate(source, destination) ==
    LET gap == Cardinality(source) - Cardinality(destination)
    IN  [NoMatch EXCEPT !.source = Cardinality(source),
                        !.matched = Cardinality(source) - (IF gap > 0 THEN gap ELSE 0),
                        !.missing = IF gap > 0 THEN gap ELSE 0]

\* evaluateMissingAgainstPolicy, and a warning while emails may still arrive.
Verdict(m) ==
    IF m.missing = 0
    THEN IF m.waiting > 0 THEN "warning" ELSE "healthy"
    ELSE IF \/ m.missing <= contract.count
            \/ m.missing * 100 <= contract.percentage * m.source
         THEN "warning" ELSE "failed"

\* Mutant: emails that may still arrive are no objection.
EvidenceHopeful(m) ==
    IF contract.target = "high" /\ m.missing = 0 /\ m.duplicate = 0
    THEN "high" ELSE "medium"

\* evidenceFinal, or evidenceLevelAchievedForRun of a count.
Evidence(m) ==
    IF /\ contract.mode = "reconciliation" /\ contract.target = "high"
       /\ m.missing = 0 /\ m.waiting = 0 /\ m.duplicate = 0
    THEN "high" ELSE "medium"

-----------------------------------------------------------------------------
(* Incidents                                                               *)

\* Mutant: every observation is announced.
ReportAgain(p) ==
    IF Unresolved(incidents, p) = {}
    THEN incidents' = Opened(incidents, p) /\ telling' = Len(incidents) + 1
    ELSE telling' \in Unresolved(incidents, p) /\ UNCHANGED incidents

\* openOrObserveIncident: an outbox row is due on first open only.
Report(p) ==
    IF Unresolved(incidents, p) = {}
    THEN incidents' = Opened(incidents, p) /\ telling' = Len(incidents) + 1
    ELSE UNCHANGED <<incidents, telling>>

\* resolveOutcomeMissing
ResolveMissing(rows) ==
    [i \in DOMAIN rows |->
        IF \E p \in MissingType : i \in Unresolved(rows, p)
        THEN [rows[i] EXCEPT !.status = "resolved", !.recovered = TRUE]
        ELSE rows[i]]

ResolveAll == incidents' = ResolveMissing(incidents) /\ UNCHANGED telling

\* Mutant: only a window without a single delivery is reported.
SyncAllOrNothing(m) ==
    IF m.missing = 0 /\ m.waiting = 0 THEN ResolveAll
    ELSE IF m.missing > 0 /\ m.matched + m.late = 0
         THEN Report("missing_destination_records")
         ELSE UNCHANGED <<incidents, telling>>

\* syncOutcomeIncidents with planOutcomeIncidents, or applyIncidentsForAggregate.
Sync(m) ==
    IF m.missing = 0 /\ (m.waiting = 0 \/ contract.mode = "aggregate_check")
    THEN ResolveAll
    ELSE IF m.missing > 0
         THEN Report(IF contract.mode = "reconciliation" /\ m.matched + m.late > 0
                     THEN "partial_delivery" ELSE "missing_destination_records")
         ELSE IF m.duplicate > 0 THEN Report("partial_delivery")
         ELSE UNCHANGED <<incidents, telling>>

-----------------------------------------------------------------------------
(* runWindow                                                               *)

\* Every handler runs to its next await before another one starts.
Statements == {"insert", "update", "incidents", "purge", "failed"}
LoopFree == telling = 0 /\ \A k \in Calls : call[k].at \notin Statements

Readable == \A c \in Connectors : connector[c] = "active"

\* The UPDATE of the catch block; it leaves the counts alone.
Failed(r, error) ==
    [r EXCEPT !.status = "failed", !.evidence = "medium", !.completed = now,
              !.error = error]

Started ==
    [status |-> "running", found |-> NoMatch, evidence |-> "medium",
     started |-> now, completed |-> None, error |-> "none"]

\* A connector that is not active: runWindow throws.
Refuse(k) ==
    /\ LoopFree
    /\ call[k] = Idle
    /\ ~Readable
    /\ Report("connector_unavailable")
    /\ UNCHANGED <<contract, now, delivered, connector, probing, run, items,
                   referenced, call, cut, waived, bounds>>

\* enqueueOutbox, the statement after the INSERT of an incident.
Announce ==
    /\ telling # 0
    /\ incidents' = Told(incidents, telling, "opened")
    /\ telling' = 0
    /\ UNCHANGED <<contract, now, delivered, connector, probing, run, items,
                   referenced, call, cut, waived, bounds>>

\* Mutant: any row of the window answers the request.
AnsweredByAny(w) == run[w] # NoRun

\* A finished run of the window answers the request.
AnsweredBy(w) == run[w] # NoRun /\ run[w].status # "running"

Hit(k, w) ==
    /\ LoopFree
    /\ call[k] = Idle
    /\ Readable
    /\ AnsweredBy(w)
    /\ referenced' = [referenced EXCEPT ![w] = TRUE]
    /\ UNCHANGED <<contract, incidents, now, delivered, connector, probing,
                   run, items, call, telling, cut, waived, bounds>>

\* deleteItemsForRun
Kept(w) == <<>>

Start(k, w) ==
    /\ LoopFree
    /\ call[k] = Idle
    /\ Readable
    /\ ~AnsweredBy(w)
    /\ IF run[w] = NoRun
       THEN /\ run' = [run EXCEPT ![w] = Started]
            /\ UNCHANGED <<items, referenced>>
       ELSE /\ run' = [run EXCEPT ![w].status = "running", ![w].completed = None,
                                  ![w].started = now]
            /\ items' = [items EXCEPT ![w] = Kept(w)]
            /\ referenced' = [referenced EXCEPT ![w] = TRUE]
    /\ call' = [call EXCEPT ![k] = [at |-> "source", window |-> w, began |-> now,
                                    match |-> NoMatch]]
    /\ UNCHANGED <<contract, incidents, now, delivered, connector, probing,
                   telling, cut, waived, bounds>>

\* The source has listed its rows, in any order.
SourceAnswers(k) ==
    /\ LoopFree
    /\ call[k].at = "source"
    /\ LET rows == SourceRows(call[k].window)
       IN  \E first \in [SeenIn(rows) -> Instants] :
              /\ \A e \in SeenIn(rows) : <<e, first[e]>> \in rows
              /\ call' = [call EXCEPT ![k] =
                            [at |-> "destination", window |-> @.window,
                             began |-> @.began, match |-> NoMatch,
                             source |-> rows, first |-> first]]
    /\ UNCHANGED <<contract, incidents, now, delivered, connector, probing,
                   run, items, referenced, telling, cut, waived, bounds>>

\* The destination lists its rows; its answer is under way.
DestinationReads(k) ==
    /\ call[k].at = "destination"
    /\ call' = [call EXCEPT ![k] =
                  [at |-> "answered", window |-> @.window, began |-> @.began,
                   match |-> NoMatch, source |-> @.source, first |-> @.first,
                   destination |-> DestinationRows(@.window)]]
    /\ UNCHANGED <<contract, incidents, now, delivered, connector, probing,
                   run, items, referenced, telling, cut, waived, bounds>>

\* fetchHubSpotWebinarRegistrations or fetchZoomWebinarRegistrants is rejected.
FetchFails(k) ==
    /\ LoopFree
    /\ call[k].at \in Connectors
    /\ Report("connector_unavailable")
    /\ call' = [call EXCEPT ![k] = [at |-> "failed", window |-> @.window,
                                    began |-> @.began, match |-> NoMatch,
                                    error |-> @.at]]
    /\ UNCHANGED <<contract, now, delivered, connector, probing, run, items,
                   referenced, cut, waived, bounds>>

\* The catch block around the whole of it.
FailRun(k) ==
    /\ telling = 0
    /\ call[k].at = "failed"
    /\ run' = [run EXCEPT ![call[k].window] = Failed(@, call[k].error)]
    /\ call' = [call EXCEPT ![k] = Idle]
    /\ UNCHANGED <<contract, incidents, now, delivered, connector, probing, items,
                   referenced, telling, cut, waived, bounds>>

\* Both answers are there: recordHealth of both connectors, and the match.
Answered(k) ==
    /\ LoopFree
    /\ call[k].at = "answered"
    /\ connector' = [c \in Connectors |-> "active"]
    /\ LET m == IF contract.mode = "reconciliation"
                THEN ByEmail(call[k].first, call[k].source, call[k].destination)
                ELSE Aggregate(call[k].source, call[k].destination)
       IN  call' = [call EXCEPT ![k] =
                      [at |-> IF contract.mode = "reconciliation"
                              THEN "insert" ELSE "update",
                       window |-> @.window, began |-> @.began, match |-> m]]
    /\ UNCHANGED <<contract, incidents, now, delivered, probing, run, items,
                   referenced, telling, cut, waived, bounds>>

InsertItems(k) ==
    /\ call[k].at = "insert"
    /\ items' = [items EXCEPT ![call[k].window] = Append(@, call[k].match.items)]
    /\ call' = [call EXCEPT ![k].at = "update"]
    /\ UNCHANGED <<contract, incidents, now, delivered, connector, probing,
                   run, referenced, telling, cut, waived, bounds>>

UpdateRun(k) ==
    /\ call[k].at = "update"
    /\ run' = [run EXCEPT ![call[k].window] =
                 [@ EXCEPT !.status = Verdict(call[k].match),
                           !.found = [call[k].match EXCEPT !.items = {}],
                           !.evidence = Evidence(call[k].match),
                           !.completed = now, !.error = "none"]]
    /\ call' = [call EXCEPT ![k].at = "incidents"]
    /\ UNCHANGED <<contract, incidents, now, delivered, connector, probing,
                   items, referenced, telling, cut, waived, bounds>>

SyncIncidents(k) ==
    /\ telling = 0
    /\ call[k].at = "incidents"
    /\ Sync(call[k].match)
    /\ call' = [call EXCEPT ![k] = IF contract.mode = "reconciliation"
                                   THEN [@ EXCEPT !.at = "purge"] ELSE Idle]
    /\ UNCHANGED <<contract, now, delivered, connector, probing, run, items,
                   referenced, cut, waived, bounds>>

Expired ==
    {w \in Windows : run[w] # NoRun /\ run[w].completed # None
                                     /\ run[w].completed < now - contract.retention}

\* purgeExpiredEvidence deletes one run after the other.  A run that is
\* referenced loses its items, but its row cannot be deleted: the call throws,
\* and its own run has failed.
Purge(k) ==
    /\ telling = 0
    /\ call[k].at = "purge"
    /\ \E gone \in SUBSET (Expired \ {w \in Expired : referenced[w]}),
          stuck \in SUBSET {w \in Expired : referenced[w]} :
          /\ Cardinality(stuck) <= 1
          /\ stuck = {} => gone = Expired
          /\ items' = [w \in Windows |-> IF w \in gone \cup stuck THEN <<>> ELSE items[w]]
          /\ run' = [w \in Windows |->
                       IF w \in gone THEN NoRun
                       ELSE IF stuck # {} /\ w = call[k].window
                            THEN Failed(run[w], "constraint") ELSE run[w]]
    /\ call' = [call EXCEPT ![k] = Idle]
    /\ UNCHANGED <<contract, incidents, now, delivered, connector, probing,
                   referenced, telling, cut, waived, bounds>>

-----------------------------------------------------------------------------
(* The other handlers, and the environment                                 *)

StartProbe(c) ==
    /\ LoopFree
    /\ ~probing[c]
    /\ probes < MaxProbes
    /\ probing' = [probing EXCEPT ![c] = TRUE]
    /\ probes' = probes + 1
    /\ UNCHANGED <<contract, incidents, now, delivered, connector, run, items,
                   referenced, call, telling, cut, waived, revokes, exports,
                   crashes>>

FinishProbe(c) ==
    /\ LoopFree
    /\ probing[c]
    /\ \/ /\ connector' = [connector EXCEPT ![c] = "active"]
          /\ UNCHANGED <<incidents, telling>>
       \/ /\ connector' = [connector EXCEPT ![c] = "invalid"]
          /\ Report("connector_unavailable")
    /\ probing' = [probing EXCEPT ![c] = FALSE]
    /\ UNCHANGED <<contract, now, delivered, run, items, referenced, call, cut,
                   waived, bounds>>

Revoke(c) ==
    /\ LoopFree
    /\ revokes < MaxRevokes
    /\ connector' = [connector EXCEPT ![c] = "disconnected"]
    /\ revokes' = revokes + 1
    /\ UNCHANGED <<contract, incidents, now, delivered, probing, run, items,
                   referenced, call, telling, cut, waived, probes, exports,
                   crashes>>

\* waiveMissing
Waive ==
    /\ LoopFree
    /\ waived < MaxWaives
    /\ ResolveAll
    /\ waived' = waived + 1
    /\ UNCHANGED <<contract, now, delivered, connector, probing, run, items,
                   referenced, call, cut, bounds>>

\* A token, and an audit event, for the run of a window.
Export(w) ==
    /\ LoopFree
    /\ run[w] # NoRun
    /\ exports < MaxExports
    /\ referenced' = [referenced EXCEPT ![w] = TRUE]
    /\ exports' = exports + 1
    /\ UNCHANGED <<contract, incidents, now, delivered, connector, probing,
                   run, items, call, telling, cut, waived, revokes, probes,
                   crashes>>

Deliver(e) ==
    /\ \E t \in RegisteredAt[e] : t <= now
    /\ Cardinality(delivered[e]) < MaxCopies
    /\ now \notin delivered[e]
    /\ delivered' = [delivered EXCEPT ![e] = @ \cup {now}]
    /\ UNCHANGED <<contract, incidents, now, connector, probing, run, items,
                   referenced, call, telling, cut, waived, bounds>>

\* The statements between two awaits take no time to speak of.
Time ==
    /\ LoopFree
    /\ now < MaxTime
    /\ \A k \in Calls : call[k] # Idle => now < call[k].began + MaxFlight
    /\ now' = now + 1
    /\ UNCHANGED <<contract, incidents, delivered, connector, probing, run,
                   items, referenced, call, telling, cut, waived, bounds>>

Crash ==
    /\ crashes < MaxCrashes
    /\ crashes' = crashes + 1
    /\ call' = [k \in Calls |-> Idle]
    /\ probing' = [c \in Connectors |-> FALSE]
    /\ telling' = 0
    /\ cut' = cut \cup ({telling} \ {0})
    /\ UNCHANGED <<contract, incidents, now, delivered, connector, run, items,
                   referenced, waived, revokes, probes, exports>>

Proceed(k) ==
    \/ SourceAnswers(k) \/ DestinationReads(k) \/ FetchFails(k) \/ FailRun(k)
    \/ Answered(k)
    \/ InsertItems(k) \/ UpdateRun(k) \/ SyncIncidents(k) \/ Purge(k)

Next ==
    \/ \E k \in Calls : Refuse(k) \/ Proceed(k)
    \/ \E k \in Calls, w \in Windows : Hit(k, w) \/ Start(k, w)
    \/ \E c \in Connectors : StartProbe(c) \/ FinishProbe(c) \/ Revoke(c)
    \/ Announce
    \/ Waive
    \/ \E w \in Windows : Export(w)
    \/ \E e \in Emails : Deliver(e)
    \/ Time
    \/ Crash

Spec == Init /\ [][Next]_vars

\* A fetch has timeouts; every window is requested again and again; emails get
\* delivered sooner or later.
FairSpec ==
    /\ Spec
    /\ WF_vars(Time)
    /\ WF_vars(Announce)
    /\ \A k \in Calls : WF_vars(Proceed(k))
    /\ \A w \in Windows : WF_vars(\E k \in Calls : Hit(k, w) \/ Start(k, w))
    /\ \A e \in Emails : WF_vars(delivered[e] = {} /\ Deliver(e))

-----------------------------------------------------------------------------
(* The catalog                                                             *)

\* The row of the contract is about the run that was started last.
LatestRuns ==
    {w \in Windows : run[w] # NoRun
        /\ \A v \in Windows : run[v] # NoRun => run[v].started <= run[w].started}

RunFresh(w) == run[w].completed # None /\ run[w].status # "failed"

\* What was found last caps what the contract declares.
EvidenceShown(w) ==
    EffectiveLevel(contract.target, RunFresh(w),
                   contract.mode = "reconciliation" /\ RunFresh(w)
                       /\ run[w].evidence = "high",
                   ~Readable)

\* queryOutcomeCatalogRows, with the severity of the incident it finds first.
OutcomeRow(w, severity) ==
    LET open == \E p \in Problems : Unresolved(incidents, p) # {}
        health == CASE run[w].status = "failed" -> "overdue"
                    [] run[w].status = "running" -> "unknown"
                    [] OTHER -> run[w].status
    IN  [active |-> TRUE, kind |-> "outcome", missing |-> run[w].found.missing,
         schedule |-> IF open /\ severity = "critical" THEN "overdue" ELSE health,
         output |-> "not_configured", freshness |-> "not_configured",
         reconciliation |-> "not_configured", unreachable |-> FALSE,
         incident |-> IF open THEN severity ELSE "none", channel |-> "none"]

-----------------------------------------------------------------------------
(* Properties                                                              *)

\* The catalog is earned: while it shows the outcome as satisfied, or its
\* evidence as high, every email that had registered when the latest run began
\* has been delivered, whatever has happened since, and none is said to miss.
GreenIsDelivered ==
    \A w \in LatestRuns, severity \in {"warning", "critical"} :
        LET row == OutcomeRow(w, severity)
        IN  contract.mode = "reconciliation" /\ (Satisfied(row) \/ EvidenceShown(w) = "high") =>
              /\ ~OutcomeMissing(row)
              /\ \A e \in Emails :
                    (\E t \in RegisteredAt[e] : t <= run[w].started /\ Within(w, t)) =>
                      \E t \in delivered[e] : Within(w, t)

\* An incident of the contract is announced exactly once, however many runs
\* and probes observe it, unless the process dies between storing and announcing
\* it: then it never is.
AnnouncedOnce ==
    /\ \A i \in DOMAIN incidents :
          incidents[i].told["opened"] = IF i = telling \/ i \in cut THEN 0 ELSE 1
    /\ Cardinality(cut) <= crashes

Alarmed == \E p \in MissingType : Unresolved(incidents, p) # {}
Settled == LoopFree /\ crashes = 0

\* No other window was settled since, or at the same time.
SettledLast(w) ==
    \A v \in Windows \ {w} : run[v] # NoRun => run[v].completed < run[w].completed

\* What a finished run has found is what anybody gets to see, whatever was cut
\* short before: each email is an item of it once, and while the latest run
\* misses some, an incident is open or somebody has waived it.  A run of another
\* window may end the alarm: incidents are kept by contract and type.
MissingIsReported ==
    \A w \in Windows :
      /\ run[w] # NoRun /\ run[w].status # "running" /\ run[w].error = "none"
            /\ contract.mode = "reconciliation" /\ w \notin Expired =>
          /\ Len(items[w]) = 1
          /\ \A s \in {"matched", "missing", "late", "waiting"} :
                Cardinality({i \in items[w][1] : i[2] = s}) = run[w].found[s]
      /\ Settled /\ run[w] # NoRun /\ run[w].status \in {"warning", "failed"}
            /\ run[w].error = "none" /\ run[w].found.missing > 0 /\ SettledLast(w) =>
          Alarmed \/ waived > 0

\* No run stays "running", although processes die, while its connectors can be
\* read.
EveryRunEnds ==
    \A w \in Windows :
        (run[w] # NoRun /\ run[w].status = "running")
            ~> (~Readable \/ (run[w] # NoRun => run[w].status # "running"))
=============================================================================
