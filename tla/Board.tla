---------------------------------- MODULE Board ---------------------------------
(***************************************************************************)
(* What a catalog row is called: the dimensions of a contract, the badge   *)
(* they roll up to, the bucket it is sorted into, whether the summary      *)
(* counts it, the evidence level it may claim and the status of a client   *)
(* (domain/health, domain/catalog, domain/evidence, domain/clients).       *)
(* Operators only; a row is a record                                       *)
(*   [active, schedule, output, freshness, reconciliation : what is known, *)
(*    unreachable, incident, channel, kind, missing].                      *)
(***************************************************************************)
EXTENDS Integers, FiniteSets, SequencesExt

Dimensions == {"healthy", "breached", "unknown", "not_configured"}
Levels == <<"basic", "medium", "high">>

\* The place of x in a list of ranks.
RankIn(list, x) == CHOOSE k \in DOMAIN list : list[k] = x

\* shouldSuppressSilentAbsence
Unreachable(method, health) ==
    method = "poll" /\ health \in {"unreachable", "auth_failed", "misconfigured"}

-----------------------------------------------------------------------------
(* Dimensions                                                              *)

ScheduleDimension(schedule) ==
    CASE schedule \in {"overdue", "warning"} -> "breached"
      [] schedule = "inactive" -> "not_configured"
      [] OTHER -> schedule

OutputDimension(breached, configured) ==
    IF breached THEN "breached" ELSE IF configured THEN "healthy" ELSE "not_configured"

\* Freshness and the reported effects are unknown until something is reported.
ReportedDimension(configured, breached, unknown) ==
    IF ~configured THEN "not_configured"
    ELSE IF breached THEN "breached" ELSE IF unknown THEN "unknown" ELSE "healthy"

Breached(row) ==
    "breached" \in {row.output, row.freshness, row.reconciliation}

\* Mutant: whether the monitor can be reached is asked last.
BadgeReachedLast(row) ==
    IF row.schedule = "inactive" THEN "inactive"
    ELSE IF ScheduleDimension(row.schedule) = "breached" THEN row.schedule
    ELSE IF row.schedule = "unknown" THEN "unknown" ELSE "healthy"

\* rollUpCatalogDisplayHealth
Badge(row) ==
    IF row.unreachable THEN "monitor_unknown"
    ELSE IF row.schedule = "inactive" THEN "inactive"
    ELSE IF ScheduleDimension(row.schedule) = "breached" THEN row.schedule
    ELSE IF Breached(row) THEN "warning"
    ELSE row.schedule

-----------------------------------------------------------------------------
(* Alert channels, order, summary                                          *)

ChannelRanks == <<"failing", "degraded", "unknown", "healthy">>

\* pickWorstAlertHealth
WorstChannel(healths) ==
    IF healths = {} THEN "none"
    ELSE CHOOSE h \in healths : \A g \in healths : RankIn(ChannelRanks, h) <= RankIn(ChannelRanks, g)

Buckets == <<"critical_incident", "alert_channel_failing", "monitor_unknown", "overdue",
             "warning", "unknown", "healthy", "inactive">>

\* catalogSortBucket
Bucket(row) ==
    IF row.incident = "critical" THEN "critical_incident"
    ELSE IF row.channel = "failing" THEN "alert_channel_failing"
    ELSE Badge(row)

Before(a, b) == RankIn(Buckets, Bucket(a)) < RankIn(Buckets, Bucket(b))

\* summarizeCatalog
Satisfied(row) == row.active /\ Badge(row) = "healthy" /\ row.incident # "critical"

NeedsAttention(row) ==
    /\ row.active
    /\ \/ Badge(row) \in {"overdue", "warning", "monitor_unknown"}
       \/ row.incident # "none"
       \/ row.channel \in {"failing", "degraded"}

OutcomeMissing(row) == row.active /\ row.kind = "outcome" /\ row.missing > 0

-----------------------------------------------------------------------------
(* Evidence and clients                                                    *)

\* resolveEffectiveEvidenceLevel: what is proved caps what is declared.
EffectiveLevel(declared, aggregate, records, stale) ==
    LET ceiling == IF records THEN 3 ELSE IF aggregate THEN 2 ELSE 1
    IN  IF stale THEN "basic"
        ELSE IF RankIn(Levels, declared) <= ceiling THEN declared ELSE Levels[ceiling]

Delivering(row) == row.active /\ row.channel \in {"healthy", "degraded"}

\* deriveClientProtectionStatus
PageStatus(archived, rows) ==
    IF archived THEN "archived"
    ELSE IF rows # {} /\ \A r \in rows : ~r.active THEN "paused"
    ELSE IF \E r \in rows : Delivering(r) THEN "protected"
    ELSE "onboarding"
=============================================================================
