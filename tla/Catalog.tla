--------------------------------- MODULE Catalog --------------------------------
(***************************************************************************)
(* The pages that say how things stand, computed from the tables of Fleet  *)
(* when they are asked for: a catalog row for every contract of a workflow *)
(* that is not removed (query-catalog.ts), the status of each client, the  *)
(* banner about alert channels and the reporter file of a workflow         *)
(* (ui-product-routes.ts, ui-onboarding-routes.ts).                        *)
(***************************************************************************)
EXTENDS Fleet, Board

\* deriveHealth: what is observed of a workflow whose contract is inactive
\* does not count.
ScheduleHealth(d, i) ==
    LET f == d.contracts[i].flow
    IN  IF d.contracts[i].active /\ d.flow[f].active THEN d.news[f].health ELSE "inactive"

\* Whether an incident of this kind is open.
Open(d, f, kind) == \E o \in d.news[f].open : o.kind = kind

\* Those that come first of what is open: by kind before severity.
Foremost(open) ==
    {o \in open : \A p \in open : RankIn(Kinds, o.kind) <= RankIn(Kinds, p.kind)}

\* The severity of the one incident that a row shows.
IncidentOf(d, f) ==
    IF d.news[f].open = {} THEN "none"
    ELSE IF \E o \in Foremost(d.news[f].open) : o.severity = "critical" THEN "critical"
    ELSE "warning"

\* A disabled channel keeps its state and its routes.
ChannelOf(d, i) == WorstChannel({d.channels[ch].health : ch \in RoutesOf(d, i)})

ConnectorHealth(d, f) ==
    IF d.flow[f].bound = None THEN "none" ELSE d.connector[d.flow[f].bound].health

\* A check counts as configured as long as an incident of it is open.
Row(d, i) ==
    LET f == d.contracts[i].flow
        stale == Open(d, f, "freshness_stale")
        mismatch == Open(d, f, "effect_count_mismatch")
    IN  [flow |-> f, contract |-> i, kind |-> "workflow", missing |-> 0,
         active |-> d.contracts[i].active /\ d.flow[f].active,
         schedule |-> ScheduleHealth(d, i),
         output |-> OutputDimension(Open(d, f, "empty_result"), TRUE),
         freshness |-> ReportedDimension(stale, stale, FALSE),
         reconciliation |-> ReportedDimension(mismatch, mismatch, FALSE),
         unreachable |-> Unreachable(d.flow[f].method, ConnectorHealth(d, f)),
         incident |-> IncidentOf(d, f),
         channel |-> ChannelOf(d, i)]

\* queryContractCatalog leaves out removed workflows.
InCatalog(d, f) == ~d.flow[f].removed

CatalogRows(d) == {Row(d, i) : i \in {j \in Contracts(d) : InCatalog(d, d.contracts[j].flow)}}

RowsOf(d, c) == {r \in CatalogRows(d) : d.flow[r.flow].owner = c}

ClientStatus(d, c) == PageStatus(d.client[c] = "archived", RowsOf(d, c))

\* failingBanner: the channels that are in use.
Banner(d) ==
    {ch \in DOMAIN d.channels : d.channels[ch].live
                                /\ d.channels[ch].health \in {"failing", "degraded"}}

-----------------------------------------------------------------------------
(* Properties                                                              *)

Trouble(r) ==
    \/ r.unreachable \/ r.incident = "critical"
    \/ r.channel = "failing"
    \/ r.schedule \in {"warning", "overdue"} \/ Breached(r)

\* Whatever is watched is on the board, and whatever the board shows as
\* watched is; a contract in trouble is listed before every contract in good
\* order and counted as needing attention, and so counted are one whose
\* workflow has an incident open, of whatever kind and behind whatever other
\* one, and one routed to a channel the banner warns of; and a client that the
\* pages call archived or paused has nothing that is watched, unless it was
\* revived after its removal.
BoardIsHonest ==
    /\ \A f \in Flows : f \notin revived =>
          (Watched(db, f) <=> \E r \in CatalogRows(db) : r.flow = f /\ r.active)
    /\ \A r \in CatalogRows(db) : r.active =>
          /\ \/ Trouble(r)
             \/ db.news[r.flow].open # {}
             \/ RoutesOf(db, r.contract) \cap Banner(db) # {}
             => NeedsAttention(r)
          /\ Trouble(r) => \A s \in CatalogRows(db) :
                               Badge(s) = "healthy" /\ ~Trouble(s) => Before(r, s)
    /\ \A c \in Clients : ClientStatus(db, c) \in {"archived", "paused"} =>
          \A f \in Flows \ revived : db.flow[f].owner = c => ~Watched(db, f)
=============================================================================
