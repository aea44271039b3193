--------------------------------- MODULE Fleet ---------------------------------
(***************************************************************************)
(* What Quorum looks after: clients, workflows, their contracts and        *)
(* credentials, alert channels and the contracts routed to them, and n8n   *)
(* connectors; and the pages by which an administrator changes one of them *)
(* (ui.ts, ui-product-routes.ts, ui-protect-compat-routes.ts).  The tables *)
(* are the fields of db, and a statement is an operator from tables to     *)
(* tables.  A handler that awaits nothing is one step; a form may be sent  *)
(* from a page that is out of date, so that only the handler's own checks  *)
(* guard it.  Rows are never deleted, except connectors and routes.        *)
(***************************************************************************)
EXTENDS Integers, Sequences, FiniteSets, SequencesExt

CONSTANTS
    Clients,        \* names, which are unique
    Flows,          \* external workflow ids, which are unique
    Connectors,     \* n8n_connectors, by id
    None,
    Setups,         \* the settings of a contract: cadence, quiet window, empty policy
    Unsound,        \* those validateWorkflowContract refuses
    Tidings,        \* what may come to be observed of a workflow in a run
    MaxContracts,   \* bound: contracts there are when a form draws up another
    MaxChannels,    \* bound: alert channels created
    MaxCalls        \* bound: requests in a run

\* The incidents of a workflow, in the order in which the catalog prefers them;
\* "other" are those about its volume and its connector.
Kinds == <<"hard_failure", "empty_result", "freshness_stale", "effect_count_mismatch",
           "silent_absence", "other">>
Severities == {"critical", "warning"}

\* The health of its state row, and the incidents of it that are not resolved.
News == [health : {"unknown", "healthy", "warning", "overdue"},
         open : SUBSET [kind : ToSet(Kinds), severity : Severities]]

ASSUME FleetAssumption ==
    /\ IsFiniteSet(Flows)
    /\ Unsound \subseteq Setups /\ Setups # {}
    /\ None \notin Clients \cup Connectors
    /\ Tidings \subseteq News
    /\ MaxContracts \in Nat /\ MaxChannels \in Nat /\ MaxCalls \in Nat

VARIABLES
    db,         \* the tables
    calls,      \* the requests made so far, which also tell the time
    revived     \* history: workflows taken up after they, or their client, were removed

fleetVars == <<db, calls, revived>>

Methods == {"poll", "push"}
FlowRow == [known : BOOLEAN, owner : Clients \cup {None}, method : Methods,
            active : BOOLEAN, removed : BOOLEAN, bound : Connectors \cup {None}]
ContractRow == [flow : Flows, setup : Setups, active : BOOLEAN, at : 0 .. MaxCalls]
KeyRow == [flow : Flows, live : BOOLEAN]
ChannelRow == [live : BOOLEAN, health : {"unknown", "healthy", "degraded", "failing"}]
ConnectorRow == [status : {"none", "active", "disabled", "deleted"},
                 health : {"unknown", "healthy", "unreachable"}]

\* The wizard draws up one contract for a workflow at most.
MostContracts == MaxContracts + Cardinality(Flows)

FleetTypeOK ==
    /\ db.client \in [Clients -> {"none", "onboarding", "protected", "archived"}]
    /\ db.flow \in [Flows -> FlowRow]
    /\ db.contracts \in Seq(ContractRow) /\ Len(db.contracts) <= MostContracts
    /\ db.keys \in Seq(KeyRow)
    /\ db.channels \in Seq(ChannelRow) /\ Len(db.channels) <= MaxChannels
    /\ db.routes \subseteq (DOMAIN db.contracts) \X (DOMAIN db.channels)
    /\ db.connector \in [Connectors -> ConnectorRow]
    /\ db.stated \subseteq Flows
    /\ db.news \in [Flows -> News]
    /\ calls \in 0 .. MaxCalls
    /\ revived \subseteq Flows

NoFlow == [known |-> FALSE, owner |-> None, method |-> "poll", active |-> FALSE,
           removed |-> FALSE, bound |-> None]
NoNews == [health |-> "unknown", open |-> {}]

\* An installation whose administrator has let n8n in, or not yet.
InitFleet ==
    /\ \E k \in Connectors \cup {None} :
          db = [client |-> [c \in Clients |-> "none"],
                flow |-> [f \in Flows |-> NoFlow],
                contracts |-> <<>>, keys |-> <<>>, channels |-> <<>>, routes |-> {},
                connector |-> [j \in Connectors |->
                    IF j = k THEN [status |-> "active", health |-> "healthy"]
                    ELSE [status |-> "none", health |-> "unknown"]],
                stated |-> {}, news |-> [f \in Flows |-> NoNews]]
    /\ calls = 0
    /\ revived = {}

-----------------------------------------------------------------------------
(* Reading the tables                                                      *)

Contracts(d) == DOMAIN d.contracts
ContractsOf(d, f) == {i \in Contracts(d) : d.contracts[i].flow = f}
ActiveOf(d, f) == {i \in ContractsOf(d, f) : d.contracts[i].active}
KeysOf(d, f) == {j \in DOMAIN d.keys : d.keys[j].flow = f}
LiveKeys(d, f) == {j \in KeysOf(d, f) : d.keys[j].live}
RoutesOf(d, i) == {ch \in DOMAIN d.channels : <<i, ch>> \in d.routes}
Exists(d, k) == d.connector[k].status \in {"active", "disabled"}

\* A workflow that the watchdog evaluates and whose reports are taken.
Watched(d, f) == d.flow[f].active /\ ActiveOf(d, f) # {}

\* quorum-reporter.json and the test heartbeat need a credential that is good.
ReporterOffered(d, f) == LiveKeys(d, f) # {} /\ ActiveOf(d, f) # {}

\* The contract created last, 0 for none.
Latest(d, f) ==
    IF ContractsOf(d, f) = {} THEN 0
    ELSE CHOOSE i \in ContractsOf(d, f) : \A j \in ContractsOf(d, f) : j <= i

-----------------------------------------------------------------------------
(* The statements                                                          *)

SetClient(d, c, s) == [d EXCEPT !.client[c] = s]

AddFlow(d, f, c, m) ==
    [d EXCEPT !.flow[f] = [NoFlow EXCEPT !.known = TRUE, !.owner = c, !.method = m]]

BindFlow(d, f, k) == [d EXCEPT !.flow[f].bound = k]

AddContract(d, f, s) ==
    [d EXCEPT !.contracts = Append(@, [flow |-> f, setup |-> s, active |-> FALSE,
                                       at |-> 0])]

SetSetup(d, i, s) == [d EXCEPT !.contracts[i].setup = s]

\* The unique index of active contracts refuses a second one of a workflow.
Refuses(d, i) == ActiveOf(d, d.contracts[i].flow) \ {i} # {}

ActivateContract(d, i, now) ==
    [d EXCEPT !.contracts[i].active = TRUE, !.contracts[i].at = now]

ActivateFlow(d, f, m) == [d EXCEPT !.flow[f].active = TRUE, !.flow[f].method = m]

AddKey(d, f) == [d EXCEPT !.keys = Append(@, [flow |-> f, live |-> TRUE])]

RevokeKey(d, j) == [d EXCEPT !.keys[j].live = FALSE]

\* rotateCredential, a transaction.
RotateKey(d, j) == AddKey(RevokeKey(d, j), d.keys[j].flow)

AddChannel(d) ==
    [d EXCEPT !.channels = Append(@, [live |-> TRUE, health |-> "unknown"])]

\* A route that is there already is not inserted again.
AddRoute(d, i, ch) == [d EXCEPT !.routes = @ \cup {<<i, ch>>}]

\* upsertWorkflowState: the state row is there, its health is unknown; what is
\* open stays so.
Seed(d, f) == [d EXCEPT !.stated = @ \cup {f},
                        !.news[f] = [health |-> "unknown", open |-> @.open]]

AddConnector(d, k) ==
    [d EXCEPT !.connector[k] = [status |-> "active", health |-> "unknown"]]

\* updateConnectorHealth updates no row where the connector is gone.
SetHealth(d, k, h) == IF Exists(d, k) THEN [d EXCEPT !.connector[k].health = h] ELSE d

\* deleteConnector, a transaction.
DropConnector(d, k) ==
    [d EXCEPT !.connector[k].status = "deleted",
              !.flow = [f \in Flows |-> IF @[f].bound = k
                                        THEN [@[f] EXCEPT !.bound = None] ELSE @[f]]]

\* Mutant: the credentials of a removed workflow stay good.
RemoveFlowsNotKeys(d, S) ==
    [d EXCEPT !.contracts = [i \in DOMAIN @ |-> IF @[i].flow \in S
                                THEN [@[i] EXCEPT !.active = FALSE] ELSE @[i]],
              !.routes = {r \in @ : d.contracts[r[1]].flow \notin S},
              !.flow = [f \in Flows |-> IF f \notin S THEN @[f]
                          ELSE [@[f] EXCEPT !.active = FALSE, !.bound = None,
                                            !.removed = TRUE]]]

\* removeWorkflow, a transaction, for those of S that are not removed yet.
RemoveFlows(d, S) ==
    LET gone == {f \in S : ~d.flow[f].removed}
    IN  [d EXCEPT !.contracts = [i \in DOMAIN @ |-> IF @[i].flow \in gone
                                    THEN [@[i] EXCEPT !.active = FALSE] ELSE @[i]],
                  !.routes = {r \in @ : d.contracts[r[1]].flow \notin gone},
                  !.keys = [j \in DOMAIN @ |-> IF @[j].flow \in gone
                              THEN [@[j] EXCEPT !.live = FALSE] ELSE @[j]],
                  !.flow = [f \in Flows |-> IF f \notin gone THEN @[f]
                              ELSE [@[f] EXCEPT !.active = FALSE, !.bound = None,
                                                !.removed = TRUE]]]

\* removeClient, a transaction around those of its workflows.
ArchiveClient(d, c) ==
    SetClient(RemoveFlows(d, {f \in Flows : d.flow[f].known /\ d.flow[f].owner = c}),
              c, "archived")

-----------------------------------------------------------------------------
(* The gate of an activation                                               *)

\* A channel counts as tested as soon as anything was sent to it: the row of
\* its state is written by failures, too.
Tested(d, ch) == d.channels[ch].health # "unknown"

\* validateWorkflowContract, for the activation of contract i.
MayActivate(d, i, acknowledged) ==
    /\ acknowledged \/ \E ch \in RoutesOf(d, i) : Tested(d, ch)
    /\ d.contracts[i].setup \notin Unsound

-----------------------------------------------------------------------------
(* Pages                                                                   *)

Request ==
    /\ calls < MaxCalls
    /\ calls' = calls + 1

\* Workflow f, for client c where it is new, is taken up after a removal.
TakenUp(d, f, c) ==
    d.flow[f].removed \/ (~d.flow[f].known /\ c # None /\ d.client[c] = "archived")

Touch(f, c) == revived' = IF TakenUp(db, f, c) THEN revived \cup {f} ELSE revived

RegisterWorkflow(f, m) ==
    /\ Request
    /\ ~db.flow[f].known
    /\ db' = AddFlow(db, f, None, m)
    /\ UNCHANGED revived

DeleteWorkflow(f) ==
    /\ Request
    /\ db.flow[f].known
    /\ db' = RemoveFlows(db, {f})
    /\ revived' = IF db.flow[f].removed THEN revived ELSE revived \ {f}

BindConnector(f, k) ==
    /\ Request
    /\ db.flow[f].known /\ Exists(db, k)
    /\ db' = BindFlow(db, f, k)
    /\ Touch(f, None)

IssueKey(f) ==
    /\ Request
    /\ db.flow[f].known
    /\ db' = AddKey(db, f)
    /\ Touch(f, None)

\* Mutant: a credential that was revoked is rotated, too.
RotateAnyCredential(j) ==
    /\ Request
    /\ db' = RotateKey(db, j)
    /\ UNCHANGED revived

RotateCredential(j) ==
    /\ Request
    /\ db.keys[j].live
    /\ db' = RotateKey(db, j)
    /\ UNCHANGED revived

RevokeCredential(j) ==
    /\ Request
    /\ db.keys[j].live
    /\ db' = RevokeKey(db, j)
    /\ UNCHANGED revived

\* POST /contracts/:id/cadence
EditCadence(i, s) ==
    /\ Request
    /\ s # db.contracts[i].setup
    /\ db' = SetSetup(db, i, s)
    /\ UNCHANGED revived

\* POST /catalog/contracts/:workflowId/edit takes a contract of the workflow,
\* whichever the database finds first; where the last report was empty, an
\* incident about it is there at once.
EditContract(f, i, s) ==
    /\ Request
    /\ i \in ContractsOf(db, f)
    /\ s # db.contracts[i].setup
    /\ \E opened \in {{}, {[kind |-> "empty_result", severity |-> "critical"]}} :
          /\ opened # {} => db.news[f] # NoNews
          /\ db' = [SetSetup(db, i, s) EXCEPT !.news[f] =
                        [health |-> @.health, open |-> @.open \cup opened]]
    /\ UNCHANGED revived

\* The workflow itself stays active.
DeactivateContract(i) ==
    /\ Request
    /\ db.contracts[i].active
    /\ db' = [db EXCEPT !.contracts[i].active = FALSE]
    /\ UNCHANGED revived

CreateChannel ==
    /\ Request
    /\ Len(db.channels) < MaxChannels
    /\ db' = AddChannel(db)
    /\ UNCHANGED revived

\* POST /alerts/:id/test, at the end of its await, or a delivery of the outbox.
ChannelAnswers(ch, h) ==
    /\ Request
    /\ h # db.channels[ch].health
    /\ db' = [db EXCEPT !.channels[ch].health = h]
    /\ UNCHANGED revived

\* Its routes and its state stay.
DisableChannel(ch) ==
    /\ Request
    /\ db.channels[ch].live
    /\ db' = [db EXCEPT !.channels[ch].live = FALSE]
    /\ UNCHANGED revived

RemoveClient(c) ==
    /\ Request
    /\ db.client[c] \notin {"none", "archived"}
    /\ db' = ArchiveClient(db, c)
    /\ revived' = {f \in revived : db.flow[f].removed \/ db.flow[f].owner # c}

CreateConnector(k) ==
    /\ Request
    /\ db.connector[k].status = "none"
    /\ db' = AddConnector(db, k)
    /\ UNCHANGED revived

DisableConnector(k) ==
    /\ Request
    /\ db.connector[k].status = "active"
    /\ db' = [db EXCEPT !.connector[k].status = "disabled"]
    /\ UNCHANGED revived

DeleteConnector(k) ==
    /\ Request
    /\ Exists(db, k)
    /\ db' = DropConnector(db, k)
    /\ UNCHANGED revived

\* POST /connectors/n8n/:id/test, or a poll, at the end of its await.
ConnectorAnswers(k, h) ==
    /\ Request
    /\ Exists(db, k) /\ h # db.connector[k].health
    /\ db' = SetHealth(db, k, h)
    /\ UNCHANGED revived

\* What a report, a poll or the watchdog has to say of a watched workflow.
Observe(f, n) ==
    /\ Request
    /\ Watched(db, f) /\ f \in db.stated
    /\ n # db.news[f]
    /\ db' = [db EXCEPT !.news[f] = n]
    /\ UNCHANGED revived

-----------------------------------------------------------------------------
(* The older forms, POST /protect/...                                      *)

ProtectClient(c) ==
    /\ Request
    /\ db.client[c] = "none"
    /\ db' = SetClient(db, c, "onboarding")
    /\ UNCHANGED revived

ProtectWorkflow(f, c, m) ==
    /\ Request
    /\ ~db.flow[f].known /\ db.client[c] # "none"
    /\ db' = AddFlow(db, f, c, m)
    /\ Touch(f, c)

\* Every time another contract.
ProtectContract(f, s) ==
    /\ Request
    /\ db.flow[f].known /\ Len(db.contracts) < MaxContracts
    /\ db' = AddContract(db, f, s)
    /\ UNCHANGED revived

\* A channel is created and routed; the test that is awaited then answers
\* like any other.
ProtectAlerts(i) ==
    /\ Request
    /\ Len(db.channels) < MaxChannels
    /\ db' = AddRoute(AddChannel(db), i, Len(db.channels) + 1)
    /\ Touch(db.contracts[i].flow, None)

ProtectActivate(i, c, acknowledged) ==
    /\ Request
    /\ MayActivate(db, i, acknowledged) /\ ~Refuses(db, i)
    /\ LET f == db.contracts[i].flow
           on == Seed(ActivateFlow(ActivateContract(db, i, calls'), f, db.flow[f].method), f)
       IN  /\ db' = IF c = None THEN on ELSE SetClient(on, c, "protected")
           /\ Touch(f, None)

FleetStep ==
    \/ \E f \in Flows :
          \/ \E m \in Methods : RegisterWorkflow(f, m)
          \/ DeleteWorkflow(f) \/ IssueKey(f)
          \/ \E k \in Connectors : BindConnector(f, k)
          \/ \E i \in Contracts(db), s \in Setups : EditContract(f, i, s)
          \/ \E n \in Tidings : Observe(f, n)
    \/ \E j \in DOMAIN db.keys : RotateCredential(j) \/ RevokeCredential(j)
    \/ \E i \in Contracts(db) :
          \/ DeactivateContract(i)
          \/ \E s \in Setups : EditCadence(i, s)
    \/ CreateChannel
    \/ \E ch \in DOMAIN db.channels :
          \/ DisableChannel(ch)
          \/ \E h \in {"healthy", "degraded", "failing"} : ChannelAnswers(ch, h)
    \/ \E c \in Clients : RemoveClient(c)
    \/ \E k \in Connectors :
          \/ CreateConnector(k) \/ DisableConnector(k) \/ DeleteConnector(k)
          \/ \E h \in {"healthy", "unreachable"} : ConnectorAnswers(k, h)

ProtectStep ==
    \/ \E c \in Clients : ProtectClient(c)
    \/ \E f \in Flows, c \in Clients, m \in Methods : ProtectWorkflow(f, c, m)
    \/ \E f \in Flows, s \in Setups : ProtectContract(f, s)
    \/ \E i \in Contracts(db) : ProtectAlerts(i)
    \/ \E i \in Contracts(db), c \in Clients \cup {None}, a \in BOOLEAN :
          ProtectActivate(i, c, a)

FleetNext == FleetStep \/ ProtectStep

FleetSpec == InitFleet /\ [][FleetNext]_fleetVars

-----------------------------------------------------------------------------
(* Properties                                                              *)

\* After a workflow or its client was removed nothing of it is left that
\* reports, polls or alerts, until an administrator touches it again (which
\* the pages and the wizard let them do).
QuietOnceRemoved ==
    \A f \in Flows : db.flow[f].removed /\ f \notin revived =>
        /\ ~Watched(db, f) /\ ActiveOf(db, f) = {}
        /\ LiveKeys(db, f) = {}
        /\ \A i \in ContractsOf(db, f) : RoutesOf(db, i) = {}
        /\ db.flow[f].bound = None

AbsRoster == INSTANCE Roster WITH
    watched <- {f \in Flows : Watched(db, f)},
    heard <- {f \in Flows : LiveKeys(db, f) # {}},
    gone <- {f \in Flows : db.flow[f].removed} \ revived

\* The pages keep what Roster promises: they touch one workflow, or those of
\* one client, at a stroke, and what was removed stays out of watch.
RosterSpec == AbsRoster!Spec
=============================================================================
