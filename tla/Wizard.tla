--------------------------------- MODULE Wizard --------------------------------
(***************************************************************************)
(* The onboarding wizard (ui-onboarding-routes.ts) over the tables of      *)
(* Fleet.  Its draft is one row that every tab reads and writes.  No       *)
(* handler looks at the step; three of them read the draft, await n8n or   *)
(* the outbox, and then write the draft they have read.  The activation    *)
(* of the selected workflows is a loop of single statements, and a process *)
(* that is killed in it is started again.                                  *)
(***************************************************************************)
EXTENDS Fleet, Listing, FiniteSetsExt

CONSTANTS
    Tabs,
    Inferred,       \* the settings discovery proposes
    Answers,        \* what n8n may answer when it is asked for its workflows
    MaxRestarts     \* bound: restarts in a run

ASSUME WizardAssumption == Inferred \in Setups /\ MaxRestarts \in Nat

VARIABLES
    step,       \* onboarding_state.step
    completed,  \* onboarding_state.completed_at is set
    draft,      \* onboarding_state.draft_json
    tab,        \* what each tab waits for: [kind, draft, now, ...]
    restarts    \* restarts so far

wizardVars == <<step, completed, draft, tab, restarts>>

NoConfig == [setup |-> None, method |-> "poll", contract |-> 0]
Idle == [kind |-> "idle"]
Steps == {"client", "connect_n8n", "select_workflows", "configure_monitoring",
          "alerts_activate", "complete", "catalog"}
Config == [setup : Setups \cup {None}, method : Methods, contract : 0 .. MostContracts]
Draft == [client : Clients \cup {None}, connector : Connectors \cup {None},
          selected : SUBSET Flows, configs : [Flows -> Config],
          channel : 0 .. MaxChannels, accepted : SUBSET Flows,
          activatedAt : 0 .. MaxCalls]

WizardTypeOK ==
    /\ step \in Steps
    /\ completed \in BOOLEAN
    /\ draft \in Draft
    /\ \A t \in Tabs : tab[t] = Idle \/ tab[t].draft \in Draft
    /\ restarts \in 0 .. MaxRestarts

EmptyDraft == [client |-> None, connector |-> None, selected |-> {},
               configs |-> [f \in Flows |-> NoConfig], channel |-> 0,
               accepted |-> {}, activatedAt |-> 0]

InitWizard ==
    /\ step = "client"
    /\ completed = FALSE
    /\ draft = EmptyDraft
    /\ tab = [t \in Tabs |-> Idle]
    /\ restarts = 0

\* selectedWorkflowConfigs
Configured(dr) == {f \in dr.selected : dr.configs[f] # NoConfig}

SetStep(s, dr) == step' = s /\ draft' = dr

Wait(t, request) == tab' = [tab EXCEPT ![t] = request]

Besides == UNCHANGED <<completed, restarts, revived>>

-----------------------------------------------------------------------------
(* Client and connection                                                   *)

\* A new client, or one that is there, archived ones included.
PickClient(c) ==
    /\ Request
    /\ db' = IF db.client[c] = "none" THEN SetClient(db, c, "onboarding") ELSE db
    /\ SetStep("connect_n8n", [draft EXCEPT !.client = c])
    /\ UNCHANGED tab /\ Besides

Unselected(dr, k) ==
    [dr EXCEPT !.connector = k, !.selected = {}, !.configs = [f \in Flows |-> NoConfig]]

SelectConnector(k) ==
    /\ Request
    /\ Exists(db, k)
    /\ SetStep("select_workflows", Unselected(draft, k))
    /\ UNCHANGED <<db, tab>> /\ Besides

\* POST /onboarding/connect keeps a connector of that address that is active,
\* or creates one, and then asks n8n twice.
Connect(t, k) ==
    /\ Request
    /\ tab[t] = Idle
    /\ db.connector[k].status \in {"none", "active"}
    /\ db' = IF Exists(db, k) THEN db ELSE AddConnector(db, k)
    /\ Wait(t, [kind |-> "connect", draft |-> draft, connector |-> k])
    /\ UNCHANGED <<step, draft>> /\ Besides

Validated(t, ok) ==
    /\ tab[t].kind = "connect"
    /\ db' = SetHealth(db, tab[t].connector, IF ok THEN "healthy" ELSE "unreachable")
    /\ IF ok
       THEN /\ Wait(t, [tab[t] EXCEPT !.kind = "list"])
            /\ UNCHANGED <<step, draft>>
       ELSE /\ SetStep("connect_n8n", [tab[t].draft EXCEPT !.connector = tab[t].connector])
            /\ Wait(t, Idle)
    /\ UNCHANGED calls /\ Besides

Listed(t) ==
    /\ tab[t].kind = "list"
    /\ SetStep("select_workflows", Unselected(tab[t].draft, tab[t].connector))
    /\ Wait(t, Idle)
    /\ UNCHANGED <<db, calls>> /\ Besides

-----------------------------------------------------------------------------
(* Selection and settings                                                  *)

AddManually(f) ==
    /\ Request
    /\ SetStep("select_workflows",
               [draft EXCEPT !.selected = @ \cup {f},
                             !.configs[f] = [setup |-> Inferred, method |-> "poll",
                                             contract |-> 0]])
    /\ UNCHANGED <<db, tab>> /\ Besides

Select(t, chosen) ==
    /\ Request
    /\ tab[t] = Idle
    /\ draft.connector # None
    /\ Wait(t, [kind |-> "select", draft |-> draft, chosen |-> chosen])
    /\ UNCHANGED <<db, step, draft>> /\ Besides

\* protectedExternalIds: those that have an active contract.
Protected == {f \in Flows : ActiveOf(db, f) # {}}

\* Ids that are not listed are taken for entered by hand.
SelectedOf(dr, chosen, found) ==
    (chosen \cup (dr.selected \ found)) \ Protected

Discovered(t, found) ==
    /\ tab[t].kind = "select"
    /\ LET dr == tab[t].draft
           all == SelectedOf(dr, tab[t].chosen, found)
           config(f) ==
               IF f \in found
               THEN [setup |-> Inferred, method |-> "poll", contract |-> dr.configs[f].contract]
               ELSE dr.configs[f]
       IN  IF all = {} THEN UNCHANGED <<step, draft>>
           ELSE SetStep("configure_monitoring",
                    [dr EXCEPT !.selected = all,
                               !.configs = [f \in Flows |->
                                   IF f \in all THEN config(f) ELSE NoConfig]])
    /\ Wait(t, Idle)
    /\ UNCHANGED <<db, calls>> /\ Besides

\* The settings of some of the selected workflows; the others keep theirs.
Configure(S, s, m) ==
    /\ Request
    /\ S \subseteq Configured(draft)
    /\ SetStep("alerts_activate",
               [draft EXCEPT !.configs = [f \in Flows |->
                    IF f \in S THEN [@[f] EXCEPT !.setup = s, !.method = m]
                    ELSE IF f \in draft.selected THEN @[f] ELSE NoConfig]])
    /\ UNCHANGED <<db, tab>> /\ Besides

Back(s) ==
    /\ Request
    /\ step # s
    /\ SetStep(s, draft)
    /\ UNCHANGED <<db, tab>> /\ Besides

-----------------------------------------------------------------------------
(* Alerts and activation                                                   *)

\* The statements of the activation of workflow f, one after the other, with
\* the settings cfg and the channel ch of the form (0 for none).
Registered(d, f, c, cfg) == IF d.flow[f].known THEN d ELSE AddFlow(d, f, c, cfg.method)

Attached(d, f, k, cfg) == IF cfg.method = "poll" /\ k # None THEN BindFlow(d, f, k) ELSE d

Drawn(d, f, cfg) ==
    IF Latest(d, f) = 0 THEN AddContract(d, f, cfg.setup)
    ELSE SetSetup(d, Latest(d, f), cfg.setup)

Routed(d, f, ch) == IF ch = 0 THEN d ELSE AddRoute(d, Latest(d, f), ch)

Signed(d, f, now) == ActivateContract(d, Latest(d, f), now)

Keyed(d, f, cfg) == IF cfg.method = "push" /\ LiveKeys(d, f) = {} THEN AddKey(d, f) ELSE d

\* The tables after each of them.
Stages(d, f, dr, ch, now) ==
    LET cfg == dr.configs[f]
        known == Registered(d, f, dr.client, cfg)
        bound == Attached(known, f, dr.connector, cfg)
        drawn == Drawn(bound, f, cfg)
        routed == Routed(drawn, f, ch)
        signed == Signed(routed, f, now)
        started == ActivateFlow(signed, f, cfg.method)
        keyed == Keyed(started, f, cfg)
    IN  <<known, bound, drawn, routed, signed, started, keyed, Seed(keyed, f)>>

Whole == 8

\* How far it gets: the binding fails where the connector is gone, then the
\* gate may refuse, then the index of active contracts.
Reach(st, f, dr, acknowledged) ==
    LET i == Latest(st[4], f)
    IN  IF dr.configs[f].method = "poll" /\ dr.connector # None /\ ~Exists(st[1], dr.connector)
        THEN 1
        ELSE IF ~MayActivate(st[4], i, acknowledged) \/ Refuses(st[4], i) THEN 4
        ELSE Whole

\* A workflow that could not be activated keeps the settings it came with.
Noted(dr, f, i, reach) ==
    IF reach = Whole THEN [dr EXCEPT !.configs[f].contract = i] ELSE dr

\* One round of the loop: workflow f gets as far as it can.
Advanced(acc, f, dr, ch, acknowledged, now) ==
    LET st == Stages(acc.tables, f, dr, ch, now)
        reach == Reach(st, f, dr, acknowledged)
    IN  [tables |-> st[reach],
         draft |-> Noted(acc.draft, f, Latest(st[reach], f), reach)]

\* The loop over the workflows S, whose order makes no difference.
Activated(S, dr, ch, acknowledged, now) ==
    LET order == SetToSeq(S)
        through[n \in 0 .. Len(order)] ==
            IF n = 0 THEN [tables |-> db, draft |-> dr]
            ELSE Advanced(through[n - 1], order[n], dr, ch, acknowledged, now)
    IN  through[Len(order)]

\* The client is called protected, whatever became of its workflows.
Promoted(d, c) == IF c = None THEN d ELSE SetClient(d, c, "protected")

\* Mutant: the time of the activation is saved before the loop.
AnsweredStamped(request) ==
    [request.draft EXCEPT !.channel = IF request.channel = 0 THEN @ ELSE request.channel,
                          !.activatedAt = request.now]

\* POST /onboarding/alerts once the channel is tested, or acknowledged to be
\* none: the draft as read, with the answers of the form.
Answered(request) ==
    [request.draft EXCEPT !.channel = IF request.channel = 0 THEN @ ELSE request.channel]

Finished(t, request) ==
    LET dr == Answered(request)
        S == Configured(dr)
        done == Activated(S, dr, request.channel, request.acknowledged, request.now)
    IN  /\ IF request.activate /\ S # {}
           THEN /\ SetStep("complete", [done.draft EXCEPT !.activatedAt = request.now])
                /\ db' = Promoted(done.tables, dr.client)
                /\ revived' = revived \cup {f \in S : TakenUp(db, f, dr.client)}
           ELSE /\ SetStep("alerts_activate", dr)
                /\ UNCHANGED <<db, revived>>
        /\ Wait(t, Idle)

\* Without a channel nothing is awaited.
AlertsAcknowledged(t, ch, activate) ==
    /\ Request
    /\ tab[t] = Idle
    /\ Finished(t, [draft |-> draft, channel |-> ch, acknowledged |-> TRUE,
                    activate |-> activate, now |-> calls'])
    /\ UNCHANGED <<completed, restarts>>

\* With one, new or not, the outbox is run.  The test it sends names the
\* channel by another key than the outbox reads: nothing is sent.
Alerts(t, ch, activate) ==
    /\ Request
    /\ tab[t] = Idle
    /\ \/ ch \in DOMAIN db.channels /\ UNCHANGED db
       \/ ch = Len(db.channels) + 1 /\ ch <= MaxChannels /\ db' = AddChannel(db)
    /\ Wait(t, [kind |-> "alerts", draft |-> draft, channel |-> ch,
                acknowledged |-> FALSE, activate |-> activate, now |-> calls'])
    /\ UNCHANGED <<step, draft>> /\ Besides

AlertsSent(t) ==
    /\ tab[t].kind = "alerts"
    /\ Finished(t, tab[t])
    /\ UNCHANGED <<calls, completed, restarts>>

\* POST /onboarding/heartbeat/test reads the draft again after its await.
HeartbeatTest(f) ==
    /\ Request
    /\ ReporterOffered(db, f)
    /\ draft' = [draft EXCEPT !.accepted = @ \cup {f}]
    /\ UNCHANGED <<db, step, tab>> /\ Besides

Finish ==
    /\ Request
    /\ step' = "catalog"
    /\ completed' = TRUE
    /\ UNCHANGED <<db, revived, draft, tab, restarts>>

-----------------------------------------------------------------------------
(* Restarts                                                                *)

\* The contracts that the last activation of the wizard activated.
Repairable(d, dr, f) ==
    LET i == dr.configs[f].contract
    IN  /\ i # 0 /\ d.contracts[i].flow = f
        /\ d.contracts[i].at = dr.activatedAt

\* registerOnboardingRoutes gives them the settings of the draft again.
Repaired(d, dr, over) ==
    IF ~over \/ dr.activatedAt = 0 THEN d
    ELSE LET S == {f \in Configured(dr) : Repairable(d, dr, f)}
         IN  [d EXCEPT !.contracts = [i \in DOMAIN @ |->
                IF \E f \in S : dr.configs[f].contract = i
                THEN [@[i] EXCEPT !.setup = dr.configs[d.contracts[i].flow].setup]
                ELSE @[i]]]

\* What is awaited is lost with the process.
Forgotten == tab' = [t \in Tabs |-> Idle]

Restart ==
    /\ restarts < MaxRestarts
    /\ restarts' = restarts + 1
    /\ Forgotten
    /\ db' = Repaired(db, draft, completed \/ step = "complete")
    /\ UNCHANGED <<calls, revived, step, completed, draft>>

\* Killed in the loop: the workflows `done` are through with it, f is at its
\* stage n; or behind the loop, where the client may be called protected
\* already; the draft says alerts_activate, as before the loop.
KilledIn(request, done, f, n) ==
    LET dr == Answered(request)
        before == Activated(done, dr, request.channel, request.acknowledged, request.now)
        st == Stages(before.tables, f, dr, request.channel, request.now)
        reach == Reach(st, f, dr, request.acknowledged)
        behind == n = reach /\ done \cup {f} = Configured(dr)
    IN  /\ restarts < MaxRestarts
        /\ restarts' = restarts + 1
        /\ request.activate
        /\ f \in Configured(dr) /\ done \subseteq Configured(dr) \ {f}
        /\ n <= reach
        /\ SetStep("alerts_activate", dr)
        /\ \E d \in {st[n]} \cup (IF behind THEN {Promoted(st[n], dr.client)} ELSE {}) :
              db' = Repaired(d, dr, completed)
        /\ revived' = revived \cup {g \in done \cup {f} : TakenUp(db, g, dr.client)}
        /\ Forgotten
        /\ UNCHANGED completed

\* With a channel ...
KilledActivating(t, done, f, n) ==
    /\ tab[t].kind = "alerts"
    /\ KilledIn(tab[t], done, f, n)
    /\ UNCHANGED calls

\* ... and without one.
KilledAcknowledged(t, ch, done, f, n) ==
    /\ Request
    /\ tab[t] = Idle
    /\ KilledIn([draft |-> draft, channel |-> ch, acknowledged |-> TRUE,
                 activate |-> TRUE, now |-> calls'], done, f, n)

WizardStep ==
    \/ \E c \in Clients : PickClient(c)
    \/ \E k \in Connectors :
          \/ SelectConnector(k)
          \/ \E t \in Tabs : Connect(t, k)
    \/ \E t \in Tabs :
          \/ \E ok \in BOOLEAN : Validated(t, ok)
          \/ Listed(t)
          \/ \E S \in SUBSET Flows : Select(t, S)
          \/ \E pages \in Answers : Discovered(t, ListN8nWorkflows(pages))
          \/ \E ch \in 0 .. MaxChannels, a \in BOOLEAN :
                \/ ch <= Len(db.channels) /\ AlertsAcknowledged(t, ch, a)
                \/ ch > 0 /\ Alerts(t, ch, a)
          \/ AlertsSent(t)
          \/ \E done \in SUBSET Flows, f \in Flows, n \in 1 .. Whole :
                \/ KilledActivating(t, done, f, n)
                \/ \E ch \in 0 .. MaxChannels :
                      ch <= Len(db.channels) /\ KilledAcknowledged(t, ch, done, f, n)
    \/ \E f \in Flows : AddManually(f) \/ HeartbeatTest(f)
    \/ \E S \in SUBSET Flows \ {{}}, s \in Setups, m \in Methods : Configure(S, s, m)
    \/ \E s \in Steps \ {"catalog"} : Back(s)
    \/ Finish
    \/ Restart

\* The wizard, and all the pages beside it.
WizardNext == WizardStep \/ (FleetNext /\ UNCHANGED wizardVars)

WizardSpec == InitFleet /\ InitWizard /\ [][WizardNext]_<<fleetVars, wizardVars>>

-----------------------------------------------------------------------------
(* Properties                                                              *)

\* A contract that is active since the last activation of the wizard has all
\* that belongs to it, however the tabs overlap, whatever the pages do and
\* wherever a process was killed: its workflow is active, a state row is
\* there, and one that reports by itself was given a credential.
WizardIsWhole ==
    \A f \in Configured(draft) :
        /\ draft.activatedAt # 0 /\ Repairable(db, draft, f)
        /\ db.contracts[draft.configs[f].contract].active
        => /\ db.flow[f].active
           /\ f \in db.stated
           /\ db.flow[f].method = "push" => KeysOf(db, f) # {}
=============================================================================
