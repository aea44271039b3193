-------------------------------- MODULE Schedule -------------------------------
(***************************************************************************)
(* One workflow and its cadence, from the discovery of its trigger nodes   *)
(* to the verdicts of the watchdog: the wizard's draft, the contract it is *)
(* applied to, the forms that change the contract while it is monitored,   *)
(* the repair at start-up, the reports, and the row of workflow_states     *)
(* that ingestion, the forms and the watchdog write in turn.  Every        *)
(* handler runs without an await; the clock moves between them.            *)
(***************************************************************************)
EXTENDS Discovery

CONSTANTS
    Triggers,    \* the nodes of the workflow in n8n
    Choices,     \* what an administrator may enter: type, value, quiet window
    Lateness,    \* allowed_lateness_minutes of a contract the wizard draws up
    Grace,       \* initial_grace_minutes
    Old,         \* the contracts an earlier onboarding may have left
    Start,       \* the instant at which the administrator begins
    Horizon,     \* bound: the clock
    MaxLate,     \* bound: how far executedAt lies in the past
    MaxAhead,    \* bound: and in the future
    MaxEdits,    \* bound: forms sent once the workflow was selected
    MaxReports   \* bound

\* The settings of a cadence, as they are in the wizard's draft.
Settings ==
    [type : {"cron", "interval", "event_driven"},
     value : [unit : {"none", "s", "m", "h", "d", "cron"}, amount : Int],
     zone : BOOLEAN, quiet : Int \cup {None}]

ASSUME ScheduleAssumption ==
    /\ None \notin Int /\ None \notin {"fixed_rate", "since_last_success"}
    /\ Choices \subseteq Settings
    /\ \A choice \in Choices :
          /\ choice.type = "event_driven" => choice.quiet # None
          /\ choice.quiet # None => choice.quiet >= 0
    /\ \A ns \in Triggers : Proposed(Discovered(ns)) \in Settings
    /\ Lateness \in Nat /\ Grace \in Nat
    /\ Old \subseteq CadenceFields \cup {None}
    /\ Start \in Int /\ Horizon \in Int /\ Start <= Horizon
    /\ MaxLate \in Nat /\ MaxAhead \in Nat /\ MaxEdits \in Nat /\ MaxReports \in Nat

VARIABLES
    nodes,      \* the workflow as n8n returns it
    now,
    draft,      \* workflowConfigs of the wizard's draft
    completed,  \* the draft's activatedAt
    contract,   \* workflow_contracts, with monitoring_started_at of the workflow
    active,     \* is_active
    activated,  \* activated_at
    last,       \* last_execution_at
    row,        \* current_health, next_expected_at and overdue_since
    edits, reports,
    edited,     \* history: settings were entered that no activation has checked
    stale       \* history: the row is not about the contract and the last report

vars == <<nodes, now, draft, completed, contract, active, activated, last, row,
          edits, reports, edited, stale>>

TypeOK ==
    /\ nodes \in Triggers
    /\ now \in Int
    /\ draft \in Settings \cup {None}
    /\ contract \in CadenceFields \cup {None}
    /\ {completed, activated, last} \subseteq Int \cup {None}
    /\ active \in BOOLEAN /\ edited \in BOOLEAN /\ stale \in BOOLEAN
    /\ DOMAIN row = {"health", "expected", "since"} /\ row.health \in CadenceHealth
    /\ edits \in Nat /\ reports \in Nat

NoRow == [health |-> "unknown", expected |-> None, since |-> None]

Init ==
    /\ nodes \in Triggers
    /\ now = Start
    /\ draft = None
    /\ completed = None
    /\ contract \in Old
    /\ active = FALSE
    /\ activated = None
    /\ last = None
    /\ row = NoRow
    /\ edits = 0 /\ reports = 0
    /\ edited = FALSE /\ stale = FALSE

-----------------------------------------------------------------------------
(* Onboarding                                                              *)

Form == edits < MaxEdits /\ edits' = edits + 1

\* POST /onboarding/workflows, which skips a workflow that is protected.
Select ==
    /\ Form
    /\ ~active
    /\ draft' = Proposed(Discovered(nodes))
    /\ edited' = (edited \/ completed # None)
    /\ UNCHANGED <<nodes, now, completed, contract, active, activated, last, row,
                   reports, stale>>

\* POST /onboarding/configure, which a page still open sends after the activation.
Configure(choice) ==
    /\ Form
    /\ draft # None
    /\ draft' = [choice EXCEPT !.zone = draft.zone]
    /\ edited' = (edited \/ completed # None)
    /\ UNCHANGED <<nodes, now, completed, contract, active, activated, last, row,
                   reports, stale>>

\* The columns that an activation and the repair write.
Applied(c, d, t) ==
    [c EXCEPT !.type = d.type, !.value = d.value, !.zone = d.zone, !.quiet = d.quiet,
              !.mode = IF d.type = "interval" THEN "fixed_rate" ELSE None,
              !.anchor = IF d.type = "interval" THEN t ELSE None]

Blank ==
    [type |-> "interval", value |-> NoValue, mode |-> None, anchor |-> None,
     zone |-> TRUE, lateness |-> Lateness, quiet |-> None, grace |-> Grace,
     started |-> now]

\* POST /onboarding/alerts: the contract is written before it is validated, and
\* the wizard is completed whatever becomes of the workflow.
Activate ==
    /\ Form
    /\ draft # None
    /\ LET c == Applied(IF contract = None THEN Blank ELSE contract, draft, now)
       IN  /\ contract' = c
           /\ IF ValidCadence(c)
              THEN /\ active' = TRUE
                   /\ activated' = now
                   /\ edited' = FALSE
                   /\ row' = [health |-> "unknown", since |-> None,
                              expected |-> NextExpected(TRUE, c, now, now)]
              ELSE /\ edited' = (edited \/ active)
                   /\ UNCHANGED <<active, activated, row>>
    /\ completed' = now
    /\ stale' = TRUE
    /\ UNCHANGED <<nodes, now, draft, last, reports>>

-----------------------------------------------------------------------------
(* The forms about a contract                                              *)

\* POST /contracts/:contractId/cadence leaves everything else as it is.
EditCadence(choice) ==
    /\ Form
    /\ contract # None
    /\ contract' = [contract EXCEPT !.type = choice.type, !.value = choice.value]
    /\ edited' = TRUE
    /\ stale' = TRUE
    /\ UNCHANGED <<nodes, now, draft, completed, active, activated, last, row, reports>>

\* The row after a form: nothing is written where the evaluation throws.
Refreshed(c, report) ==
    IF Throws(c) THEN row ELSE [row EXCEPT !.expected = NextExpected(active, c, report, now)]

\* POST /catalog/contracts/:workflowId/edit: less than half a minute is taken for
\* a quiet window, and then rounded to none.
EditQuiet(minutes) ==
    /\ Form
    /\ contract # None
    /\ LET c == IF contract.type = "event_driven"
                THEN [contract EXCEPT !.quiet = minutes] ELSE contract
       IN  /\ contract' = c
           /\ row' = Refreshed(c, IF last = None THEN now ELSE last)
    /\ edited' = (edited \/ contract.type = "event_driven")
    /\ stale' = TRUE
    /\ UNCHANGED <<nodes, now, draft, completed, active, activated, last, reports>>

\* POST /contracts/:contractId/deactivate
Deactivate ==
    /\ Form
    /\ active
    /\ active' = FALSE
    /\ UNCHANGED <<nodes, now, draft, completed, contract, activated, last, row,
                   reports, edited, stale>>

\* The repair at start-up: the draft prevails over what was entered since.
Repair ==
    /\ completed # None /\ activated = completed
    /\ \/ contract.type # draft.type \/ contract.value # draft.value
       \/ contract.quiet # draft.quiet
    /\ LET c == Applied(contract, draft, completed)
       IN  /\ contract' = c
           /\ row' = Refreshed(c, IF last = None THEN completed ELSE last)
    /\ stale' = TRUE
    /\ UNCHANGED <<nodes, now, draft, completed, active, activated, last, edits,
                   reports, edited>>

-----------------------------------------------------------------------------
(* Reports and the watchdog                                                *)

\* A report is ingested, unless the evaluation throws: the transaction is
\* rolled back.  executedAt is what the sender says.
Report(at) ==
    /\ active
    /\ reports < MaxReports
    /\ reports' = reports + 1
    /\ ~Throws(contract)
    /\ last' = at
    /\ row' = [health |-> "healthy", since |-> None,
               expected |-> NextExpected(TRUE, contract, at, now)]
    /\ stale' = FALSE
    /\ UNCHANGED <<nodes, now, draft, completed, contract, active, activated, edits, edited>>

\* evaluateOne; an evaluation that throws ends the tick.
Watch ==
    /\ active
    /\ ~Throws(contract)
    /\ LET e == Evaluation(TRUE, contract, last, now)
       IN  row' = [health |-> e.health, expected |-> e.expected, since |-> e.since]
    /\ stale' = FALSE
    /\ UNCHANGED <<nodes, now, draft, completed, contract, active, activated, last,
                   edits, reports, edited>>

Tick ==
    /\ now < Horizon
    /\ now' = now + 1
    /\ UNCHANGED <<nodes, draft, completed, contract, active, activated, last, row,
                   edits, reports, edited, stale>>

Next ==
    \/ Select \/ Activate \/ Deactivate \/ Repair
    \/ \E choice \in Choices : Configure(choice) \/ EditCadence(choice)
    \/ \E choice \in Choices : choice.quiet # None /\ EditQuiet(choice.quiet)
    \/ \E at \in now - MaxLate .. now + MaxAhead : Report(at)
    \/ Watch \/ Tick

Spec == Init /\ [][Next]_vars

-----------------------------------------------------------------------------
(* Properties                                                              *)

\* The instants at which a workflow that reported last is due again, with the
\* allowance of each, written down without the arithmetic of the slots.
Due(c) ==
    CASE c.type = "cron" -> {t \in CronTicks[c.value.amount] : t > last}
      [] c.type = "event_driven" -> {last + c.quiet}
      [] c.type = "interval" /\ c.mode = "since_last_success" -> {last + Duration(c.value)}
      [] c.type = "interval" /\ c.mode = "fixed_rate" ->
            {t \in c.anchor .. Horizon + MaxLate + MaxAhead :
                t > last /\ (t - c.anchor) % Duration(c.value) = 0}

Allowance(c) == IF c.type = "event_driven" THEN 0 ELSE c.lateness

\* Once a workflow has reported, the watchdog finds it overdue exactly when it
\* missed some occurrence since by more than it may be late, although later
\* slots have begun; late exactly when it missed one by less.
VerdictIsRight ==
    [][Watch /\ last # None =>
         row'.health =
            IF \E t \in Due(contract) : now > t + Allowance(contract) THEN "overdue"
            ELSE IF \E t \in Due(contract) : now > t THEN "warning" ELSE "healthy"]_vars

\* A silence that was found stays found, since the same instant, until there is
\* a report or the contract changes: no later slot makes it look new, or over.
SilenceStands ==
    [][row.health = "overdue" /\ last # None /\ ~stale /\ ~stale' =>
         \/ row'.health = "overdue" /\ row'.since = row.since
         \/ reports' # reports]_vars

\* What an activation lets pass can be evaluated: the watchdog's ticks and the
\* reports of the workflow do not fail on it, unless somebody has entered other
\* settings since.
GateIsSound == active /\ ~edited => ~Throws(contract)
=============================================================================
