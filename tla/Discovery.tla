------------------------------- MODULE Discovery -------------------------------
(***************************************************************************)
(* What the trigger nodes of an n8n workflow say about its cadence         *)
(* (domain/n8n/infer-cadence.ts), and the settings the onboarding wizard   *)
(* derives from that (ui-onboarding-routes.ts).  A node has a kind and, if *)
(* it is a schedule, the three forms a schedule may be written in: a rule, *)
(* an interval and a cron expression, each of them or None.                *)
(***************************************************************************)
EXTENDS Cadence, Sequences, FiniteSets

CONSTANTS
    FallbackValue,  \* "15m", for a cadence that is not known
    FallbackQuiet   \* 24 hours, for a workflow that waits for events

\* classifyNode: the nodes that are triggers.
TriggerKinds == {"schedule", "webhook", "manual", "event"}

Value(unit, amount) == [unit |-> unit, amount |-> amount]

\* unitToInterval
UnitToInterval(unit, n) ==
    IF n <= 0 THEN None
    ELSE CASE unit = "seconds" -> Value("s", n)
           [] unit = "minutes" -> Value("m", n)
           [] unit = "hours" -> Value("h", n)
           [] unit = "days" -> Value("d", n)
           [] unit = "weeks" -> Value("d", 7 * n)
           [] unit = "months" -> Value("d", 30 * n)
           [] OTHER -> None

\* intervalAmountForField: n8n omits what equals the default of the node.
NodeDefault ==
    [seconds |-> 30, minutes |-> 5, hours |-> 1, days |-> 1, weeks |-> 1, months |-> 1]

AmountForField(rule) ==
    IF rule.amount # None THEN rule.amount
    ELSE IF rule.field \in DOMAIN NodeDefault THEN NodeDefault[rule.field] ELSE None

\* The first rule; a cron expression is as it is written.
FromRule(rule) ==
    IF rule.field = "cronExpression" THEN rule.expression
    ELSE IF AmountForField(rule) = None THEN None
    ELSE UnitToInterval(rule.field, AmountForField(rule))

FromInterval(interval) ==
    IF interval.amount = None THEN None
    ELSE UnitToInterval(interval.unit, interval.amount)

Otherwise(v, other) == IF v # None THEN v ELSE other

\* inferFromScheduleNode: the first form that says something.
FromSchedule(node) ==
    Otherwise(IF node.rule = None THEN None ELSE FromRule(node.rule),
    Otherwise(IF node.interval = None THEN None ELSE FromInterval(node.interval),
              node.expression))

\* inferWorkflowDiscovery: several triggers say nothing together.
Discovered(nodes) ==
    LET triggers == SelectSeq(nodes, LAMBDA n : n.kind \in TriggerKinds)
        kinds == {triggers[i].kind : i \in DOMAIN triggers}
    IN  [kind |-> IF Cardinality(kinds) = 1 THEN CHOOSE k \in kinds : TRUE ELSE "unknown",
         value |-> IF Len(triggers) = 1 /\ kinds = {"schedule"}
                   THEN FromSchedule(triggers[1]) ELSE None,
         zone |-> \A i \in DOMAIN triggers : triggers[i].zone]

\* POST /onboarding/workflows: the settings of a workflow just selected.
Proposed(found) ==
    LET type == IF found.value # None
                THEN IF found.value.unit = "cron" THEN "cron" ELSE "interval"
                ELSE IF found.kind \in {"webhook", "event", "manual"}
                     THEN "event_driven" ELSE "interval"
    IN  [type |-> type,
         value |-> Otherwise(found.value, IF type = "event_driven" THEN NoValue
                                          ELSE FallbackValue),
         zone |-> found.zone,
         quiet |-> IF type = "event_driven" THEN FallbackQuiet ELSE None]
=============================================================================
