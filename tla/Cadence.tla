-------------------------------- MODULE Cadence --------------------------------
(***************************************************************************)
(* When a workflow should have been heard of, and what its silence means   *)
(* (domain/cadence, domain/contracts/validate-workflow-contract.ts).       *)
(* Instants and durations are minutes.  The text of a cadence is an amount *)
(* and a unit; a cron expression is a number that CronTicks gives the      *)
(* instants of.                                                            *)
(***************************************************************************)
EXTENDS Integers

CONSTANTS
    None,
    CronTicks   \* the occurrences of each cron expression, by the cron parser

NoValue == [unit |-> "none", amount |-> 0]

\* The fields of a contract that its cadence is evaluated from.
CadenceFields ==
    [type : {"cron", "interval", "event_driven"},
     value : [unit : {"none", "s", "m", "h", "d", "cron"}, amount : Int],
     mode : {None, "fixed_rate", "since_last_success"},
     anchor : Int \cup {None}, zone : BOOLEAN,
     lateness : Nat, quiet : Int \cup {None}, grace : Nat, started : Int]

-----------------------------------------------------------------------------
(* Durations and validation                                                *)

MinutesPer == [m |-> 1, h |-> 60, d |-> 1440]

\* parsePositiveDurationMinutes, 0 for null: there is no unit of seconds.
Duration(v) ==
    IF v.unit \in DOMAIN MinutesPer /\ v.amount > 0
    THEN v.amount * MinutesPer[v.unit] ELSE 0

IsCron(v) == v.unit = "cron" /\ v.amount \in DOMAIN CronTicks

QuietWindowGiven(c) == c.quiet # None /\ c.quiet > 0

\* Mutant: a cron expression needs no time zone.
ValidCadenceAnywhere(c) ==
    CASE c.type = "cron" -> IsCron(c.value)
      [] c.type = "interval" -> c.mode # None /\ Duration(c.value) > 0
                                /\ (c.mode = "fixed_rate" => c.anchor # None)
      [] c.type = "event_driven" -> QuietWindowGiven(c)

\* The issues validateWorkflowContract finds with a cadence: none.
ValidCadence(c) ==
    CASE c.type = "cron" -> c.zone /\ IsCron(c.value)
      [] c.type = "interval" -> c.mode # None /\ Duration(c.value) > 0
                                /\ (c.mode = "fixed_rate" => c.anchor # None)
      [] c.type = "event_driven" -> QuietWindowGiven(c)

\* evaluateCadenceDeadline throws a CadenceEvaluationError, or the parser does.
Throws(c) ==
    \/ c.type = "cron" /\ (~c.zone \/ ~IsCron(c.value))
    \/ c.type = "interval" /\ (c.mode = None \/ Duration(c.value) = 0)
    \/ c.type = "interval" /\ c.mode = "fixed_rate" /\ c.anchor = None
    \/ c.type = "event_driven" /\ ~QuietWindowGiven(c)

-----------------------------------------------------------------------------
(* Occurrences                                                             *)

\* prev() and next() of a cron expression, both strict.
PreviousTick(ticks, t) ==
    CHOOSE x \in ticks : x < t /\ \A y \in ticks : y < t => y <= x
NextTick(ticks, t) ==
    CHOOSE x \in ticks : x > t /\ \A y \in ticks : y > t => y >= x

\* The slots of a fixed rate.
SlotAt(c, n) == c.anchor + n * Duration(c.value)

\* The slot that has begun at t, the first one before the anchor.
CurrentSlot(c, t) ==
    IF t < c.anchor THEN 0 ELSE (t - c.anchor) \div Duration(c.value)

\* Mutant: a report at the instant of a slot does not cover it.
FirstUncoveredSlotLate(c, last) ==
    IF last <= c.anchor THEN 0 ELSE ((last - c.anchor - 1) \div Duration(c.value)) + 1

\* The first slot after the one that a report at last covers.
FirstUncoveredSlot(c, last) ==
    IF last < c.anchor THEN 0 ELSE ((last - c.anchor) \div Duration(c.value)) + 1

Origin(c, last) == IF last = None THEN c.started ELSE last

\* The allowance after an occurrence.
DeadlineOf(c, occurrence) ==
    occurrence + IF c.type = "event_driven" THEN c.quiet ELSE c.lateness

\* evaluateCadenceDeadline: the occurrence expected at now.
ExpectedOccurrence(c, last, now) ==
    CASE c.type = "cron" -> PreviousTick(CronTicks[c.value.amount], now)
      [] c.type = "interval" /\ c.mode = "fixed_rate" -> SlotAt(c, CurrentSlot(c, now))
      [] c.type = "interval" /\ c.mode = "since_last_success" ->
            Origin(c, last) + Duration(c.value)
      [] c.type = "event_driven" -> Origin(c, last)

\* Mutant: what is missed is the occurrence of the slot now running.
FirstMissedRolling(c, last, now) == ExpectedOccurrence(c, last, now)

\* firstMissedOccurrenceAfterSuccess, whenever now is
FirstMissed(c, last, now) ==
    CASE c.type = "cron" -> NextTick(CronTicks[c.value.amount], last)
      [] c.type = "interval" /\ c.mode = "fixed_rate" ->
            SlotAt(c, FirstUncoveredSlot(c, last))
      [] c.type = "interval" /\ c.mode = "since_last_success" -> last + Duration(c.value)
      [] c.type = "event_driven" -> last

-----------------------------------------------------------------------------
(* evaluateCadence                                                         *)

CadenceHealth == {"inactive", "unknown", "healthy", "warning", "overdue"}

Found(health, c, occurrence, since) ==
    [health |-> health, expected |-> occurrence,
     deadline |-> DeadlineOf(c, occurrence), since |-> since]

Inactive == [health |-> "inactive", expected |-> None, deadline |-> None, since |-> None]

\* Before any report: unknown until the deadline and the initial grace.
NeverObserved(c, occurrence, now) ==
    LET until == DeadlineOf(c, occurrence) + c.grace
    IN  IF now <= until THEN Found("unknown", c, occurrence, None)
        ELSE Found("overdue", c, occurrence, until)

\* The report of last covers the occurrence expected now; only the quiet window
\* of an event-driven contract can have run out since.
Covered(c, occurrence, now) ==
    IF c.type = "event_driven" /\ now > DeadlineOf(c, occurrence)
    THEN Found("overdue", c, occurrence, DeadlineOf(c, occurrence))
    ELSE Found("healthy", c, occurrence, None)

Missed(c, occurrence, now) ==
    IF now <= occurrence THEN Found("healthy", c, occurrence, None)
    ELSE IF now <= DeadlineOf(c, occurrence) THEN Found("warning", c, occurrence, None)
    ELSE Found("overdue", c, occurrence, DeadlineOf(c, occurrence))

Evaluation(active, c, last, now) ==
    LET occurrence == ExpectedOccurrence(c, last, now)
    IN  IF ~active THEN Inactive
        ELSE IF last = None THEN NeverObserved(c, occurrence, now)
        ELSE IF last >= occurrence THEN Covered(c, occurrence, now)
        ELSE Missed(c, FirstMissed(c, last, now), now)

\* nextExpectedAfterReport
NextExpected(active, c, last, now) ==
    LET e == Evaluation(active, c, last, now)
    IN  IF c.type = "event_driven" THEN e.deadline ELSE e.expected
=============================================================================
