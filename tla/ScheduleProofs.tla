---------------------------- MODULE ScheduleProofs ----------------------------
(***************************************************************************)
(* Proofs about cadences: what the slots of a fixed rate are, that the     *)
(* evaluator agrees with the plain definition of a missed slot, that a     *)
(* silence once found is found at every later instant, and, over these,    *)
(* the invariants of Schedule.                                             *)
(***************************************************************************)
EXTENDS Schedule, TLAPS

-----------------------------------------------------------------------------
(* Slots                                                                   *)

FixedRate(c) ==
    /\ c.type = "interval" /\ c.mode = "fixed_rate"
    /\ c.anchor \in Int /\ Duration(c.value) \in Nat \ {0}

\* Integer division rounds down.
LEMMA Floor ==
    ASSUME NEW e \in Nat, NEW i \in Nat \ {0}
    PROVE  /\ e \div i \in Nat
           /\ (e \div i) * i <= e
           /\ e < (e \div i + 1) * i
BY SMT

\* More slots take more time,
LEMMA ProductIsMonotone ==
    ASSUME NEW a \in Int, NEW b \in Int, NEW i \in Nat, a <= b
    PROVE  a * i <= b * i
BY SMT

\* so later slots begin later.
LEMMA SlotsAreOrdered ==
    ASSUME NEW c, FixedRate(c), NEW m \in Int, NEW n \in Int, m <= n
    PROVE  /\ SlotAt(c, m) \in Int /\ SlotAt(c, n) \in Int
           /\ SlotAt(c, m) <= SlotAt(c, n)
<1> DEFINE i == Duration(c.value)
<1>1. i \in Nat /\ c.anchor \in Int
    BY DEF FixedRate
<1>2. m * i <= n * i
    BY <1>1, ProductIsMonotone
<1>3. m * i \in Int /\ n * i \in Int
    BY <1>1
<1> QED
    BY <1>1, <1>2, <1>3 DEF SlotAt

\* The current slot has begun, and the next one has not.
LEMMA CurrentSlotHasBegun ==
    ASSUME NEW c, FixedRate(c), NEW t \in Int, t >= c.anchor
    PROVE  /\ CurrentSlot(c, t) \in Nat
           /\ SlotAt(c, CurrentSlot(c, t)) <= t
           /\ t < SlotAt(c, CurrentSlot(c, t) + 1)
<1> DEFINE i == Duration(c.value)
           e == t - c.anchor
           q == e \div i
<1>1. i \in Nat \ {0} /\ c.anchor \in Int /\ e \in Nat
    BY DEF FixedRate
<1>2. q \in Nat /\ q * i <= e /\ e < (q + 1) * i
    <2> HIDE DEF i, e
    <2> QED
        BY <1>1, Floor
<1>3. CurrentSlot(c, t) = q
    BY DEF CurrentSlot, FixedRate
<1>4. q * i \in Int /\ (q + 1) * i \in Int
    <2> HIDE DEF i, e, q
    <2> QED
        BY <1>1, <1>2
<1>5. SlotAt(c, q) = c.anchor + q * i /\ SlotAt(c, q + 1) = c.anchor + (q + 1) * i
    BY DEF SlotAt
<1>6. /\ c.anchor + q * i <= t
      /\ t < c.anchor + (q + 1) * i
    <2> DEFINE lo == q * i
               hi == (q + 1) * i
    <2>1. lo \in Int /\ hi \in Int /\ lo <= e /\ e < hi
        BY <1>2, <1>4
    <2> HIDE DEF lo, hi
    <2> QED
        BY <1>1, <2>1
<1> QED
    BY <1>2, <1>3, <1>5, <1>6

\* The first uncovered slot is the first one after the report.
LEMMA FirstUncoveredSlotIsFirst ==
    ASSUME NEW c, FixedRate(c), NEW heard \in Int
    PROVE  /\ FirstUncoveredSlot(c, heard) \in Nat
           /\ SlotAt(c, FirstUncoveredSlot(c, heard)) > heard
           /\ \A n \in Nat : SlotAt(c, n) > heard =>
                SlotAt(c, FirstUncoveredSlot(c, heard)) <= SlotAt(c, n)
<1>1. CASE heard < c.anchor
    <2>1. FirstUncoveredSlot(c, heard) = 0
        BY <1>1 DEF FirstUncoveredSlot
    <2>2. SlotAt(c, 0) = c.anchor
        BY DEF SlotAt, FixedRate
    <2> QED
        BY <1>1, <2>1, <2>2, SlotsAreOrdered
<1>2. CASE heard >= c.anchor
    <2> DEFINE q == CurrentSlot(c, heard)
    <2>1. FirstUncoveredSlot(c, heard) = q + 1
        BY <1>2 DEF FirstUncoveredSlot, CurrentSlot, FixedRate
    <2>2. q \in Nat /\ SlotAt(c, q) <= heard /\ heard < SlotAt(c, q + 1)
        BY <1>2, CurrentSlotHasBegun
    <2> HIDE DEF q
    <2>3. ASSUME NEW n \in Nat, SlotAt(c, n) > heard
          PROVE  SlotAt(c, q + 1) <= SlotAt(c, n)
        <3>1. CASE n <= q
            BY <2>2, <2>3, <3>1, SlotsAreOrdered
        <3>2. CASE q + 1 <= n
            BY <2>2, <3>2, SlotsAreOrdered
        <3> QED
            BY <2>2, <3>1, <3>2
    <2>4. SlotAt(c, q + 1) \in Int
        BY <2>2, SlotsAreOrdered
    <2> QED
        BY <2>1, <2>2, <2>3, <2>4
<1> QED
    BY <1>1, <1>2 DEF FixedRate

\* At a fixed rate the evaluator finds an observed workflow overdue exactly
\* when some slot after its last report lies further back than is allowed,
\* for every interval, allowance and pair of instants (evaluateCadence with
\* firstMissedIntervalAfterEvidence): the allowance may well be longer than the
\* interval.
THEOREM FixedRateVerdict ==
    ASSUME NEW c, FixedRate(c), c.lateness \in Nat, NEW heard \in Int, heard # None,
           NEW t \in Int
    PROVE  Evaluation(TRUE, c, heard, t).health = "overdue"
             <=> \E n \in Nat : SlotAt(c, n) > heard /\ t > SlotAt(c, n) + c.lateness
<1> DEFINE f == FirstUncoveredSlot(c, heard)
           slot == SlotAt(c, CurrentSlot(c, t))
<1>1. /\ f \in Nat /\ SlotAt(c, f) > heard
      /\ \A n \in Nat : SlotAt(c, n) > heard => SlotAt(c, f) <= SlotAt(c, n)
    BY FirstUncoveredSlotIsFirst
<1>2. ExpectedOccurrence(c, heard, t) = slot /\ FirstMissed(c, heard, t) = SlotAt(c, f)
    BY DEF ExpectedOccurrence, FirstMissed, FixedRate
<1>3. /\ \A o : DeadlineOf(c, o) = o + c.lateness
      /\ c.type # "event_driven"
    BY DEF DeadlineOf, FixedRate
<1>4. /\ CurrentSlot(c, t) \in Nat /\ slot \in Int
      /\ t < c.anchor \/ (slot <= t /\ t < SlotAt(c, CurrentSlot(c, t) + 1))
    <2>1. CASE t >= c.anchor
        BY <2>1, CurrentSlotHasBegun, SlotsAreOrdered
    <2>2. CASE t < c.anchor
        <3>1. CurrentSlot(c, t) = 0
            BY <2>2 DEF CurrentSlot
        <3> QED
            BY <2>2, <3>1, SlotsAreOrdered
    <2> QED
        BY <2>1, <2>2 DEF FixedRate
<1>5. \A n \in Nat : SlotAt(c, n) \in Int /\ SlotAt(c, n) >= c.anchor
    <2>1. SlotAt(c, 0) = c.anchor
        BY DEF SlotAt, FixedRate
    <2> QED
        BY <2>1, SlotsAreOrdered
<1> HIDE DEF f, slot
<1>6. CASE heard >= slot
    <2>1. Evaluation(TRUE, c, heard, t).health = "healthy"
        BY <1>2, <1>3, <1>6 DEF Evaluation, Covered, Found
    <2>2. ASSUME NEW n \in Nat, SlotAt(c, n) > heard, t > SlotAt(c, n) + c.lateness
          PROVE  FALSE
        <3>1. t > SlotAt(c, n) /\ t >= c.anchor
            BY <2>2, <1>5 DEF FixedRate
        <3>2. t < SlotAt(c, CurrentSlot(c, t) + 1)
            BY <3>1, <1>4 DEF FixedRate
        <3>3. n <= CurrentSlot(c, t)
            <4>1. CASE CurrentSlot(c, t) + 1 <= n
                <5>1. SlotAt(c, CurrentSlot(c, t) + 1) <= SlotAt(c, n)
                    BY <4>1, <1>4, SlotsAreOrdered
                <5>2. SlotAt(c, CurrentSlot(c, t) + 1) \in Int
                    BY <1>4, <1>5
                <5> QED
                    BY <3>1, <3>2, <5>1, <5>2, <1>5
            <4> QED
                BY <4>1, <1>4
        <3>4. SlotAt(c, n) <= slot
            BY <3>3, <1>4, SlotsAreOrdered DEF slot
        <3> QED
            BY <2>2, <3>4, <1>6, <1>4, <1>5
    <2> QED
        BY <2>1, <2>2
<1>7. CASE heard < slot
    <2>1. Evaluation(TRUE, c, heard, t) = Missed(c, SlotAt(c, f), t)
        BY <1>2, <1>7, <1>4 DEF Evaluation
    <2>2. (Missed(c, SlotAt(c, f), t).health = "overdue")
            <=> t > SlotAt(c, f) + c.lateness
        BY <1>1, <1>3, <1>5 DEF Missed, Found
    <2>3. (\E n \in Nat : SlotAt(c, n) > heard /\ t > SlotAt(c, n) + c.lateness)
            <=> t > SlotAt(c, f) + c.lateness
        BY <1>1, <1>5
    <2> QED
        BY <2>1, <2>2, <2>3
<1>8. heard >= slot \/ heard < slot
    BY <1>4
<1> QED
    BY <1>6, <1>7, <1>8

-----------------------------------------------------------------------------
(* What is activated can be evaluated                                      *)

Types == {"cron", "interval", "event_driven"}

\* The validation is at least as strict as the evaluator.
LEMMA ValidIsEvaluable ==
    ASSUME NEW c, c.type \in Types, ValidCadence(c)
    PROVE  ~Throws(c)
<1>1. CASE c.type = "cron"
    BY <1>1 DEF ValidCadence, Throws
<1>2. CASE c.type = "interval"
    BY <1>2 DEF ValidCadence, Throws
<1>3. CASE c.type = "event_driven"
    BY <1>3 DEF ValidCadence, Throws
<1> QED
    BY <1>1, <1>2, <1>3 DEF Types

\* What the validation asks of a contract that a draft was applied to.
ValidDraft(d) ==
    /\ d.type = "cron" => d.zone /\ IsCron(d.value)
    /\ d.type = "interval" => Duration(d.value) > 0
    /\ d.type = "event_driven" => QuietWindowGiven(d)

\* What a template's settings leave of a cadence.
LEMMA AppliedFields ==
    ASSUME NEW c \in CadenceFields, NEW d \in Settings, NEW t \in Int
    PROVE  /\ Applied(c, d, t) \in CadenceFields
           /\ Applied(c, d, t).type = d.type /\ Applied(c, d, t).value = d.value
           /\ Applied(c, d, t).zone = d.zone /\ Applied(c, d, t).quiet = d.quiet
           /\ d.type = "interval" => /\ Applied(c, d, t).mode = "fixed_rate"
                                     /\ Applied(c, d, t).anchor = t
BY DEF Applied, CadenceFields, Settings

\* Whether it is valid does not depend on the contract that was there before.
LEMMA ValidityIsTheDrafts ==
    ASSUME NEW c \in CadenceFields, NEW d \in Settings, NEW t \in Int
    PROVE  ValidCadence(Applied(c, d, t)) <=> ValidDraft(d)
<1> DEFINE a == Applied(c, d, t)
<1>1. /\ a.type = d.type /\ a.value = d.value /\ a.zone = d.zone /\ a.quiet = d.quiet
      /\ d.type = "interval" => a.mode = "fixed_rate" /\ a.anchor = t
    BY AppliedFields
<1>2. d.type \in Types /\ t # None /\ None # "fixed_rate"
    BY ScheduleAssumption DEF Settings, Types
<1> SUFFICES ValidCadence(a) <=> ValidDraft(d)
    OBVIOUS
<1> HIDE DEF a
<1>3. CASE d.type = "cron"
    BY <1>1, <1>3 DEF ValidCadence, ValidDraft
<1>4. CASE d.type = "interval"
    BY <1>1, <1>2, <1>4 DEF ValidCadence, ValidDraft
<1>5. CASE d.type = "event_driven"
    BY <1>1, <1>5 DEF ValidCadence, ValidDraft, QuietWindowGiven
<1> QED
    BY <1>2, <1>3, <1>4, <1>5 DEF Types

\* The inductive invariant: while nothing was entered since the activation, the
\* draft it came from is valid, so neither the repair, which writes that draft
\* again, nor another activation can spoil the contract.
GateInv ==
    /\ nodes \in Triggers /\ now \in Int
    /\ draft \in Settings \cup {None}
    /\ contract \in CadenceFields \cup {None}
    /\ completed \in Int \cup {None}
    /\ completed # None => draft \in Settings
    /\ activated # None => completed # None /\ contract \in CadenceFields
    /\ activated # None /\ ~edited => ValidDraft(draft)
    /\ active => activated # None
    /\ active /\ ~edited => ValidCadence(contract)

\* Nothing is active at first.
LEMMA GateInit == Init => GateInv
BY ScheduleAssumption DEF Init, GateInv

\* Every step keeps GateInv.
LEMMA GateStep == GateInv /\ [Next]_vars => GateInv'
<1> SUFFICES ASSUME GateInv, [Next]_vars
             PROVE  GateInv'
    OBVIOUS
<1> USE ScheduleAssumption DEF GateInv
<1>1. CASE Select
    <2>1. Proposed(Discovered(nodes)) \in Settings
        BY <1>1 DEF Select
    <2> QED
        BY <1>1, <2>1 DEF Select
<1>2. ASSUME NEW choice \in Choices, Configure(choice)
      PROVE  GateInv'
    <2>1. [choice EXCEPT !.zone = draft.zone] \in Settings
        BY <1>2 DEF Configure, Settings
    <2> QED
        BY <1>2, <2>1 DEF Configure
<1>3. CASE Activate
    <2> DEFINE base == IF contract = None THEN Blank ELSE contract
               new == Applied(base, draft, now)
    <2>1. base \in CadenceFields /\ draft \in Settings
        BY <1>3 DEF Activate, Blank, NoValue, CadenceFields
    <2> HIDE DEF base
    <2>2. new \in CadenceFields /\ (ValidCadence(new) <=> ValidDraft(draft))
        BY <2>1, AppliedFields, ValidityIsTheDrafts
    <2>3. /\ contract' = new /\ completed' = now /\ UNCHANGED <<nodes, now, draft>>
          /\ IF ValidCadence(new)
             THEN active' = TRUE /\ activated' = now /\ edited' = FALSE
             ELSE edited' = (edited \/ active) /\ UNCHANGED <<active, activated>>
        BY <1>3 DEF Activate, base
    <2> HIDE DEF new
    <2>4. CASE ValidCadence(new)
        BY <2>1, <2>2, <2>3, <2>4
    <2>5. CASE ~ValidCadence(new)
        BY <2>1, <2>2, <2>3, <2>5
    <2> QED
        BY <2>4, <2>5
<1>4. ASSUME NEW choice \in Choices, EditCadence(choice)
      PROVE  GateInv'
    <2>1. contract' \in CadenceFields
        BY <1>4 DEF EditCadence, Settings, CadenceFields
    <2> QED
        BY <1>4, <2>1 DEF EditCadence
<1>5. ASSUME NEW choice \in Choices, choice.quiet # None, EditQuiet(choice.quiet)
      PROVE  GateInv'
    <2> DEFINE c == IF contract.type = "event_driven"
                    THEN [contract EXCEPT !.quiet = choice.quiet] ELSE contract
    <2>1. /\ contract \in CadenceFields /\ contract' = c
          /\ edited' = (edited \/ contract.type = "event_driven")
          /\ UNCHANGED <<nodes, now, draft, completed, active, activated>>
        BY <1>5 DEF EditQuiet
    <2>2. c \in CadenceFields
        BY <1>5, <2>1 DEF Settings, CadenceFields
    <2>3. CASE contract.type = "event_driven"
        <3>1. edited'
            BY <2>1, <2>3
        <3> HIDE DEF c
        <3> QED
            BY <2>1, <2>2, <3>1
    <2>4. CASE contract.type # "event_driven"
        BY <2>1, <2>4
    <2> QED
        BY <2>3, <2>4
<1>6. CASE Deactivate
    BY <1>6 DEF Deactivate
<1>7. CASE Repair
    <2> DEFINE new == Applied(contract, draft, completed)
    <2>1. /\ completed # None /\ activated = completed /\ contract' = new
          /\ UNCHANGED <<nodes, now, draft, completed, active, activated, edited>>
        BY <1>7 DEF Repair
    <2>2. draft \in Settings /\ contract \in CadenceFields /\ completed \in Int
        BY <2>1
    <2>3. new \in CadenceFields /\ (ValidCadence(new) <=> ValidDraft(draft))
        BY <2>2, AppliedFields, ValidityIsTheDrafts
    <2> HIDE DEF new
    <2> QED
        BY <2>1, <2>3
<1>8. ASSUME NEW at \in now - MaxLate .. now + MaxAhead, Report(at)
      PROVE  GateInv'
    BY <1>8 DEF Report
<1>9. CASE Watch
    BY <1>9 DEF Watch
<1>10. CASE Tick
    BY <1>10 DEF Tick
<1>11. CASE UNCHANGED vars
    BY <1>11 DEF vars
<1> QED
    BY <1>1, <1>2, <1>3, <1>4, <1>5, <1>6, <1>7, <1>8, <1>9, <1>10, <1>11 DEF Next

\* An active workflow whose settings were not touched since it was activated can
\* be evaluated: no tick of the watchdog and no report of it fails (the gate of
\* POST /onboarding/alerts), for every clock, draft and sequence of forms.
THEOREM GateHolds == Spec => []GateIsSound
<1>1. GateInv => GateIsSound
    <2>1. ASSUME GateInv, active, ~edited
          PROVE  ~Throws(contract)
        <3>1. contract.type \in Types
            BY <2>1 DEF GateInv, CadenceFields, Types
        <3> QED
            BY <2>1, <3>1, ValidIsEvaluable DEF GateInv
    <2> QED
        BY <2>1 DEF GateIsSound
<1> QED
    BY <1>1, GateInit, GateStep, PTL DEF Spec

-----------------------------------------------------------------------------
(* A silence that was found stays found                                    *)

\* A cron expression has an occurrence before and after every instant.
CronGoesOn ==
    \A i \in DOMAIN CronTicks :
        /\ CronTicks[i] \subseteq Int
        /\ \A t \in Int :
              /\ \E x \in CronTicks[i] : x < t /\ \A y \in CronTicks[i] : y < t => y <= x
              /\ \E x \in CronTicks[i] : x > t /\ \A y \in CronTicks[i] : y > t => y >= x

\* The ticks around an instant are the nearest ones.
LEMMA TicksAreNeighbours ==
    ASSUME NEW ticks, ticks \subseteq Int, NEW t \in Int,
           \E x \in ticks : x < t /\ \A y \in ticks : y < t => y <= x,
           \E x \in ticks : x > t /\ \A y \in ticks : y > t => y >= x
    PROVE  /\ PreviousTick(ticks, t) \in ticks /\ PreviousTick(ticks, t) < t
           /\ \A y \in ticks : y < t => y <= PreviousTick(ticks, t)
           /\ NextTick(ticks, t) \in ticks /\ NextTick(ticks, t) > t
BY DEF PreviousTick, NextTick

\* The length of an interval is a natural number.
LEMMA DurationIsNatural ==
    ASSUME NEW c \in CadenceFields
    PROVE  Duration(c.value) \in Nat
<1>1. c.value.amount \in Int
    BY DEF CadenceFields
<1> QED
    BY <1>1 DEF Duration, MinutesPer

\* What is missed is an instant after the report and does not depend on now, and
\* once it has passed the occurrence expected at now is not before it.
LEMMA MissedIsFixed ==
    ASSUME CronGoesOn, NEW c \in CadenceFields, ~Throws(c), c.type # "event_driven",
           NEW heard \in Int, heard # None, NEW t \in Int, NEW u \in Int
    PROVE  /\ FirstMissed(c, heard, t) \in Int
           /\ FirstMissed(c, heard, u) = FirstMissed(c, heard, t)
           /\ FirstMissed(c, heard, t) > heard
           /\ u > FirstMissed(c, heard, t)
                => /\ ExpectedOccurrence(c, heard, u) \in Int
                   /\ ExpectedOccurrence(c, heard, u) > heard
<1>1. CASE c.type = "cron"
    <2> DEFINE ticks == CronTicks[c.value.amount]
               prev == PreviousTick(ticks, u)
               next == NextTick(ticks, heard)
    <2>1. c.value.amount \in DOMAIN CronTicks
        BY <1>1 DEF Throws, IsCron
    <2>2. ticks \subseteq Int
        BY <2>1 DEF CronGoesOn
    <2>3. \A x \in Int :
            /\ \E y \in ticks : y < x /\ \A z \in ticks : z < x => z <= y
            /\ \E y \in ticks : y > x /\ \A z \in ticks : z > x => z >= y
        BY <2>1 DEF CronGoesOn
    <2>4. FirstMissed(c, heard, t) = next /\ FirstMissed(c, heard, u) = next
        BY <1>1 DEF FirstMissed
    <2>5. ExpectedOccurrence(c, heard, u) = prev
        BY <1>1 DEF ExpectedOccurrence
    <2> HIDE DEF ticks
    <2>6. prev \in ticks /\ \A y \in ticks : y < u => y <= prev
        BY <2>2, <2>3, TicksAreNeighbours
    <2>7. next \in ticks /\ next > heard
        BY <2>2, <2>3, TicksAreNeighbours
    <2> HIDE DEF prev, next
    <2> QED
        BY <2>2, <2>4, <2>5, <2>6, <2>7
<1>2. CASE c.type = "interval" /\ c.mode = "fixed_rate"
    <2>1. FixedRate(c)
        BY <1>2, DurationIsNatural DEF Throws, FixedRate, CadenceFields
    <2> DEFINE f == FirstUncoveredSlot(c, heard)
               n == CurrentSlot(c, u)
    <2>2. f \in Nat /\ SlotAt(c, f) > heard
        BY <2>1, FirstUncoveredSlotIsFirst
    <2>3. SlotAt(c, f) \in Int /\ SlotAt(c, f) >= c.anchor
        <3>1. SlotAt(c, 0) = c.anchor
            BY <2>1 DEF SlotAt, FixedRate
        <3> QED
            BY <2>1, <2>2, <3>1, SlotsAreOrdered
    <2>4. FirstMissed(c, heard, t) = SlotAt(c, f) /\ FirstMissed(c, heard, u) = SlotAt(c, f)
        BY <1>2 DEF FirstMissed
    <2>5. ExpectedOccurrence(c, heard, u) = SlotAt(c, n)
        BY <1>2 DEF ExpectedOccurrence
    <2>6. ASSUME u > SlotAt(c, f)
          PROVE  SlotAt(c, n) \in Int /\ SlotAt(c, n) >= SlotAt(c, f)
        <3>1. u >= c.anchor
            BY <2>1, <2>3, <2>6 DEF FixedRate
        <3>2. n \in Nat /\ u < SlotAt(c, n + 1)
            BY <2>1, <3>1, CurrentSlotHasBegun
        <3> HIDE DEF n, f
        <3>3. SlotAt(c, n + 1) \in Int /\ SlotAt(c, n) \in Int
            BY <2>1, <3>2, SlotsAreOrdered
        <3>4. CASE n + 1 <= f
            <4>1. SlotAt(c, n + 1) <= SlotAt(c, f)
                BY <2>1, <2>2, <3>2, <3>4, SlotsAreOrdered
            <4> QED
                BY <2>3, <2>6, <3>2, <3>3, <4>1
        <3>5. CASE f <= n
            BY <2>1, <2>2, <3>2, <3>3, <3>5, SlotsAreOrdered
        <3> QED
            BY <2>2, <3>2, <3>4, <3>5
    <2> HIDE DEF f, n
    <2> QED
        BY <2>2, <2>3, <2>4, <2>5, <2>6
<1>3. CASE c.type = "interval" /\ c.mode = "since_last_success"
    <2>1. Duration(c.value) \in Nat \ {0}
        BY <1>3, DurationIsNatural DEF Throws
    <2>2. /\ FirstMissed(c, heard, t) = heard + Duration(c.value)
          /\ FirstMissed(c, heard, u) = heard + Duration(c.value)
          /\ ExpectedOccurrence(c, heard, u) = heard + Duration(c.value)
        BY <1>3 DEF FirstMissed, ExpectedOccurrence, Origin
    <2> QED
        BY <2>1, <2>2
<1>4. \/ c.type = "cron"
      \/ c.type = "interval" /\ c.mode = "fixed_rate"
      \/ c.type = "interval" /\ c.mode = "since_last_success"
    BY DEF CadenceFields, Throws
<1> QED
    BY <1>1, <1>2, <1>3, <1>4

\* What the watchdog finds of an active workflow that has reported.
Judged(c, heard, t) == Evaluation(TRUE, c, heard, t)

OverdueSince(c, heard, t, since) ==
    /\ Judged(c, heard, t).health = "overdue"
    /\ Judged(c, heard, t).since = since

\* An evaluation carries the health and the instant it was given.
LEMMA FoundFields ==
    ASSUME NEW health, NEW c, NEW o, NEW since
    PROVE  Found(health, c, o, since).health = health /\ Found(health, c, o, since).since = since
BY DEF Found

\* Whoever looks later finds the same silence, since the same instant.
LEMMA SilenceLasts ==
    ASSUME CronGoesOn, NEW c \in CadenceFields, ~Throws(c),
           NEW heard \in Int, heard # None, NEW t \in Int, NEW u \in Int, t <= u,
           NEW since, OverdueSince(c, heard, t, since)
    PROVE  OverdueSince(c, heard, u, since)
<1>1. CASE c.type = "event_driven"
    <2>1. c.quiet \in Int
        BY <1>1 DEF Throws, QuietWindowGiven, CadenceFields
    <2>2. \A x \in Int : Judged(c, heard, x) =
            IF x > heard + c.quiet THEN Found("overdue", c, heard, heard + c.quiet)
            ELSE Found("healthy", c, heard, None)
        BY <1>1 DEF Judged, Evaluation, ExpectedOccurrence, Origin, Covered, DeadlineOf
    <2>3. t > heard + c.quiet
        <3>1. CASE ~(t > heard + c.quiet)
            <4>1. Judged(c, heard, t) = Found("healthy", c, heard, None)
                BY <2>2, <3>1
            <4> QED
                BY <4>1, FoundFields DEF OverdueSince
        <3> QED
            BY <3>1
    <2>4. u > heard + c.quiet
        BY <2>1, <2>3
    <2> QED
        BY <2>2, <2>3, <2>4 DEF OverdueSince
<1>2. CASE c.type # "event_driven"
    <2> DEFINE m == FirstMissed(c, heard, t)
    <2>1. /\ m \in Int /\ FirstMissed(c, heard, u) = m /\ m > heard
          /\ u > m => ExpectedOccurrence(c, heard, u) \in Int
                      /\ ExpectedOccurrence(c, heard, u) > heard
        BY <1>2, MissedIsFixed
    <2>2. c.lateness \in Nat /\ DeadlineOf(c, m) = m + c.lateness
        BY <1>2 DEF DeadlineOf, CadenceFields
    <2>3. \A o : Covered(c, o, t).health = "healthy"
        BY <1>2 DEF Covered, Found
    <2>4. Judged(c, heard, t) = Missed(c, m, t)
        BY <2>3 DEF Judged, Evaluation, OverdueSince
    <2> HIDE DEF m
    <2>5. t > m + c.lateness /\ since = m + c.lateness
        <3>1. Missed(c, m, t).health = "overdue" /\ Missed(c, m, t).since = since
            BY <2>4 DEF OverdueSince
        <3>2. t > m /\ t > DeadlineOf(c, m)
            BY <2>1, <2>2, <3>1 DEF Missed, Found
        <3>3. Missed(c, m, t) = Found("overdue", c, m, DeadlineOf(c, m))
            BY <2>1, <2>2, <3>2 DEF Missed
        <3> QED
            BY <2>2, <3>1, <3>2, <3>3 DEF Found
    <2>6. u > m /\ u > m + c.lateness
        BY <2>1, <2>2, <2>5
    <2>7. Judged(c, heard, u) = Missed(c, m, u)
        BY <2>1, <2>6 DEF Judged, Evaluation
    <2>8. Missed(c, m, u) = Found("overdue", c, m, since)
        BY <2>1, <2>2, <2>5, <2>6 DEF Missed
    <2> QED
        BY <2>7, <2>8, FoundFields DEF OverdueSince
<1> QED
    BY <1>1, <1>2

\* An overdue row that is about the contract and the last report is what the
\* evaluator found at some earlier instant.
RowInv ==
    /\ last \in Int \cup {None}
    /\ row.health = "overdue" /\ last # None /\ ~stale =>
          /\ contract \in CadenceFields /\ ~Throws(contract)
          /\ \E t \in Int : t <= now /\ OverdueSince(contract, last, t, row.since)

SilenceInv == GateInv /\ RowInv

\* A visit of the watchdog evaluates a readable cadence.
LEMMA WatchFindsIt ==
    ASSUME SilenceInv, Watch
    PROVE  RowInv' /\ contract \in CadenceFields /\ ~Throws(contract)
<1>1. contract \in CadenceFields /\ ~Throws(contract) /\ UNCHANGED <<contract, last, now>>
    BY DEF Watch, SilenceInv, GateInv
<1>2. now \in Int /\ last \in Int \cup {None}
    BY DEF SilenceInv, GateInv, RowInv
<1>3. /\ row'.health = Judged(contract, last, now).health
      /\ row'.since = Judged(contract, last, now).since
    BY DEF Watch, Judged
<1>4. row'.health = "overdue" => OverdueSince(contract, last, now, row'.since)
    BY <1>3 DEF OverdueSince
<1> QED
    BY <1>1, <1>2, <1>4 DEF RowInv

\* Every step keeps the row's part of the invariant,
LEMMA RowStep == SilenceInv /\ [Next]_vars => RowInv'
<1> SUFFICES ASSUME SilenceInv, [Next]_vars
             PROVE  RowInv'
    OBVIOUS
<1> USE ScheduleAssumption
<1>1. CASE Select
    BY <1>1 DEF Select, SilenceInv, RowInv
<1>2. ASSUME NEW choice \in Choices, Configure(choice)
      PROVE  RowInv'
    BY <1>2 DEF Configure, SilenceInv, RowInv
<1>3. CASE Activate
    BY <1>3 DEF Activate, SilenceInv, RowInv
<1>4. ASSUME NEW choice \in Choices, EditCadence(choice)
      PROVE  RowInv'
    BY <1>4 DEF EditCadence, SilenceInv, RowInv
<1>5. ASSUME NEW choice \in Choices, choice.quiet # None, EditQuiet(choice.quiet)
      PROVE  RowInv'
    BY <1>5 DEF EditQuiet, SilenceInv, RowInv
<1>6. CASE Deactivate
    BY <1>6 DEF Deactivate, SilenceInv, RowInv
<1>7. CASE Repair
    BY <1>7 DEF Repair, SilenceInv, RowInv
<1>8. ASSUME NEW at \in now - MaxLate .. now + MaxAhead, Report(at)
      PROVE  RowInv'
    <2>1. at \in Int /\ last' = at /\ row'.health = "healthy"
        BY <1>8 DEF Report, SilenceInv, GateInv
    <2> QED
        BY <2>1 DEF RowInv
<1>9. CASE Watch
    BY <1>9, WatchFindsIt
<1>10. CASE Tick
    <2>1. now \in Int /\ now' = now + 1 /\ UNCHANGED <<row, last, stale, contract>>
        BY <1>10 DEF Tick, SilenceInv, GateInv
    <2>2. \A t \in Int : t <= now => t <= now'
        BY <2>1
    <2> QED
        BY <2>1, <2>2 DEF SilenceInv, RowInv
<1>11. CASE UNCHANGED vars
    BY <1>11 DEF vars, SilenceInv, RowInv
<1> QED
    BY <1>1, <1>2, <1>3, <1>4, <1>5, <1>6, <1>7, <1>8, <1>9, <1>10, <1>11 DEF Next

\* and the whole of it.
LEMMA SilenceStep == SilenceInv /\ [Next]_vars => SilenceInv'
BY GateStep, RowStep DEF SilenceInv

\* The step that SilenceStands is about.
SilenceKept ==
    row.health = "overdue" /\ last # None /\ ~stale /\ ~stale' =>
        \/ row'.health = "overdue" /\ row'.since = row.since
        \/ reports' # reports

\* Only a report ends a silence that was found, and only a report moves its
\* beginning: however often the watchdog looks, the slots that begin meanwhile,
\* a report that was dated into the past or the future, and the forms that touch
\* the workflow without changing its cadence leave both as they are.
THEOREM SilenceIsOne ==
    ASSUME CronGoesOn
    PROVE  Spec => SilenceStands
<1>1. Init => SilenceInv
    <2>1. Init => RowInv
        BY DEF Init, RowInv
    <2> QED
        BY <2>1, GateInit DEF SilenceInv
<1>2. SilenceInv /\ [Next]_vars => [SilenceKept]_vars
    <2> SUFFICES ASSUME SilenceInv, Next,
                        row.health = "overdue", last # None, ~stale, ~stale'
                 PROVE  \/ row'.health = "overdue" /\ row'.since = row.since
                        \/ reports' # reports
        BY DEF SilenceKept
    <2>1. CASE Watch
        <3>1. /\ UNCHANGED <<contract, last, now>> /\ now \in Int /\ last \in Int
              /\ contract \in CadenceFields /\ ~Throws(contract)
            BY <2>1, WatchFindsIt DEF Watch, SilenceInv, GateInv, RowInv
        <3>2. PICK t \in Int : t <= now /\ OverdueSince(contract, last, t, row.since)
            BY DEF SilenceInv, RowInv
        <3>3. OverdueSince(contract, last, now, row.since)
            BY <3>1, <3>2, SilenceLasts
        <3>4. /\ row'.health = Judged(contract, last, now).health
              /\ row'.since = Judged(contract, last, now).since
            BY <2>1 DEF Watch, Judged
        <3> QED
            BY <3>3, <3>4 DEF OverdueSince
    <2>2. ASSUME NEW at \in now - MaxLate .. now + MaxAhead, Report(at)
          PROVE  reports' # reports
        BY <2>2 DEF Report
    <2>3. CASE row' = row
        BY <2>3
    <2>4. \/ Watch
          \/ \E at \in now - MaxLate .. now + MaxAhead : Report(at)
          \/ row' = row
        BY DEF Next, Select, Configure, Activate, EditCadence, EditQuiet, Deactivate,
               Repair, Tick
    <2> QED
        BY <2>1, <2>2, <2>3, <2>4
<1>3. Spec => [][SilenceKept]_vars
    BY <1>1, <1>2, SilenceStep, PTL DEF Spec
<1> QED
    BY <1>3 DEF SilenceStands, SilenceKept
=============================================================================
