------------------------------ MODULE Incidents ------------------------------
(***************************************************************************)
(* The incidents table and what the outbox has been told about each row    *)
(* (sqlite-alerting-repositories.ts and incidents/lifecycle.ts).           *)
(*                                                                         *)
(* The module holds the store and its statements; the modules that extend  *)
(* it say who executes them, and in which order.                           *)
(***************************************************************************)
EXTENDS Naturals, Sequences

CONSTANTS
    Problems,       \* what an incident is about: a contract and an incident type
    Backoff         \* notification_backoff_minutes

ASSUME BackoffAssumption == Backoff \in Nat

VARIABLE incidents  \* the rows, in the order of their insertion

Status == {"open", "acknowledged", "resolved"}
EventType == {"opened", "renotification", "acknowledged", "resolved"}

\* What a reader of the alerts is told about the incident itself.
Announcement == EventType \ {"acknowledged"}

\* told counts the outbox rows of each announcement and pending those not
\* delivered yet, both saturating at two; age is the time since
\* last_notified_at, or since opened_at, saturating at Backoff.
Incident ==
    [problem : Problems, status : Status, recovered : BOOLEAN, acked : BOOLEAN,
     told : [Announcement -> 0 .. 2], pending : 0 .. 2,
     age : 0 .. Backoff]

Unresolved(rows, p) ==
    {i \in DOMAIN rows : /\ rows[i].problem = p
                         /\ rows[i].status \in {"open", "acknowledged"}}

\* The INSERT of openOrObserveIncident.
Opened(rows, p) ==
    Append(rows, [problem |-> p, status |-> "open", recovered |-> FALSE,
                  acked |-> FALSE, told |-> [e \in Announcement |-> 0],
                  pending |-> 0, age |-> 0])

\* transitionIncidentStatus(status, "resolved") does not throw.
Resolvable(row) == row.status \in {"open", "acknowledged"}

\* The UPDATE of resolveIncident, whatever the row has become by now.
Resolved(rows, i) ==
    [rows EXCEPT ![i].status = "resolved", ![i].recovered = TRUE]

\* Mutant: recovery is not looked at.
LegacyStatusAlways(row) == "acknowledged"

\* The status acknowledgeIncident computes from the row it has read.
LegacyStatus(row) == IF row.recovered THEN "resolved" ELSE "acknowledged"

\* The UPDATE of acknowledgeIncident.
Acknowledged(rows, i, status) ==
    [rows EXCEPT ![i].status = status, ![i].acked = TRUE]

\* enqueueOutbox for incident i.
OneMore(n) == IF n = 2 THEN 2 ELSE n + 1
Told(rows, i, event) ==
    [rows EXCEPT ![i].pending = OneMore(@),
                 ![i].told = [e \in Announcement |->
                                IF e = event THEN OneMore(@[e]) ELSE @[e]]]

\* markIncidentNotified, once an outbox row has been delivered.
Notified(rows, i) == [rows EXCEPT ![i].age = 0, ![i].pending = @ - 1]

\* shouldEnqueueRenotification for a row last notified (or opened) age ago.
RenotificationDue(age) == Backoff > 0 /\ age >= Backoff

\* One unit of time passes.
Older(n) == IF n = Backoff THEN n ELSE n + 1
Aged(rows) ==
    [i \in DOMAIN rows |-> [rows[i] EXCEPT !.age = Older(@)]]
=============================================================================
