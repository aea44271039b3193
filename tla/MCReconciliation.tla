--------------------------- MODULE MCReconciliation ---------------------------
(* Instances of Reconciliation for TLC. *)
EXTENDS Reconciliation, TLC

CONSTANTS k1, k2, a, b

OutcomeProblems ==
    {"missing_destination_records", "partial_delivery", "connector_unavailable"}

Agreed(mode, target, percentage, retention) ==
    [mode |-> mode, target |-> target, delay |-> 1, count |-> 0,
     percentage |-> percentage, retention |-> retention]

\* A contract whose evidence is kept for two units, and one that compares counts.
BothModes == {Agreed("reconciliation", "high", 0, 2), Agreed("aggregate_check", "medium", 50, 2)}
OneMode == {Agreed("reconciliation", "high", 0, 9)}

\* All emails register in the first instant, or one of them twice.
AtOnce == [e \in Emails |-> {0}]
Twice == (a :> {0, 1}) @@ (b :> {1})
Again == [e \in Emails |-> {0, 1}]

\* A window of all instants, and two side by side.
Whole == {[start |-> 0, end |-> MaxTime]}
Both == {[start |-> 0, end |-> 1], [start |-> 2, end |-> MaxTime]}
=============================================================================
