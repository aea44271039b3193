------------------------------ MODULE MCOutbox ------------------------------
(* Small instances of Outbox for TLC.                                      *)
EXTENDS Outbox, TLC

CONSTANTS a1, a2, t1, i1, i2, c1, c2, w1, w2

MCIncidentOf == [a \in Alerts |-> IF a = a1 THEN i1 ELSE i2]
=============================================================================
