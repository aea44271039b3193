----------------------------- MODULE MCIngestion -----------------------------
(***************************************************************************)
(* Small instances of Ingestion for TLC.  A run is about reports of all     *)
(* kinds, with little intervention, or about those who look after the       *)
(* incidents by hand, with few reports.                                     *)
(***************************************************************************)
EXTENDS Ingestion, TLC

CONSTANTS p1, p2, a, b, c

VARIABLE part   \* bound: what a run is about

InstanceSymmetry == Permutations(Processes) \cup Permutations(Keys)

Body(status, items, at, mark, effect) ==
    [status |-> status, items |-> items, at |-> at, mark |-> mark, effect |-> effect]

Failed == Body("failure", Never, 1, NoMark, "missing")
Counted == Body("success", 1, 2, 1, "equal")

\* What can open and end incidents of every type.
Bodies ==
    {Failed, Counted,
     Body("success", 0, 1, NoMark, "missing"),
     Body("success", 1, 1, 1, "unequal")}

\* What is enough to race with those who look after the incidents by hand.
FewBodies == {Failed, Counted}

Keyed(body, k) == [key |-> k] @@ body
MCReports == {Keyed(body, k) : body \in Bodies, k \in Keys}

Contract(method, policy, threshold, marks, effects) ==
    [method |-> method, policy |-> policy, threshold |-> threshold, marks |-> marks,
     staleness |-> 0, effects |-> effects, countless |-> ~effects]

Pushed == Contract("push", "warning", 1, TRUE, TRUE)
MCAgreements == {Pushed, Contract("poll", "failure", 2, TRUE, FALSE)}

MCInit ==
    /\ Init
    /\ part \in {"reports", "hands"}
    /\ part = "hands" => agreement = Pushed

\* One intervention.
ReportsOnly == admin' <= 1

KeysOf(stored, asked) ==
    {stored[i].key : i \in DOMAIN stored} \cup
        {asked[p].key : p \in {q \in Processes : asked[q] # NoReport}}

\* Few reports, of two keys; nothing is removed.
HandsOnly ==
    /\ trusted'
    /\ \A p \in Processes :
          request'[p] \notin {request[p], NoReport} =>
              /\ Len(events) < 2
              /\ \E body \in FewBodies : request'[p] = Keyed(body, request'[p].key)
              /\ Cardinality(KeysOf(events, request')) <= 2

MCNext ==
    /\ Next
    /\ part = "reports" => ReportsOnly
    /\ part = "hands" => HandsOnly
    /\ UNCHANGED part

MCSpec == MCInit /\ [][MCNext]_<<vars, part>>
==============================================================================
