---------------------------------- MODULE Roster ---------------------------------
(***************************************************************************)
(* What the pages and the wizard promise about a workflow: it may be taken *)
(* into watch, left and taken again, and be given credentials and lose     *)
(* them; once it is removed, at a stroke with everything of its client or  *)
(* alone, it is neither watched nor heard until an administrator takes it  *)
(* up again.                                                               *)
(***************************************************************************)
CONSTANT Flows

VARIABLES
    watched,    \* evaluated, and their reports taken
    heard,      \* those with a credential that is good
    gone        \* removed, and not taken up again

vars == <<watched, heard, gone>>

Init ==
    /\ watched \in SUBSET Flows
    /\ heard \in SUBSET Flows
    /\ gone = {}

\* An administrator takes up the workflows S: some are watched from then on,
\* some are given a credential.
TakeUp(S, W, H) ==
    /\ W \cup H \subseteq S
    /\ gone' = gone \ S
    /\ watched' = watched \cup W
    /\ heard' = heard \cup H

Leave(f) ==
    /\ watched' = watched \ {f}
    /\ UNCHANGED <<heard, gone>>

Silence(f) ==
    /\ heard' = heard \ {f}
    /\ UNCHANGED <<watched, gone>>

Remove(S) ==
    /\ watched' = watched \ S
    /\ heard' = heard \ S
    /\ gone' = gone \cup S

Next ==
    \/ \E S \in SUBSET Flows : Remove(S) \/ \E W, H \in SUBSET S : TakeUp(S, W, H)
    \/ \E f \in Flows : Leave(f) \/ Silence(f)

Spec == Init /\ [][Next]_vars
=============================================================================
