----------------------------- MODULE MCPolling ------------------------------
(* Small instances of Polling for TLC.                                      *)
EXTENDS Polling, TLC

CONSTANTS p1, p2, w1, w2, c1

OneConnector == [w \in Workflows |-> c1]

\* The address of the API, and one that it is moved to.
Url(scheme, metadata) == [scheme |-> scheme, userinfo |-> FALSE, metadata |-> metadata]
MCHome == Url("http", FALSE)
Elsewhere == Url("https", FALSE)
At(sent) == [addresses |-> {"private"}, sent |-> sent]
Page1 == Sent(200, NoLocation, "list")

\* n8n behind a redirect, out of reach, behind a proxy with a page of its own that
\* a test of the connector takes for n8n.  One that refuses the key would be down
\* by another name.
MCNetwork ==
    [up      |-> (MCHome :> At(Sent(307, Elsewhere, "none")) @@ Elsewhere :> At(Page1)),
     down    |-> (MCHome :> At(Silence) @@ Elsewhere :> At(Page1)),
     proxied |-> (MCHome :> At(Sent(200, NoLocation, "page")) @@ Elsewhere :> At(Page1))]

ProcessSymmetry == Permutations(Processes)
AllSymmetry == Permutations(Processes) \cup Permutations(Workflows)
=============================================================================
