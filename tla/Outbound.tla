-------------------------------- MODULE Outbound -------------------------------
(***************************************************************************)
(* A request of the n8n client: what it checks of an address before every  *)
(* hop, what it makes of redirects, bodies and failures                    *)
(* (secure-outbound-http.ts, under the policy of self-hosted connectors),  *)
(* and the health that the client concludes (n8n-api-client.ts).  A site   *)
(* is a way in which the network may present n8n to a connector.           *)
(***************************************************************************)
EXTENDS Integers

CONSTANTS
    Home,           \* the URL of the n8n API
    Network,        \* what each site has at each URL: its addresses, what it sends
    NoLocation,     \* no Location header, and one that is no URL
    Unreadable,
    MaxRedirects    \* N8N_CONNECTOR_MAX_REDIRECTS

ConnectorHealth == {"unknown", "healthy", "unreachable", "auth_failed", "misconfigured"}

\* The outcomes of a request: a response, or the health an error stands for.
Response(status, body) == [failed |-> FALSE, status |-> status, body |-> body]
Error(health) == [failed |-> TRUE, health |-> health]

\* assertSelfHostedConnectorUrl
Permitted(url) ==
    url.scheme \in {"http", "https"} /\ ~url.userinfo /\ ~url.metadata

\* assertHostnameResolvesSelfHosted
NameHealth(addresses) ==
    IF addresses = {} THEN "unreachable"
    ELSE IF "metadata" \in addresses THEN "misconfigured" ELSE "healthy"

\* What a server sends: a status with a location or a body, or nothing in time.
RedirectStatus == {301, 302, 303, 307, 308}
Sent(status, location, body) == [status |-> status, location |-> location, body |-> body]
Silence == Sent(0, NoLocation, "none")

\* readBodyLimited: a stream that breaks off is no error of its own.
BodyOf(sent) ==
    CASE sent.body = "oversized" -> Error("misconfigured")
      [] sent.body = "broken"    -> Error("unreachable")
      [] OTHER                   -> Response(sent.status, sent.body)

\* secureOutboundGet: every hop is checked as the first one was; a location that
\* is no URL at all fails like a connection.
Get(site) ==
    LET get[left \in 0 .. MaxRedirects, url \in DOMAIN Network[site]] ==
            LET sent == Network[site][url].sent
                name == NameHealth(Network[site][url].addresses)
            IN  IF ~Permitted(url) THEN Error("misconfigured")
                ELSE IF name # "healthy" THEN Error(name)
                ELSE IF sent = Silence THEN Error("unreachable")
                ELSE IF sent.status \notin RedirectStatus THEN BodyOf(sent)
                ELSE IF sent.location = NoLocation \/ left = 0 THEN Error("misconfigured")
                ELSE IF sent.location = Unreadable THEN Error("unreachable")
                ELSE get[left - 1, sent.location]
    IN  get[MaxRedirects, Home]

\* mapHttpFailure
HealthOfStatus(status) ==
    IF status \in {401, 403} THEN "auth_failed" ELSE "unreachable"

\* validateN8nConnectorConnectivity does not mind what the body says.
Validated(site) ==
    LET got == Get(site)
    IN  IF got.failed THEN got.health
        ELSE IF got.status \in 200 .. 299 THEN "healthy"
        ELSE HealthOfStatus(got.status)

\* listN8nExecutions needs a list of executions.
Listed(site) ==
    LET got == Get(site)
    IN  IF got.failed THEN got.health
        ELSE IF got.status \notin 200 .. 299 THEN HealthOfStatus(got.status)
        ELSE IF got.body = "list" THEN "healthy" ELSE "misconfigured"

\* What the two make of each site.
Appearances ==
    {[tested |-> Validated(site), polled |-> Listed(site)] : site \in DOMAIN Network}
=============================================================================
