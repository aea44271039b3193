-------------------------------- MODULE MCFleet --------------------------------
(***************************************************************************)
(* Fleet and its pages, the wizard and the catalog together.  A run starts *)
(* either with nothing on record, and then an administrator follows the    *)
(* wizard, or the forms; or where the wizard was finished for one workflow,*)
(* and then every page is used.                                            *)
(***************************************************************************)
EXTENDS Wizard, Catalog

CONSTANTS
    Begun,          \* requests made before a run that starts with one workflow in watch
    c1, f1, f2, k1

VARIABLE follows

\* Nothing; both workflows on pages that overlap; one whose page has a row without
\* an id; one before an empty page that has a cursor; one that has no details.
Page(rows, more) == [failed |-> FALSE, rows |-> rows, mute |-> {}, next |-> more]
MCAnswers ==
    {<<[Page(<<>>, FALSE) EXCEPT !.failed = TRUE]>>,
     <<Page(<<f1>>, TRUE), Page(<<f1, f2>>, TRUE), Page(<<f1>>, TRUE)>>,
     <<Page(<<NoId, f2>>, FALSE)>>,
     <<Page(<<f1>>, TRUE), Page(<<>>, TRUE), Page(<<f2>>, FALSE)>>,
     <<[Page(<<f1, f2>>, FALSE) EXCEPT !.mute = {f2}]>>}

\* In good order; an empty result; overdue; overdue behind a stale watermark.
MCTidings ==
    LET silence == [kind |-> "silent_absence", severity |-> "critical"]
        empty == [kind |-> "empty_result", severity |-> "critical"]
        stale == [kind |-> "freshness_stale", severity |-> "warning"]
    IN  {[health |-> "healthy", open |-> {}], [health |-> "healthy", open |-> {empty}],
         [health |-> "overdue", open |-> {silence}],
         [health |-> "overdue", open |-> {silence, stale}]}

vars == <<fleetVars, wizardVars, follows>>

Empty == [client |-> [c \in Clients |-> "none"], flow |-> [f \in Flows |-> NoFlow],
          contracts |-> <<>>, keys |-> <<>>, channels |-> <<>>, routes |-> {},
          connector |-> [j \in Connectors |-> [status |-> "active", health |-> "healthy"]],
          stated |-> {}, news |-> [f \in Flows |-> NoNews]]

\* One workflow, which reports by itself or is polled, is in watch.
Settled(m) ==
    LET made == AddRoute(AddChannel(AddContract(AddFlow(
                    SetClient(Empty, c1, "protected"), f1, c1, m), f1, Inferred)), 1, 1)
        on == Seed(ActivateFlow(ActivateContract(made, 1, 1), f1, m), f1)
        tried == [on EXCEPT !.channels[1].health = "healthy"]
    IN  IF m = "poll" THEN BindFlow(tried, f1, k1) ELSE AddKey(tried, f1)

\* A client and a connector were chosen.
Connected == [EmptyDraft EXCEPT !.client = c1, !.connector = k1]

Onboarded(m) ==
    [Connected EXCEPT !.selected = {f1}, !.channel = 1, !.activatedAt = 1,
                      !.configs[f1] = [setup |-> Inferred, method |-> m, contract |-> 1]]

Begin(d, dr, s, done) ==
    /\ db = d /\ draft = dr /\ step = s /\ completed = done
    /\ calls = Begun /\ revived = {}
    /\ tab = [t \in Tabs |-> Idle] /\ restarts = 0

Init ==
    \/ follows = "forms" /\ InitFleet /\ InitWizard
    \/ follows = "wizard" /\ Begin(SetClient(Empty, c1, "onboarding"), Connected,
                                   "select_workflows", FALSE)
    \/ follows = "all" /\ \E m \in Methods : Begin(Settled(m), Onboarded(m), "catalog", TRUE)

Next ==
    /\ UNCHANGED follows
    /\ \/ /\ follows = "forms"
          /\ ProtectStep \/ CreateChannel \/ \E k \in Connectors : CreateConnector(k)
          /\ UNCHANGED wizardVars
       \/ follows = "wizard" /\ WizardStep
       \/ follows = "all" /\ WizardNext

Spec == Init /\ [][Next]_vars

TypeOK == FleetTypeOK /\ WizardTypeOK
=============================================================================
