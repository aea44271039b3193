-------------------------------- MODULE Startup --------------------------------
(***************************************************************************)
(* The start of a process (main.ts): the schema is migrated tag by tag,    *)
(* the tenant is looked up or created, and an installation that has no     *)
(* user gets a setup token, printed once.  Two processes may start on the  *)
(* same database, and each statement is then a step of its own; only the   *)
(* application of a migration is a transaction.  All processes are started *)
(* with the same environment.                                              *)
(***************************************************************************)
EXTENDS Integers, FiniteSets

CONSTANTS
    Processes,
    Nobody,         \* no process
    Names,          \* user names somebody may pick
    Tags,           \* the journal lists the migrations 1 .. Tags
    Rebuilding,     \* those that switch the foreign keys off for themselves
    EnvTokens,      \* may QUORUM_SETUP_TOKEN be set? a set of booleans
    OpenModes,      \* may the UI be open without login? a set of booleans
    SetupTtl,       \* SETUP_TTL_MS
    MaxTokens,      \* bound: setup tokens generated in a run (never reached)
    MaxFaults,      \* bound: migrations that fail for a reason of their own
    MaxCrashes      \* bound: processes that are killed

ASSUME StartupAssumption ==
    /\ IsFiniteSet(Processes) /\ Processes # {}
    /\ Nobody \notin Processes \cup Names
    /\ Tags \in Nat /\ Rebuilding \subseteq 1 .. Tags
    /\ EnvTokens \subseteq BOOLEAN /\ OpenModes \subseteq BOOLEAN
    /\ SetupTtl \in Nat
    /\ MaxFaults \in Nat /\ MaxCrashes \in Nat
    /\ MaxTokens \in Nat /\ MaxTokens >= Cardinality(Processes) + MaxCrashes

VARIABLES
    built,      \* the migrations whose statements the schema shows
    applied,    \* the rows of __quorum_migrations
    failure,    \* the row of __quorum_migration_failure, "none" for no row
    open,       \* environment: the UI is open without login
    fixed,      \* environment: QUORUM_SETUP_TOKEN is set
    tenants,    \* how many self_hosted tenants there are
    tokens,     \* setup_tokens: [id, left, used]; 0 is the token of the environment
    issued,     \* tokens generated so far
    role,       \* admin_users.role, "none" for no such user
    maker,      \* the process that let the user in through the setup page
    pc,         \* where each process is
    seen,       \* the migrations it takes for applied
    tenant,     \* the tenant its workers look after, 0 for none yet
    raced,      \* two starts have overlapped
    faults,     \* failures and kills so far
    crashes

schemaVars == <<built, applied, failure>>
userVars == <<role, maker>>
ownVars == <<seen, tenant>>
env == <<open, fixed>>
counters == <<raced, faults, crashes>>
startVars == <<schemaVars, env, tenants, tokens, issued, userVars, pc, ownVars, counters>>

Tag == 1 .. Tags
Role == {"admin", "operator", "viewer"}
StartPlace == {"list", "judge", "forgive", "apply", "record", "check", "lookTenant",
               "insertTenant", "lookAdmin", "deleteTokens", "insertToken"}
Token == [id : 0 .. MaxTokens, left : -1 .. SetupTtl, used : BOOLEAN]

StartTypeOK ==
    /\ built \subseteq Tag /\ applied \subseteq Tag
    /\ failure \in {"none", "foreign key", "other"}
    /\ tenants \in 0 .. Cardinality(Processes)
    /\ tokens \subseteq Token
    /\ issued \in 0 .. MaxTokens
    /\ role \in [Names -> Role \cup {"none"}]
    /\ maker \in [Names -> Processes \cup {Nobody}]
    /\ seen \in [Processes -> SUBSET Tag]
    /\ tenant \in [Processes -> 0 .. Cardinality(Processes)]
    /\ open \in OpenModes
    /\ fixed \in BOOLEAN
    /\ raced \in BOOLEAN
    /\ faults \in 0 .. MaxFaults
    /\ crashes \in 0 .. MaxCrashes

\* A database an earlier release has left behind: it knows the first n
\* migrations, and the next one may have failed on the foreign keys it did
\* not yet switch off.
InitStart ==
    /\ \E n \in 0 .. Tags :
          /\ built = 1 .. n
          /\ applied = 1 .. n
          /\ failure \in {"none"} \cup
                         (IF n + 1 \in Rebuilding THEN {"foreign key"} ELSE {})
    /\ tenants = 0
    /\ tokens = {}
    /\ issued = 0
    /\ role = [n \in Names |-> "none"]
    /\ maker = [n \in Names |-> Nobody]
    /\ pc = [p \in Processes |-> "down"]
    /\ seen = [p \in Processes |-> {}]
    /\ tenant = [p \in Processes |-> 0]
    /\ open \in OpenModes
    /\ fixed \in EnvTokens
    /\ raced = FALSE
    /\ faults = 0
    /\ crashes = 0

-----------------------------------------------------------------------------

Goto(p, place) == pc' = [pc EXCEPT ![p] = place]

Starting(p) == pc[p] \in StartPlace

\* Mutant: the journal is read from its end.
NextTagBackwards(p) == CHOOSE t \in Tag \ seen[p] : \A u \in Tag \ seen[p] : u <= t

\* The first migration p does not take for applied.
NextTag(p) == CHOOSE t \in Tag \ seen[p] : \A u \in Tag \ seen[p] : t <= u

\* hasAdminUser counts the users, whatever their role.
HasAdminUser == \E n \in Names : role[n] # "none"

\* What a process forgets when it ends.
Forget(p) ==
    /\ seen' = [seen EXCEPT ![p] = {}]
    /\ tenant' = [tenant EXCEPT ![p] = 0]

Exit(p) == Goto(p, "down") /\ Forget(p)

Start(p) ==
    /\ pc[p] = "down"
    /\ Goto(p, "list")
    /\ raced' = (raced \/ \E q \in Processes : Starting(q))
    /\ UNCHANGED <<env, schemaVars, tenants, tokens, issued, userVars, seen,
                   tenant, faults, crashes>>

\* migrateSqliteToLatest lists the applied migrations once ...
ListTags(p) ==
    /\ pc[p] = "list"
    /\ seen' = [seen EXCEPT ![p] = applied]
    /\ Goto(p, "judge")
    /\ UNCHANGED <<env, schemaVars, tenants, tokens, issued, userVars, tenant,
                   counters>>

Never(p) == FALSE

\* ... and gives up on an earlier failure, unless it is about foreign keys and
\* the next migration switches them off by now.
Forgivable(p) ==
    /\ failure = "foreign key"
    /\ seen[p] # Tag
    /\ NextTag(p) \in Rebuilding

JudgeFailure(p) ==
    /\ pc[p] = "judge"
    /\ \/ /\ failure = "none"
          /\ Goto(p, "apply") /\ UNCHANGED ownVars
       \/ /\ failure # "none" /\ Forgivable(p)
          /\ Goto(p, "forgive") /\ UNCHANGED ownVars
       \/ /\ failure # "none" /\ ~Forgivable(p)
          /\ Exit(p)
    /\ UNCHANGED <<env, schemaVars, tenants, tokens, issued, userVars, counters>>

ForgiveFailure(p) ==
    /\ pc[p] = "forgive"
    /\ failure' = "none"
    /\ Goto(p, "apply")
    /\ UNCHANGED <<env, built, applied, tenants, tokens, issued, userVars,
                   ownVars, counters>>

\* Mutant: the row that says the migration is applied is not written.
MarkNothing(t) == applied' = applied

\* The INSERT at the end of the transaction.
MarkApplied(t) == applied' = applied \cup {t}

\* applyMigration, a transaction: it fails as a whole where another process
\* has been faster, or for a reason of its own.
Apply(p) ==
    /\ pc[p] = "apply"
    /\ seen[p] # Tag
    /\ LET t == NextTag(p)
       IN  \/ /\ t \notin built
              /\ built' = built \cup {t}
              /\ MarkApplied(t)
              /\ seen' = [seen EXCEPT ![p] = @ \cup {t}]
              /\ UNCHANGED <<pc, faults>>
           \/ /\ t \in built
              /\ Goto(p, "record")
              /\ UNCHANGED <<built, applied, seen, faults>>
           \/ /\ t \notin built /\ faults < MaxFaults
              /\ faults' = faults + 1
              /\ Goto(p, "record")
              /\ UNCHANGED <<built, applied, seen>>
    /\ UNCHANGED <<env, failure, tenants, tokens, issued, userVars, tenant, raced,
                   crashes>>

\* The failure is written down, outside the transaction, and the process ends.
RecordFailure(p) ==
    /\ pc[p] = "record"
    /\ failure' = "other"
    /\ Exit(p)
    /\ UNCHANGED <<env, built, applied, tenants, tokens, issued, userVars,
                   counters>>

Migrated(p) ==
    /\ pc[p] = "apply"
    /\ seen[p] = Tag
    /\ Goto(p, "check")
    /\ UNCHANGED <<env, schemaVars, tenants, tokens, issued, userVars, ownVars,
                   counters>>

\* buildReadinessState: what every worker asks before it works.
Ready == failure = "none" /\ applied = Tag

CheckReadiness(p) ==
    /\ pc[p] = "check"
    /\ IF Ready THEN Goto(p, "lookTenant") /\ UNCHANGED ownVars ELSE Exit(p)
    /\ UNCHANGED <<env, schemaVars, tenants, tokens, issued, userVars, counters>>

\* ensureSelfHostedTenant: the first row there is ...
LookForTenant(p) ==
    /\ pc[p] = "lookTenant"
    /\ \/ /\ tenants > 0
          /\ tenant' = [tenant EXCEPT ![p] = 1]
          /\ Goto(p, "lookAdmin")
       \/ /\ tenants = 0
          /\ UNCHANGED tenant
          /\ Goto(p, "insertTenant")
    /\ UNCHANGED <<env, schemaVars, tenants, tokens, issued, userVars, seen,
                   counters>>

\* ... or a new one, and nothing in the schema refuses a second.
InsertTenant(p) ==
    /\ pc[p] = "insertTenant"
    /\ tenants' = tenants + 1
    /\ tenant' = [tenant EXCEPT ![p] = tenants + 1]
    /\ Goto(p, "lookAdmin")
    /\ UNCHANGED <<env, schemaVars, tokens, issued, userVars, seen, counters>>

\* A setup token is issued only when there is no user and the UI asks for one.
LookForAdmin(p) ==
    /\ pc[p] = "lookAdmin"
    /\ Goto(p, IF HasAdminUser \/ open THEN "serving" ELSE "deleteTokens")
    /\ UNCHANGED <<env, schemaVars, tenants, tokens, issued, userVars, ownVars,
                   counters>>

StaleTokens == {t \in tokens : ~t.used}

\* issueSetupToken and registerSetupTokenFromEnv look once more for a user and
\* drop what was not used; so a token printed by an earlier start is void.
DeleteTokens(p) ==
    /\ pc[p] = "deleteTokens"
    /\ IF HasAdminUser
       THEN Goto(p, "serving") /\ UNCHANGED tokens
       ELSE Goto(p, "insertToken") /\ tokens' = tokens \ StaleTokens
    /\ UNCHANGED <<env, schemaVars, tenants, issued, userVars, ownVars, counters>>

NewToken(i) == [id |-> i, left |-> SetupTtl, used |-> FALSE]

\* The hash of the operator's token is the primary key: a second row fails,
\* and the start with it.
InsertToken(p) ==
    /\ pc[p] = "insertToken"
    /\ \/ /\ fixed
          /\ \A t \in tokens : t.id # 0
          /\ tokens' = tokens \cup {NewToken(0)}
          /\ Goto(p, "serving")
          /\ UNCHANGED <<issued, ownVars>>
       \/ /\ fixed
          /\ \E t \in tokens : t.id = 0
          /\ Exit(p)
          /\ UNCHANGED <<tokens, issued>>
       \/ /\ ~fixed
          /\ issued < MaxTokens
          /\ issued' = issued + 1
          /\ tokens' = tokens \cup {NewToken(issued + 1)}
          /\ Goto(p, "serving")
          /\ UNCHANGED ownVars
    /\ UNCHANGED <<env, schemaVars, tenants, userVars, counters>>

\* A process is killed at any place.
Kill(p) ==
    /\ pc[p] # "down"
    /\ crashes < MaxCrashes
    /\ crashes' = crashes + 1
    /\ Exit(p)
    /\ UNCHANGED <<env, schemaVars, tenants, tokens, issued, userVars, raced,
                   faults>>

StartStep(p) ==
    \/ Start(p)
    \/ ListTags(p) \/ JudgeFailure(p) \/ ForgiveFailure(p)
    \/ Apply(p) \/ RecordFailure(p) \/ Migrated(p) \/ CheckReadiness(p)
    \/ LookForTenant(p) \/ InsertTenant(p)
    \/ LookForAdmin(p) \/ DeleteTokens(p) \/ InsertToken(p)

TokensAge == tokens' = {[t EXCEPT !.left = IF @ < 0 THEN @ ELSE @ - 1] : t \in tokens}

-----------------------------------------------------------------------------
(* Properties                                                              *)

\* A process that serves never works on half a schema, and the migrations it
\* relies on were applied in the order of the journal, whatever other
\* processes started, failed or died meanwhile.
SchemaIsWhole ==
    /\ \A t \in applied : 1 .. t \subseteq applied
    /\ \A p \in Processes : pc[p] # "down" /\ ~Starting(p) => applied = Tag

\* While nobody is registered, a process that has finished its start and asks
\* for a setup token finds one in the database, unless a start was killed
\* before it wrote its own: a token replaces another, it is never just lost.
TokenIsNeverJustLost ==
    (\E p \in Processes : pc[p] = "serving" /\ ~open) /\ ~HasAdminUser
        /\ crashes = 0 /\ (\A p \in Processes : pc[p] # "insertToken")
        => StaleTokens # {}

\* A schema is left in a state that needs an operator, a tenant is created
\* twice, or two setup tokens are good at a time, only when two starts have
\* overlapped or a migration failed of itself: never because of a kill.  And a
\* setup token is not lost even where they overlap.
CleanUnlessOverlapped ==
    /\ ~raced =>
         /\ failure = "other" => faults > 0
         /\ tenants <= 1
         /\ Cardinality(StaleTokens) <= 1
    /\ TokenIsNeverJustLost
=============================================================================
