------------------------------ MODULE ServerProofs ------------------------------
(***************************************************************************)
(* Proofs about the server around its jobs: who gets into it (Startup and  *)
(* Access), what its pages do to the tables (Fleet, Board, Catalog and     *)
(* Wizard), and how it stops (Shutdown).                                   *)
(*                                                                         *)
(* They hold for every set of processes, names, browsers, clients,         *)
(* workflows, connectors, works and requests, whatever the bounds.         *)
(***************************************************************************)
EXTENDS Access, Catalog, Wizard, Shutdown, FiniteSetTheorems, WellFoundedInduction, TLAPS

(***************************************************************************)
(* I.  Setting up and logging in                                           *)
(***************************************************************************)


Place == {"down", "serving"} \cup StartPlace \cup WebPlace
SettingUp == {"checkToken", "createAdmin", "auditSetup"}

\* Those that are about to create the tenant.
Founding == {p \in Processes : pc[p] = "insertTenant"}

\* What a handler knows of its request.
Asked(p) ==
    /\ pc[p] \in SettingUp => request[p].name \in Names
    /\ pc[p] \in {"count", "rotate"} =>
          /\ request[p].name \in Names /\ request[p].browser \in Browsers
          /\ request[p].fresh \in BOOLEAN

\* What the web side keeps has its types.
WebTypeOK ==
    /\ follows \in {"setup", "logins"}
    /\ sessions \subseteq Session
    /\ attempts \in [count : Nat, age : 0 .. Window + 1]
    /\ logins \in 0 .. MaxLogins
    /\ cookie \in [Browsers -> 0 .. MaxLogins]
    /\ form \in [Browsers -> 0 .. OpenForm]
    /\ posts \subseteq Posted

HistoryOK ==
    /\ request = [p \in Processes |-> request[p]]
    /\ unaudited \subseteq Names
    /\ tried \in Nat
    /\ latest \in [Names -> 0 .. MaxLogins]
    /\ age \in [Names -> 0 .. SessionTtl + 1]

\* The tables stay within their sizes because of those who are still to write.
Roomy ==
    /\ logins + Cardinality(LoggingIn) <= MaxLogins
    /\ tenants + Cardinality(Founding) <= Cardinality(Processes)

TypeInv ==
    /\ StartTypeOK /\ pc \in [Processes -> Place] /\ WebTypeOK
    /\ HistoryOK /\ Roomy
    /\ \A p \in Processes : Asked(p)

\* It is the type invariant, and more.
LEMMA Types == TypeInv => TypeOK
BY DEF TypeInv, TypeOK, WebTypeOK, Place

-----------------------------------------------------------------------------
(* Numbers and sets of processes                                           *)

\* The numbers among the constants.
LEMMA Numbers ==
    /\ Tags \in Nat /\ SetupTtl \in Nat /\ SessionTtl \in Nat /\ Window \in Nat
    /\ MaxTokens \in Nat /\ MaxFaults \in Nat /\ MaxCrashes \in Nat /\ MaxLogins \in Nat
    /\ MaxAttempts \in Nat /\ MaxAttempts >= 1 /\ MaxPosts \in Nat
    /\ Cardinality(Processes) \in Nat /\ Cardinality(Processes) >= 1
<1>1. IsFiniteSet(Processes) /\ Processes # {}
  BY StartupAssumption
<1>2. Cardinality(Processes) \in Nat /\ Cardinality(Processes) # 0
  BY <1>1, FS_CardinalityType, FS_EmptySet
<1> QED BY <1>2, StartupAssumption, AccessAssumption

\* A set of processes is finite and no larger than that of all.
LEMMA Some ==
    ASSUME NEW S, S \subseteq Processes
    PROVE  /\ IsFiniteSet(S) /\ Cardinality(S) \in Nat
           /\ Cardinality(S) <= Cardinality(Processes)
BY StartupAssumption, FS_Subset, FS_CardinalityType

\* One more process counts for one.
LEMMA OneMore ==
    ASSUME NEW S, S \subseteq Processes, NEW p \in Processes \ S, NEW T, T = S \cup {p}
    PROVE  Cardinality(T) = Cardinality(S) + 1
BY Some, FS_AddElement

\* One less, too.
LEMMA OneLess ==
    ASSUME NEW S, S \subseteq Processes, NEW p \in S, NEW T, T = S \ {p}
    PROVE  Cardinality(T) = Cardinality(S) - 1
BY Some, FS_RemoveElement

\* And a part leaves the rest.
LEMMA Outside ==
    ASSUME NEW S, S \subseteq Processes
    PROVE  Cardinality(Processes \ S) = Cardinality(Processes) - Cardinality(S)
<1>1. IsFiniteSet(Processes) /\ S \cap Processes = S
  BY StartupAssumption
<1> QED BY <1>1, FS_Difference

\* A part counts for no more than the whole.
LEMMA NoMore ==
    ASSUME NEW S, S \subseteq Processes, NEW T, T \subseteq S
    PROVE  Cardinality(T) <= Cardinality(S)
BY Some, FS_Subset

-----------------------------------------------------------------------------
(* Prefixes of the journal                                                 *)

\* The first migrations of the journal, up to some number.
Prefix(S) == \E n \in 0 .. Tags : S = 1 .. n

\* Those that rely on the schema.
Past == {"lookTenant", "insertTenant", "lookAdmin", "deleteTokens", "insertToken",
         "serving"} \cup WebPlace

\* What the schema shows is what the table lists, in the order of the journal,
\* and a process takes none for applied that is not.
SchemaInv ==
    /\ Prefix(applied) /\ built = applied
    /\ \A p \in Processes : Prefix(seen[p]) /\ seen[p] \subseteq applied
    /\ \A p \in Processes : pc[p] \in Past => applied = Tag

\* After the first n migrations comes the next one, unless these are all.
LEMMA TagAfter ==
    ASSUME NEW p \in Processes, NEW n \in 0 .. Tags, seen[p] = 1 .. n, seen[p] # Tag
    PROVE  n < Tags /\ NextTag(p) = n + 1
<1>0. Tags \in Nat
  BY Numbers
<1>1. n < Tags
  BY <1>0 DEF Tag
<1>2. /\ n + 1 \in Tag \ seen[p]
      /\ \A u \in Tag \ seen[p] : n + 1 <= u
  BY <1>0, <1>1 DEF Tag
<1>3. \A t \in Tag \ seen[p] : (\A u \in Tag \ seen[p] : t <= u) => t = n + 1
  <2> SUFFICES ASSUME NEW t \in Tag \ seen[p], \A u \in Tag \ seen[p] : t <= u
               PROVE  t = n + 1
    OBVIOUS
  <2>1. t <= n + 1 /\ n + 1 <= t /\ t \in Int
    BY <1>0, <1>2 DEF Tag
  <2> QED BY <2>1
<1>4. NextTag(p) = n + 1
  BY <1>2, <1>3 DEF NextTag
<1> QED BY <1>1, <1>4

\* With the next one, a prefix is a prefix again.
LEMMA OneTagMore ==
    ASSUME NEW n \in 0 .. Tags, n < Tags
    PROVE  1 .. n \cup {n + 1} = 1 .. (n + 1) /\ n + 1 \in 0 .. Tags /\ n + 1 \in Tag
BY Numbers DEF Tag

\* One prefix within another is the shorter one.
LEMMA Shorter ==
    ASSUME NEW m \in 0 .. Tags, NEW n \in 0 .. Tags, 1 .. m \subseteq 1 .. n
    PROVE  m <= n
<1>1. CASE m = 0
  BY <1>1, Numbers
<1>2. CASE m # 0
  <2>1. m \in 1 .. m
    BY <1>2, Numbers
  <2> QED BY <2>1, Numbers
<1> QED BY <1>1, <1>2

-----------------------------------------------------------------------------
(* Types                                                                   *)

\* An installation that starts, and one that serves, have their types.
LEMMA InitTyped == Init => TypeInv
<1> SUFFICES ASSUME Init PROVE TypeInv
  OBVIOUS
<1>2. LoggingIn = {} /\ Founding = {}
  BY DEF Init, InitStart, InitServing, LoggingIn, Founding
<1>3. Cardinality({}) = 0
  BY FS_EmptySet
<1>4. \A p \in Processes : pc[p] \in {"down", "serving"}
  BY DEF Init, InitStart, InitServing
<1>5. \A p \in Processes : Asked(p)
  BY <1>4 DEF Asked, SettingUp
<1>6. HistoryOK
  BY Numbers DEF Init, HistoryOK
<1>7. Roomy
  <2>1. tenants = 0 \/ tenants = 1
    BY Zenon DEF Init, InitStart, InitServing
  <2>2. logins = 0
    BY DEF Init
  <2> QED BY Numbers, <1>2, <1>3, <2>1, <2>2 DEF Roomy
<1>8. StartTypeOK /\ pc \in [Processes -> Place]
  <2>1. CASE InitStart
    <3>1. PICK n \in 0 .. Tags : /\ built = 1 .. n /\ applied = 1 .. n
                                 /\ failure \in {"none"} \cup {"foreign key"}
      <4>1. PICK n \in 0 .. Tags :
               /\ built = 1 .. n /\ applied = 1 .. n
               /\ failure \in {"none"} \cup
                     (IF n + 1 \in Rebuilding THEN {"foreign key"} ELSE {})
        BY <2>1, Zenon DEF InitStart
      <4>2. failure \in {"none"} \cup {"foreign key"}
        BY <4>1
      <4> QED BY <4>1, <4>2, Zenon
    <3>2. built \subseteq Tag /\ applied \subseteq Tag
      <4>1. 1 .. n \subseteq 1 .. Tags
        BY Numbers
      <4> QED BY <4>1, <3>1, Zenon DEF Tag
    <3>3. role \in [Names -> Role \cup {"none"}] /\ maker \in [Names -> Processes \cup {Nobody}]
      BY <2>1 DEF InitStart
    <3>4. /\ tenants = 0 /\ issued = 0 /\ tokens = {} /\ faults = 0 /\ crashes = 0 /\ raced = FALSE
          /\ open \in OpenModes /\ fixed \in EnvTokens
          /\ seen = [p \in Processes |-> {}] /\ tenant = [p \in Processes |-> 0]
          /\ pc = [p \in Processes |-> "down"]
      BY <2>1, Zenon DEF InitStart
    <3>5. /\ tenants \in 0 .. Cardinality(Processes) /\ issued \in 0 .. MaxTokens
          /\ faults \in 0 .. MaxFaults /\ crashes \in 0 .. MaxCrashes
          /\ tenant \in [Processes -> 0 .. Cardinality(Processes)]
      BY <3>4, Numbers
    <3>6. tokens \subseteq Token /\ seen \in [Processes -> SUBSET Tag]
      BY <3>4
    <3>7. fixed \in BOOLEAN /\ raced \in BOOLEAN
      BY <3>4, StartupAssumption, Zenon
    <3>8. failure \in {"none", "foreign key", "other"} /\ pc \in [Processes -> Place]
      BY <3>1, <3>4 DEF Place
    <3> QED BY <3>2, <3>3, <3>4, <3>5, <3>6, <3>7, <3>8, Zenon DEF StartTypeOK
  <2>2. CASE InitServing
    <3>1. role \in [Names -> Role \cup {"none"}] /\ maker \in [Names -> Processes \cup {Nobody}]
      BY <2>2 DEF InitServing, Role
    <3>2. /\ tenants = 1 /\ issued = 0 /\ tokens = {} /\ faults = 0
          /\ crashes = 0 /\ raced = FALSE
          /\ open \in OpenModes /\ fixed = FALSE /\ built = Tag /\ applied = Tag
          /\ failure = "none"
          /\ seen = [p \in Processes |-> Tag] /\ tenant = [p \in Processes |-> 1]
          /\ pc = [p \in Processes |-> "serving"]
      BY <2>2, Zenon DEF InitServing
    <3>5. /\ tenants \in 0 .. Cardinality(Processes) /\ issued \in 0 .. MaxTokens
          /\ faults \in 0 .. MaxFaults /\ crashes \in 0 .. MaxCrashes
          /\ tenant \in [Processes -> 0 .. Cardinality(Processes)]
      BY <3>2, Numbers
    <3>6. /\ tokens \subseteq Token /\ seen \in [Processes -> SUBSET Tag]
          /\ built \subseteq Tag /\ applied \subseteq Tag
      BY <3>2
    <3>7. fixed \in BOOLEAN /\ raced \in BOOLEAN
      BY <3>2, Zenon
    <3>8. failure \in {"none", "foreign key", "other"} /\ pc \in [Processes -> Place]
      BY <3>2 DEF Place
    <3> QED BY <3>1, <3>2, <3>5, <3>6, <3>7, <3>8, Zenon DEF StartTypeOK
  <2> QED BY <2>1, <2>2 DEF Init
<1>9. WebTypeOK
  <2>1. /\ follows \in {"setup", "logins"} /\ sessions = {}
        /\ attempts = [count |-> 0, age |-> 0] /\ logins = 0
        /\ cookie = [b \in Browsers |-> 0] /\ form = [b \in Browsers |-> 0]
        /\ posts = {}
    BY Zenon DEF Init
  <2> QED BY <2>1, Numbers DEF WebTypeOK, OpenForm
<1> QED BY <1>5, <1>6, <1>7, <1>8, <1>9 DEF TypeInv

\* The counters.
LEMMA Counters ==
    ASSUME TypeInv
    PROVE  /\ tenants \in 0 .. Cardinality(Processes) /\ issued \in 0 .. MaxTokens
           /\ faults \in 0 .. MaxFaults /\ crashes \in 0 .. MaxCrashes
           /\ logins \in 0 .. MaxLogins
           /\ tenants \in Nat /\ issued \in Nat /\ faults \in Nat /\ crashes \in Nat
           /\ logins \in Nat
<1>1. /\ tenants \in 0 .. Cardinality(Processes) /\ issued \in 0 .. MaxTokens
      /\ faults \in 0 .. MaxFaults /\ crashes \in 0 .. MaxCrashes
      /\ logins \in 0 .. MaxLogins
  BY Zenon DEF TypeInv, WebTypeOK, StartTypeOK
<1> QED BY <1>1, Numbers

\* A process that is at a place has gone there.
LEMMA Moved ==
    ASSUME NEW p \in Processes, NEW place, pc \in [Processes -> Place], Goto(p, place)
    PROVE  /\ pc'[p] = place /\ \A q \in Processes \ {p} : pc'[q] = pc[q]
           /\ place \notin {"count", "rotate"} => LoggingIn' = LoggingIn \ {p}
           /\ place \in {"count", "rotate"} => LoggingIn' = LoggingIn \cup {p}
           /\ place # "insertTenant" => Founding' = Founding \ {p}
           /\ place \in Place => pc' \in [Processes -> Place]
BY DEF Goto, LoggingIn, Founding

\* A process that has done with its request leaves room.
LEMMA RoomLeft ==
    ASSUME TypeInv, NEW p \in Processes, NEW place, Goto(p, place),
           place \notin {"count", "rotate", "insertTenant"},
           logins' = logins, tenants' = tenants
    PROVE  Roomy'
<1>1. pc \in [Processes -> Place]
  BY DEF TypeInv
<1>2. LoggingIn' = LoggingIn \ {p} /\ Founding' = Founding \ {p}
  BY <1>1, Moved
<1>3. LoggingIn \subseteq Processes /\ Founding \subseteq Processes
  BY DEF LoggingIn, Founding
<1>4. /\ Cardinality(LoggingIn') <= Cardinality(LoggingIn)
      /\ Cardinality(Founding') <= Cardinality(Founding)
  BY <1>2, <1>3, NoMore
<1>5. /\ Cardinality(LoggingIn) \in Nat /\ Cardinality(Founding) \in Nat
      /\ Cardinality(LoggingIn') \in Nat /\ Cardinality(Founding') \in Nat
  BY <1>2, <1>3, Some
<1>6. logins \in Nat /\ tenants \in Nat
  BY Counters
<1> QED BY <1>4, <1>5, <1>6, Numbers DEF TypeInv, Roomy

\* What the others know of their requests is left to them.
LEMMA AskedStays ==
    ASSUME TypeInv, NEW p \in Processes, NEW place, Goto(p, place),
           \A q \in Processes \ {p} : request'[q] = request[q],
           place \in SettingUp \cup {"count", "rotate"} => Asked(p)'
    PROVE  \A q \in Processes : Asked(q)'
<1>1. pc \in [Processes -> Place]
  BY DEF TypeInv
<1>2. pc'[p] = place /\ \A q \in Processes \ {p} : pc'[q] = pc[q]
  BY <1>1, Moved
<1>3. ASSUME NEW q \in Processes \ {p} PROVE Asked(q)'
  BY <1>2, <1>3 DEF Asked, TypeInv
<1>4. Asked(p)'
  BY <1>2 DEF Asked
<1> QED BY <1>3, <1>4

\* Where the start of a process can bring it.
StartedPlace == {"down", "serving"} \cup StartPlace

\* A process that ends forgets what it knew.
LEMMA NothingKnown ==
    ASSUME NEW p \in Processes, Forget(p), StartTypeOK
    PROVE  /\ seen' \in [Processes -> SUBSET Tag]
           /\ tenant' \in [Processes -> 0 .. Cardinality(Processes)]
           /\ seen'[p] = {} /\ \A q \in Processes \ {p} : seen'[q] = seen[q]
<1>1. 0 \in 0 .. Cardinality(Processes)
  BY Numbers
<1> QED BY <1>1 DEF Forget, StartTypeOK

\* The start of a process keeps the types of what it changes, and takes the
\* process to a place of the start.
LEMMA StartTyped ==
    ASSUME TypeInv, SchemaInv, NEW p \in Processes, StartStep(p)
    PROVE  /\ StartTypeOK'
           /\ \E place \in StartedPlace : Goto(p, place)
<1> USE DEF env, schemaVars, userVars, ownVars, counters
<1>0. /\ StartTypeOK /\ pc \in [Processes -> Place]
  BY DEF TypeInv
<1>1. CASE Start(p)
  <2>1. StartTypeOK'
    BY <1>0, <1>1 DEF Start, StartTypeOK
  <2> QED BY <2>1, <1>1 DEF Start, StartedPlace, StartPlace
<1>2. CASE ListTags(p)
  <2>1. StartTypeOK'
    BY <1>0, <1>2 DEF ListTags, StartTypeOK
  <2> QED BY <2>1, <1>2 DEF ListTags, StartedPlace, StartPlace
<1>3. CASE JudgeFailure(p)
  <2>1. \E place \in StartedPlace : Goto(p, place)
    BY <1>3 DEF JudgeFailure, Exit, StartedPlace, StartPlace
  <2>2. /\ seen' \in [Processes -> SUBSET Tag]
        /\ tenant' \in [Processes -> 0 .. Cardinality(Processes)]
    BY <1>0, <1>3, NothingKnown DEF JudgeFailure, Exit, StartTypeOK
  <2>3. StartTypeOK'
    BY <1>0, <1>3, <2>2 DEF JudgeFailure, StartTypeOK
  <2> QED BY <2>1, <2>3
<1>4. CASE ForgiveFailure(p)
  <2>1. StartTypeOK'
    BY <1>0, <1>4 DEF ForgiveFailure, StartTypeOK
  <2> QED BY <2>1, <1>4 DEF ForgiveFailure, StartedPlace, StartPlace
<1>5. CASE Apply(p)
  <2>1. UNCHANGED pc \/ Goto(p, "record")
    BY <1>5 DEF Apply
  <2>2. UNCHANGED pc => Goto(p, "apply")
    BY <1>0, <1>5 DEF Apply, Goto
  <2>3. \E place \in StartedPlace : Goto(p, place)
    BY <2>1, <2>2 DEF StartedPlace, StartPlace
  <2>4. NextTag(p) \in Tag
    <3>1. PICK n \in 0 .. Tags : seen[p] = 1 .. n
      BY DEF SchemaInv, Prefix
    <3>2. n < Tags /\ NextTag(p) = n + 1
      BY <1>5, <3>1, TagAfter DEF Apply
    <3> QED BY <3>2, OneTagMore
  <2>5. faults' \in 0 .. MaxFaults
    <3>1. faults' = faults \/ (faults' = faults + 1 /\ faults < MaxFaults)
      BY <1>5 DEF Apply
    <3> QED BY <3>1, Counters, Numbers
  <2>6. /\ built' \subseteq Tag /\ applied' \subseteq Tag
        /\ seen' \in [Processes -> SUBSET Tag]
    BY <1>0, <1>5, <2>4 DEF Apply, MarkApplied, StartTypeOK
  <2>7. StartTypeOK'
    BY <1>0, <1>5, <2>5, <2>6 DEF Apply, StartTypeOK
  <2> QED BY <2>3, <2>7
<1>6. CASE RecordFailure(p)
  <2>1. \E place \in StartedPlace : Goto(p, place)
    BY <1>6 DEF RecordFailure, Exit, StartedPlace
  <2>2. /\ seen' \in [Processes -> SUBSET Tag]
        /\ tenant' \in [Processes -> 0 .. Cardinality(Processes)]
    BY <1>0, <1>6, NothingKnown DEF RecordFailure, Exit
  <2>3. StartTypeOK'
    BY <1>0, <1>6, <2>2 DEF RecordFailure, StartTypeOK
  <2> QED BY <2>1, <2>3
<1>7. CASE Migrated(p)
  <2>1. StartTypeOK'
    BY <1>0, <1>7 DEF Migrated, StartTypeOK
  <2> QED BY <2>1, <1>7 DEF Migrated, StartedPlace, StartPlace
<1>8. CASE CheckReadiness(p)
  <2>1. \E place \in StartedPlace : Goto(p, place)
    BY <1>8 DEF CheckReadiness, Exit, StartedPlace, StartPlace
  <2>2. /\ seen' \in [Processes -> SUBSET Tag]
        /\ tenant' \in [Processes -> 0 .. Cardinality(Processes)]
    BY <1>0, <1>8, NothingKnown DEF CheckReadiness, Exit, StartTypeOK
  <2>3. StartTypeOK'
    BY <1>0, <1>8, <2>2 DEF CheckReadiness, StartTypeOK
  <2> QED BY <2>1, <2>3
<1>9. CASE LookForTenant(p)
  <2>1. \E place \in StartedPlace : Goto(p, place)
    BY <1>9 DEF LookForTenant, StartedPlace, StartPlace
  <2>2. tenant' \in [Processes -> 0 .. Cardinality(Processes)]
    <3>1. tenant' = tenant \/ tenant' = [tenant EXCEPT ![p] = 1]
      BY <1>9 DEF LookForTenant
    <3>2. 1 \in 0 .. Cardinality(Processes)
      BY Numbers
    <3>3. tenant \in [Processes -> 0 .. Cardinality(Processes)]
      BY <1>0 DEF StartTypeOK
    <3> QED BY <3>1, <3>2, <3>3
  <2>3. StartTypeOK'
    BY <1>0, <1>9, <2>2 DEF LookForTenant, StartTypeOK
  <2> QED BY <2>1, <2>3
<1>10. CASE InsertTenant(p)
  <2>1. \E place \in StartedPlace : Goto(p, place)
    BY <1>10 DEF InsertTenant, StartedPlace, StartPlace
  <2>2. tenants + 1 \in 0 .. Cardinality(Processes)
    <3>1. p \in Founding /\ Founding \subseteq Processes
      BY <1>10 DEF InsertTenant, Founding
    <3>2. Cardinality(Founding) >= 1
      <4>1. Cardinality({p}) = 1
        BY FS_Singleton
      <4>2. Cardinality({p}) <= Cardinality(Founding)
        BY <3>1, NoMore
      <4> QED BY <4>1, <4>2
    <3>3. Cardinality(Founding) \in Nat
      BY <3>1, Some
    <3>4. tenants \in Nat
      BY Counters
    <3> QED BY <3>2, <3>3, <3>4, Numbers DEF TypeInv, Roomy
  <2>3. tenant' \in [Processes -> 0 .. Cardinality(Processes)]
    BY <1>0, <1>10, <2>2 DEF InsertTenant, StartTypeOK
  <2>4. StartTypeOK'
    BY <1>0, <1>10, <2>2, <2>3 DEF InsertTenant, StartTypeOK
  <2> QED BY <2>1, <2>4
<1>11. CASE LookForAdmin(p)
  <2>1. StartTypeOK'
    BY <1>0, <1>11 DEF LookForAdmin, StartTypeOK
  <2>2. \E place \in StartedPlace : Goto(p, place)
    BY <1>11 DEF LookForAdmin, StartedPlace, StartPlace
  <2> QED BY <2>1, <2>2
<1>12. CASE DeleteTokens(p)
  <2>1. StartTypeOK'
    BY <1>0, <1>12 DEF DeleteTokens, StartTypeOK
  <2>2. \E place \in StartedPlace : Goto(p, place)
    BY <1>12 DEF DeleteTokens, StartedPlace, StartPlace
  <2> QED BY <2>1, <2>2
<1>13. CASE InsertToken(p)
  <2>1. \E place \in StartedPlace : Goto(p, place)
    BY <1>13 DEF InsertToken, Exit, StartedPlace
  <2>2. /\ seen' \in [Processes -> SUBSET Tag]
        /\ tenant' \in [Processes -> 0 .. Cardinality(Processes)]
    BY <1>0, <1>13, NothingKnown DEF InsertToken, Exit, StartTypeOK
  <2>3. issued' \in 0 .. MaxTokens /\ issued + 1 \in Int
    <3>1. issued' = issued \/ (issued' = issued + 1 /\ issued < MaxTokens)
      BY <1>13 DEF InsertToken
    <3> QED BY <3>1, Counters, Numbers
  <2>4. \A i \in 0 .. MaxTokens : NewToken(i) \in Token
    BY Numbers DEF NewToken, Token
  <2>5. /\ 0 \in 0 .. MaxTokens
        /\ tokens' \subseteq tokens \cup {NewToken(i) : i \in 0 .. MaxTokens}
    <3>1. ~fixed /\ issued' = issued + 1 => issued + 1 \in 0 .. MaxTokens
      BY <2>3
    <3>2. 0 \in 0 .. MaxTokens
      BY Numbers
    <3>3. \/ tokens' = tokens \cup {NewToken(0)}
          \/ tokens' = tokens
          \/ issued' = issued + 1 /\ ~fixed /\ tokens' = tokens \cup {NewToken(issued + 1)}
      BY <1>13 DEF InsertToken
    <3> QED BY <3>1, <3>2, <3>3
  <2>6. tokens' \subseteq Token
    BY <1>0, <2>4, <2>5 DEF StartTypeOK
  <2>7. StartTypeOK'
    BY <1>0, <1>13, <2>2, <2>3, <2>6 DEF InsertToken, StartTypeOK
  <2> QED BY <2>1, <2>7
<1> QED BY <1>1, <1>2, <1>3, <1>4, <1>5, <1>6, <1>7, <1>8, <1>9, <1>10, <1>11, <1>12,
           <1>13 DEF StartStep

\* Whoever looks for the tenant finds room to create one.
LEMMA StartRoom ==
    ASSUME TypeInv, NEW p \in Processes, StartStep(p), logins' = logins
    PROVE  Roomy'
<1> USE DEF env, schemaVars, userVars, ownVars, counters
<1>0. pc \in [Processes -> Place]
  BY DEF TypeInv
<1>1. ASSUME tenants' = tenants, NEW place \in StartedPlace \ {"insertTenant"},
             Goto(p, place)
      PROVE  Roomy'
  BY <1>1, RoomLeft DEF StartedPlace, StartPlace
<1>2. CASE LookForTenant(p) /\ tenants = 0
  <2>1. Goto(p, "insertTenant") /\ tenants' = 0
    BY <1>2, Counters DEF LookForTenant
  <2>2. LoggingIn' = LoggingIn \ {p} /\ Founding' \subseteq Processes
    BY <1>0, <2>1, Moved DEF Founding
  <2>3. /\ LoggingIn \subseteq Processes
        /\ Cardinality(LoggingIn') <= Cardinality(LoggingIn)
    BY <2>2, NoMore DEF LoggingIn
  <2>4. /\ Cardinality(Founding') \in Nat /\ Cardinality(Founding') <= Cardinality(Processes)
        /\ Cardinality(LoggingIn) \in Nat /\ Cardinality(LoggingIn') \in Nat
    BY <2>2, <2>3, Some
  <2>5. logins + Cardinality(LoggingIn) <= MaxLogins
    BY DEF TypeInv, Roomy
  <2>6. logins' + Cardinality(LoggingIn') <= MaxLogins
    BY <2>3, <2>4, <2>5, Counters, Numbers
  <2> QED BY <2>1, <2>4, <2>6, Numbers DEF Roomy
<1>3. CASE InsertTenant(p)
  <2>1. Goto(p, "lookAdmin") /\ tenants' = tenants + 1 /\ p \in Founding
    BY <1>3 DEF InsertTenant, Founding
  <2>2. LoggingIn' = LoggingIn \ {p} /\ Founding' = Founding \ {p}
    BY <1>0, <2>1, Moved
  <2>3. LoggingIn \subseteq Processes /\ Founding \subseteq Processes
    BY DEF LoggingIn, Founding
  <2>4. Cardinality(LoggingIn') <= Cardinality(LoggingIn)
    BY <2>2, <2>3, NoMore
  <2>5. Cardinality(Founding') = Cardinality(Founding) - 1
    BY <2>1, <2>2, <2>3, OneLess
  <2>6. /\ Cardinality(LoggingIn) \in Nat /\ Cardinality(LoggingIn') \in Nat
        /\ Cardinality(Founding) \in Nat
    BY <2>2, <2>3, Some
  <2>7. /\ logins + Cardinality(LoggingIn) <= MaxLogins
        /\ tenants + Cardinality(Founding) <= Cardinality(Processes)
    BY DEF TypeInv, Roomy
  <2>8. /\ logins' + Cardinality(LoggingIn') <= MaxLogins
        /\ tenants' + Cardinality(Founding') <= Cardinality(Processes)
    BY <2>1, <2>4, <2>5, <2>6, <2>7, Counters, Numbers
  <2> QED BY <2>8 DEF Roomy
<1>4. CASE /\ ~(LookForTenant(p) /\ tenants = 0)
           /\ ~InsertTenant(p)
  <2>1. tenants' = tenants
    BY <1>4 DEF StartStep, Start, ListTags, JudgeFailure, ForgiveFailure, Apply,
                RecordFailure, Migrated, CheckReadiness, LookForTenant, LookForAdmin,
                DeleteTokens, InsertToken
  <2>2. \E place \in StartedPlace \ {"insertTenant"} : Goto(p, place)
    <3>1. CASE Start(p) \/ ListTags(p) \/ JudgeFailure(p) \/ ForgiveFailure(p)
      BY <3>1 DEF Start, ListTags, JudgeFailure, ForgiveFailure, Exit, StartedPlace, StartPlace
    <3>2. CASE Apply(p)
      <4>1. UNCHANGED pc \/ Goto(p, "record")
        BY <3>2 DEF Apply
      <4>2. UNCHANGED pc => Goto(p, "apply")
        BY <1>0, <3>2 DEF Apply, Goto
      <4> QED BY <4>1, <4>2 DEF StartedPlace, StartPlace
    <3>3. CASE RecordFailure(p) \/ Migrated(p) \/ CheckReadiness(p)
      BY <3>3 DEF RecordFailure, Migrated, CheckReadiness, Exit, StartedPlace, StartPlace
    <3>4. CASE LookForTenant(p)
      BY <1>4, <3>4 DEF LookForTenant, StartedPlace, StartPlace
    <3>5. CASE LookForAdmin(p)
      BY <3>5 DEF LookForAdmin, StartedPlace, StartPlace
    <3>6. CASE DeleteTokens(p)
      BY <3>6 DEF DeleteTokens, StartedPlace, StartPlace
    <3>7. CASE InsertToken(p)
      BY <3>7 DEF InsertToken, Exit, StartedPlace
    <3> QED BY <1>4, <3>1, <3>2, <3>3, <3>4, <3>5, <3>6, <3>7 DEF StartStep
  <2> QED BY <2>1, <2>2, <1>1
<1> QED BY <1>2, <1>3, <1>4

\* The start of a process keeps the types.
LEMMA BringsTyped ==
    ASSUME TypeInv, SchemaInv, NEW p \in Processes, Brings(p)
    PROVE  TypeInv'
<1>1. StartStep(p) /\ UNCHANGED <<webVars, request, history>>
  BY DEF Brings
<1>2. PICK place \in StartedPlace : Goto(p, place)
  BY <1>1, StartTyped
<1>3. StartTypeOK' /\ pc' \in [Processes -> Place]
  BY <1>1, <1>2, StartTyped, Moved DEF TypeInv, StartedPlace, Place
<1>4. WebTypeOK' /\ HistoryOK'
  BY <1>1 DEF TypeInv, WebTypeOK, HistoryOK, webVars, history
<1>5. Roomy'
  BY <1>1, StartRoom DEF webVars
<1>6. \A q \in Processes : Asked(q)'
  <2>1. place \notin SettingUp \cup {"count", "rotate"}
    BY <1>2 DEF StartedPlace, StartPlace, SettingUp
  <2> QED BY <1>1, <1>2, <2>1, AskedStays
<1> QED BY <1>3, <1>4, <1>5, <1>6 DEF TypeInv

\* So does a process that is killed.
LEMMA KilledTyped ==
    ASSUME TypeInv, NEW p \in Processes, Killed(p)
    PROVE  TypeInv'
<1>1. /\ Kill(p)
      /\ UNCHANGED <<follows, sessions, attempts, logins, cookie, form, history>>
      /\ request' = [request EXCEPT ![p] = NoRequest]
      /\ posts' \subseteq posts
  BY DEF Killed
<1>2. Goto(p, "down") /\ Forget(p)
  BY <1>1 DEF Kill, Exit
<1>3. StartTypeOK'
  <2>1. /\ seen' \in [Processes -> SUBSET Tag]
        /\ tenant' \in [Processes -> 0 .. Cardinality(Processes)]
    BY <1>2, NothingKnown DEF TypeInv
  <2>2. crashes' \in 0 .. MaxCrashes
    BY <1>1, Counters, Numbers DEF Kill
  <2> QED BY <1>1, <2>1, <2>2 DEF TypeInv, Kill, StartTypeOK, env, schemaVars, userVars
<1>4. pc' \in [Processes -> Place]
  BY <1>2, Moved DEF TypeInv, Place
<1>5. WebTypeOK' /\ HistoryOK'
  BY <1>1 DEF TypeInv, WebTypeOK, HistoryOK, history
<1>6. Roomy'
  BY <1>1, <1>2, RoomLeft DEF Kill
<1>7. \A q \in Processes : Asked(q)'
  <2>1. \A q \in Processes \ {p} : request'[q] = request[q]
    BY <1>1 DEF TypeInv, HistoryOK
  <2> QED BY <1>2, <2>1, AskedStays DEF SettingUp
<1> QED BY <1>3, <1>4, <1>5, <1>6, <1>7 DEF TypeInv

\* The start is not concerned by what the web side does.
LEMMA StartUntouched ==
    ASSUME TypeInv,
           UNCHANGED <<env, schemaVars, tenants, tokens, issued, userVars, ownVars, counters>>
    PROVE  StartTypeOK'
BY DEF TypeInv, StartTypeOK, env, schemaVars, userVars, ownVars, counters

\* Once a request is answered the types hold as before.
LEMMA DoneTyped ==
    ASSUME TypeInv, NEW p \in Processes, Done(p), StartTypeOK', WebTypeOK',
           unaudited' \subseteq Names, tried' \in Nat, UNCHANGED <<latest, age, logins, tenants>>
    PROVE  TypeInv'
<1>1. Goto(p, "serving") /\ request' = [request EXCEPT ![p] = NoRequest]
  BY DEF Done
<1>2. pc' \in [Processes -> Place]
  BY <1>1, Moved DEF TypeInv, Place
<1>3. HistoryOK'
  BY <1>1 DEF TypeInv, HistoryOK
<1>4. Roomy'
  BY <1>1, RoomLeft
<1>5. \A q \in Processes : Asked(q)'
  <2>1. \A q \in Processes \ {p} : request'[q] = request[q]
    BY <1>1 DEF TypeInv, HistoryOK
  <2> QED BY <1>1, <2>1, AskedStays DEF SettingUp
<1> QED BY <1>2, <1>3, <1>4, <1>5 DEF TypeInv

\* The setup page keeps the types.
LEMMA SetupTyped ==
    ASSUME TypeInv, NEW p \in Processes,
           \/ \E n \in Names, t \in 0 .. issued : AskSetup(p, n, t)
           \/ CheckToken(p) \/ CreateAdmin(p) \/ AuditSetup(p)
    PROVE  TypeInv'
<1>0. WebTypeOK' /\ UNCHANGED <<latest, age, logins, tenants>> /\ tried' \in Nat
  BY DEF TypeInv, AskSetup, CheckToken, CreateAdmin, AuditSetup, WebTypeOK, HistoryOK, webVars,
               history
<1>1. ASSUME NEW n \in Names, NEW t \in 0 .. issued, AskSetup(p, n, t)
      PROVE  TypeInv'
  <2>1. Goto(p, "checkToken") /\ UNCHANGED history
    BY <1>1 DEF AskSetup
  <2>2. StartTypeOK'
    BY <1>1, StartUntouched DEF AskSetup
  <2>3. pc' \in [Processes -> Place]
    BY <2>1, Moved DEF TypeInv, Place, WebPlace
  <2>4. /\ request'[p] = [kind |-> "setup", name |-> n, token |-> t]
        /\ \A q \in Processes \ {p} : request'[q] = request[q]
        /\ request' = [q \in Processes |-> request'[q]]
    BY <1>1 DEF TypeInv, AskSetup, HistoryOK
  <2>5. HistoryOK'
    BY <2>1, <2>4 DEF TypeInv, HistoryOK, history
  <2>6. Roomy'
    BY <1>0, <2>1, RoomLeft
  <2>7. Asked(p)'
    <3>1. pc'[p] = "checkToken"
      BY <2>1, Moved DEF TypeInv
    <3> QED BY <2>4, <3>1 DEF Asked
  <2>8. \A q \in Processes : Asked(q)'
    BY <2>1, <2>4, <2>7, AskedStays
  <2> QED BY <1>0, <2>2, <2>3, <2>5, <2>6, <2>8 DEF TypeInv
<1>2. ASSUME NEW place \in {"createAdmin", "auditSetup"}, Goto(p, place),
             pc[p] \in {"checkToken", "createAdmin"}, UNCHANGED request,
             StartTypeOK', unaudited' \subseteq Names
      PROVE  TypeInv'
  <2>1. pc' \in [Processes -> Place]
    BY <1>2, Moved DEF TypeInv, Place, WebPlace
  <2>2. HistoryOK'
    BY <1>0, <1>2 DEF TypeInv, HistoryOK
  <2>3. Roomy'
    BY <1>0, <1>2, RoomLeft
  <2>4. Asked(p)'
    <3>1. pc'[p] = place /\ Asked(p)
      BY <1>2, Moved DEF TypeInv
    <3> QED BY <1>2, <3>1 DEF Asked, SettingUp
  <2>5. \A q \in Processes : Asked(q)'
    BY <1>2, <2>4, AskedStays
  <2> QED BY <1>0, <1>2, <2>1, <2>2, <2>3, <2>5 DEF TypeInv
<1>3. CASE CheckToken(p)
  <2>1. StartTypeOK' /\ unaudited' \subseteq Names
    BY <1>3, StartUntouched DEF TypeInv, CheckToken, history, HistoryOK
  <2>2. CASE Done(p)
    BY <1>0, <2>1, <2>2, DoneTyped
  <2>3. CASE ~Done(p)
    <3>1. Goto(p, "createAdmin") /\ UNCHANGED request /\ pc[p] = "checkToken"
      BY <1>3, <2>3, Zenon DEF CheckToken
    <3> QED BY <2>1, <3>1, <1>2
  <2> QED BY <2>2, <2>3
<1>4. CASE CreateAdmin(p)
  <2> DEFINE n == request[p].name
  <2>1. pc[p] = "createAdmin" /\ n \in Names
    BY <1>4 DEF TypeInv, CreateAdmin, Asked, SettingUp
  <2>2. CASE role[n] # "none"
    <3>1. Done(p) /\ UNCHANGED <<tokens, userVars, unaudited>>
      BY <1>4, <2>2 DEF CreateAdmin, userVars
    <3>2. StartTypeOK' /\ unaudited' \subseteq Names
      BY <1>4, <3>1, StartUntouched DEF TypeInv, CreateAdmin, HistoryOK
    <3> QED BY <1>0, <3>1, <3>2, DoneTyped
  <2>3. CASE role[n] = "none"
    <3>1. /\ role' = [role EXCEPT ![n] = "admin"]
          /\ maker' = [maker EXCEPT ![n] = p]
          /\ tokens' = {[t EXCEPT !.used = @ \/ t.id = request[p].token] : t \in tokens}
          /\ unaudited' = unaudited \cup {n}
          /\ Goto(p, "auditSetup") /\ UNCHANGED request
          /\ UNCHANGED <<env, schemaVars, tenants, issued, ownVars, counters>>
      BY <1>4, <2>3 DEF CreateAdmin
    <3>2. /\ role' \in [Names -> Role \cup {"none"}]
          /\ maker' \in [Names -> Processes \cup {Nobody}]
      BY <3>1 DEF TypeInv, StartTypeOK, Role
    <3>3. tokens' \subseteq Token
      <4>1. \A t \in Token : [t EXCEPT !.used = @ \/ t.id = request[p].token] \in Token
        BY Zenon DEF Token
      <4> QED BY <3>1, <4>1 DEF TypeInv, StartTypeOK
    <3>4. StartTypeOK'
      BY <3>1, <3>2, <3>3 DEF TypeInv, StartTypeOK, env, schemaVars, ownVars, counters
    <3>5. unaudited' \subseteq Names
      BY <2>1, <3>1 DEF TypeInv, HistoryOK
    <3> QED BY <2>1, <3>1, <3>4, <3>5, <1>2
  <2> QED BY <2>2, <2>3
<1>5. CASE AuditSetup(p)
  <2>1. StartTypeOK' /\ unaudited' \subseteq Names /\ Done(p)
    BY <1>5, StartUntouched DEF TypeInv, AuditSetup, HistoryOK
  <2> QED BY <1>0, <2>1, DoneTyped
<1> QED BY <1>1, <1>3, <1>4, <1>5

\* The row of the attempts, counted on or begun anew.
LEMMA RowTyped ==
    ASSUME attempts \in [count : Nat, age : 0 .. Window + 1], NEW fresh \in BOOLEAN
    PROVE  /\ Counted(fresh) \in [count : Nat, age : 0 .. Window + 1]
           /\ Counted(fresh).count = IF fresh THEN 1 ELSE attempts.count + 1
BY Numbers DEF Counted

\* Asking for a login keeps the types, and one who asks has room for a session.
LEMMA AskLoginTyped ==
    ASSUME TypeInv, NEW p \in Processes, NEW b \in Browsers, NEW n \in Names,
           NEW right \in BOOLEAN, AskLogin(p, b, n, right)
    PROVE  TypeInv'
<1> USE DEF TypeInv
<1>1. /\ Goto(p, "count") /\ UNCHANGED <<webVars, history, tenants>>
      /\ logins + Cardinality(LoggingIn) < MaxLogins /\ pc[p] = "serving"
  BY DEF AskLogin
<1>2. StartTypeOK'
  BY StartUntouched DEF AskLogin
<1>3. pc' \in [Processes -> Place]
  BY <1>1, Moved DEF Place, WebPlace
<1>4. /\ request'[p] = [kind |-> "login", name |-> n, browser |-> b, right |-> right,
                        fresh |-> WindowOver]
      /\ \A q \in Processes \ {p} : request'[q] = request[q]
      /\ request' = [q \in Processes |-> request'[q]]
  BY DEF AskLogin, HistoryOK
<1>5. WebTypeOK' /\ HistoryOK'
  BY <1>1, <1>4 DEF WebTypeOK, HistoryOK, webVars, history
<1>6. Roomy'
  <2>1. /\ LoggingIn' = LoggingIn \cup {p} /\ Founding' = Founding \ {p}
        /\ p \in Processes \ LoggingIn
        /\ LoggingIn \subseteq Processes /\ Founding \subseteq Processes
    BY <1>1, Moved DEF LoggingIn, Founding
  <2>2. /\ Cardinality(LoggingIn') = Cardinality(LoggingIn) + 1
        /\ Cardinality(Founding') <= Cardinality(Founding)
    BY <2>1, OneMore, NoMore
  <2>3. /\ Cardinality(LoggingIn) \in Nat /\ Cardinality(Founding) \in Nat
        /\ Cardinality(Founding') \in Nat
    BY <2>1, Some
  <2>4. logins' = logins /\ tenants' = tenants
    BY <1>1 DEF webVars
  <2>5. tenants + Cardinality(Founding) <= Cardinality(Processes)
    BY DEF Roomy
  <2>6. /\ logins' + Cardinality(LoggingIn') <= MaxLogins
        /\ tenants' + Cardinality(Founding') <= Cardinality(Processes)
    BY <1>1, <2>2, <2>3, <2>4, <2>5, Counters, Numbers
  <2> QED BY <2>6 DEF Roomy
<1>7. \A q \in Processes : Asked(q)'
  <2>1. pc'[p] = "count"
    BY <1>1, Moved
  <2>2. WindowOver \in BOOLEAN
    BY DEF WindowOver
  <2>3. Asked(p)'
    BY <1>4, <2>1, <2>2 DEF Asked, SettingUp
  <2> QED BY <1>1, <1>4, <2>3, AskedStays
<1> QED BY <1>2, <1>3, <1>5, <1>6, <1>7

\* So does an attempt that is counted.
LEMMA CountTyped ==
    ASSUME TypeInv, NEW p \in Processes, CountAttempt(p)
    PROVE  TypeInv'
<1> USE DEF TypeInv
<1>1. /\ pc[p] = "count" /\ request[p].fresh \in BOOLEAN
      /\ attempts' = Counted(request[p].fresh)
      /\ tried' = IF WindowOver THEN 1 ELSE tried + 1
      /\ UNCHANGED <<follows, sessions, logins, cookie, form, posts, unaudited, latest, age,
                     tenants>>
  BY DEF CountAttempt, Asked
<1>2. StartTypeOK'
  BY StartUntouched DEF CountAttempt
<1>3. WebTypeOK'
  <2>1. attempts' \in [count : Nat, age : 0 .. Window + 1]
    BY <1>1, RowTyped DEF WebTypeOK
  <2> QED BY <1>1, <2>1 DEF WebTypeOK
<1>4. tried' \in Nat /\ unaudited' \subseteq Names
  BY <1>1 DEF HistoryOK
<1>5. CASE Done(p)
  BY <1>1, <1>2, <1>3, <1>4, <1>5, DoneTyped
<1>6. CASE ~Done(p)
  <2>1. Goto(p, "rotate") /\ UNCHANGED request
    BY <1>6, Zenon DEF CountAttempt
  <2>2. pc' \in [Processes -> Place] /\ pc'[p] = "rotate"
    BY <2>1, Moved DEF Place, WebPlace
  <2>3. HistoryOK'
    BY <1>1, <1>4, <2>1 DEF HistoryOK
  <2>4. Roomy'
    <3>1. /\ LoggingIn' = LoggingIn \cup {p} /\ Founding' = Founding \ {p}
          /\ p \in LoggingIn
      BY <1>1, <2>1, Moved DEF LoggingIn
    <3>2. p \notin Founding
      BY <1>1 DEF Founding
    <3>3. LoggingIn' = LoggingIn /\ Founding' = Founding
      BY <3>1, <3>2
    <3> QED BY <1>1, <3>3 DEF Roomy
  <2>5. Asked(p)'
    <3>1. Asked(p)
      OBVIOUS
    <3> QED BY <1>1, <2>1, <2>2, <3>1 DEF Asked, SettingUp
  <2>6. \A q \in Processes : Asked(q)'
    BY <2>1, <2>5, AskedStays
  <2> QED BY <1>2, <1>3, <2>2, <2>3, <2>4, <2>6
<1> QED BY <1>5, <1>6

\* And a login, for which there is room.
LEMMA RotateTyped ==
    ASSUME TypeInv, NEW p \in Processes, Rotate(p)
    PROVE  TypeInv'
<1> DEFINE n == request[p].name
<1> USE DEF TypeInv
<1>1. /\ n \in Names /\ request[p].browser \in Browsers /\ pc[p] = "rotate"
      /\ sessions' = OthersOf(n)
             \cup {[id |-> logins + 1, user |-> n, left |-> SessionTtl]}
      /\ logins' = logins + 1
      /\ cookie' = [cookie EXCEPT ![request[p].browser] = logins + 1]
      /\ latest' = [latest EXCEPT ![n] = logins + 1]
      /\ age' = [age EXCEPT ![n] = 0]
      /\ Goto(p, "serving") /\ request' = [request EXCEPT ![p] = NoRequest]
      /\ UNCHANGED <<follows, attempts, form, posts, unaudited, tried, tenants>>
  BY DEF Rotate, Done, Asked
<1>2. StartTypeOK'
  BY StartUntouched DEF Rotate
<1>3. pc' \in [Processes -> Place]
  BY <1>1, Moved DEF Place
<1>4. /\ LoggingIn' = LoggingIn \ {p} /\ Founding' = Founding \ {p} /\ p \in LoggingIn
      /\ LoggingIn \subseteq Processes /\ Founding \subseteq Processes
  BY <1>1, Moved DEF LoggingIn, Founding
<1>5. /\ Cardinality(LoggingIn') = Cardinality(LoggingIn) - 1
      /\ Cardinality(Founding') <= Cardinality(Founding)
  BY <1>4, OneLess, NoMore
<1>6. /\ Cardinality(LoggingIn) \in Nat /\ Cardinality(LoggingIn') \in Nat
      /\ Cardinality(Founding) \in Nat /\ Cardinality(Founding') \in Nat
  BY <1>4, Some
<1>7. Roomy'
  <2>1. /\ logins + Cardinality(LoggingIn) <= MaxLogins
        /\ tenants + Cardinality(Founding) <= Cardinality(Processes)
    BY DEF Roomy
  <2>2. tenants' = tenants /\ logins' = logins + 1
    BY <1>1
  <2>3. /\ logins' + Cardinality(LoggingIn') <= MaxLogins
        /\ tenants' + Cardinality(Founding') <= Cardinality(Processes)
    BY <1>5, <1>6, <2>1, <2>2, Counters, Numbers
  <2> QED BY <2>3 DEF Roomy
<1>8. /\ logins + 1 \in 1 .. MaxLogins /\ logins + 1 \in 0 .. MaxLogins
      /\ 0 \in 0 .. SessionTtl + 1 /\ SessionTtl \in -1 .. SessionTtl
  <2>1. logins + 1 + Cardinality(LoggingIn') <= MaxLogins
    BY <1>1, <1>7 DEF Roomy
  <2> QED BY <1>6, <2>1, Counters, Numbers
<1>9. WebTypeOK'
  <2>1. sessions' \subseteq Session
    <3>1. [id |-> logins + 1, user |-> n, left |-> SessionTtl] \in Session
      BY <1>1, <1>8 DEF Session
    <3> QED BY <1>1, <3>1 DEF OthersOf, WebTypeOK
  <2>2. cookie' \in [Browsers -> 0 .. MaxLogins]
    BY <1>1, <1>8 DEF WebTypeOK
  <2>3. logins' \in 0 .. MaxLogins /\ UNCHANGED <<follows, attempts, form, posts>>
    BY <1>1, <1>8
  <2> QED BY <2>1, <2>2, <2>3 DEF WebTypeOK
<1>10. HistoryOK'
  BY <1>1, <1>8 DEF HistoryOK
<1>11. \A q \in Processes : Asked(q)'
  <2>1. \A q \in Processes \ {p} : request'[q] = request[q]
    BY <1>1 DEF HistoryOK
  <2> QED BY <1>1, <2>1, AskedStays DEF SettingUp
<1> QED BY <1>2, <1>3, <1>7, <1>9, <1>10, <1>11

\* While no process moves, its request and the room for it stay.
LEMMA StillTyped ==
    ASSUME TypeInv, UNCHANGED <<pc, request, logins, tenants>>,
           StartTypeOK', WebTypeOK', HistoryOK'
    PROVE  TypeInv'
<1> USE DEF TypeInv
<1>1. pc' = pc /\ request' = request /\ LoggingIn' = LoggingIn /\ Founding' = Founding
  BY DEF LoggingIn, Founding
<1>2. Roomy'
  BY <1>1 DEF Roomy
<1>3. \A q \in Processes : Asked(q)'
  BY <1>1 DEF Asked
<1> QED BY <1>1, <1>2, <1>3

\* A form that is let in is that of a session, or of nobody.
LEMMA PostTyped ==
    ASSUME TypeInv, Posting
    PROVE  posts' \subseteq Posted
<1> USE DEF TypeInv, WebTypeOK
<1>1. ASSUME NEW p \in Processes, NEW b \in Browsers, NEW k \in 1 .. MaxPosts, AskPost(p, b, k)
      PROVE  posts' \subseteq Posted
  <2>1. \A s \in SessionOf(cookie[b]) :
            [slot |-> k, process |-> p, user |-> s.user, session |-> s.id] \in Posted
    <3>1. \A s \in Session : s.id \in 0 .. MaxLogins /\ s.user \in Names
      BY Numbers DEF Session
    <3> QED BY <3>1 DEF SessionOf, Posted
  <2>2. [slot |-> k, process |-> p, user |-> Nobody, session |-> 0] \in Posted
    BY Numbers DEF Posted
  <2> QED BY <1>1, <2>1, <2>2 DEF AskPost
<1>2. ASSUME NEW a \in posts, Change(a) PROVE posts' \subseteq Posted
  BY <1>2 DEF Change
<1> QED BY <1>1, <1>2 DEF Posting

\* Pages and forms keep the types.
LEMMA BrowsingTyped ==
    ASSUME TypeInv, Browsing
    PROVE  TypeInv'
<1> USE DEF TypeInv
<1>1. ASSUME NEW p \in Processes, NEW b \in Browsers, NEW n \in Names, NEW right \in BOOLEAN,
             AskLogin(p, b, n, right)
      PROVE  TypeInv'
  BY <1>1, AskLoginTyped
<1>2. ASSUME NEW p \in Processes, NEW b \in Browsers, GetPage(p, b)
      PROVE  TypeInv'
  <2>1. form' \in [Browsers -> 0 .. OpenForm]
    <3>1. \A s \in SessionOf(cookie[b]) : s.id \in 0 .. OpenForm
      <4>1. \A s \in Session : s.id \in 0 .. OpenForm
        BY Numbers DEF Session, OpenForm
      <4> QED BY <4>1 DEF SessionOf, WebTypeOK
    <3>2. OpenForm \in 0 .. OpenForm
      BY Numbers DEF OpenForm
    <3> QED BY <1>2, <3>1, <3>2 DEF GetPage, WebTypeOK
  <2>2. UNCHANGED <<startVars, follows, sessions, attempts, logins, cookie, request, posts,
                   history>>
    BY <1>2 DEF GetPage
  <2>3. StartTypeOK' /\ UNCHANGED <<pc, request, logins, tenants>>
    BY <2>2, StartUntouched DEF startVars
  <2>4. WebTypeOK' /\ HistoryOK'
    BY <2>1, <2>2 DEF WebTypeOK, HistoryOK, history
  <2> QED BY <2>3, <2>4, StillTyped
<1>3. CASE Posting
  <2>1. UNCHANGED <<startVars, follows, sessions, attempts, logins, cookie, form, request, history>>
    BY <1>3 DEF Posting, AskPost, Change
  <2>2. posts' \subseteq Posted
    BY <1>3, PostTyped
  <2>3. StartTypeOK' /\ UNCHANGED <<pc, request, logins, tenants>>
    BY <2>1, StartUntouched DEF startVars
  <2>4. WebTypeOK' /\ HistoryOK'
    BY <2>1, <2>2 DEF WebTypeOK, HistoryOK, history
  <2> QED BY <2>3, <2>4, StillTyped
<1>4. ASSUME NEW p \in Processes, NEW b \in Browsers, Logout(p, b)
      PROVE  TypeInv'
  <2>1. /\ UNCHANGED <<startVars, follows, attempts, logins, form, request, posts, unaudited,
                       tried, age>>
        /\ sessions' \subseteq sessions
        /\ cookie' = [cookie EXCEPT ![b] = 0]
        /\ latest' = [n \in Names |-> IF latest[n] = cookie[b] THEN 0 ELSE latest[n]]
    BY <1>4 DEF Logout
  <2>2. StartTypeOK' /\ UNCHANGED <<pc, request, logins, tenants>>
    BY <2>1, StartUntouched DEF startVars
  <2>3. 0 \in 0 .. MaxLogins
    BY Numbers
  <2>4. WebTypeOK'
    BY <2>1, <2>3 DEF WebTypeOK
  <2>5. HistoryOK'
    BY <2>1, <2>3 DEF HistoryOK
  <2> QED BY <2>2, <2>4, <2>5, StillTyped
<1>5. ASSUME NEW p \in Processes, Refuse(p)
      PROVE  TypeInv'
  <2>1. UNCHANGED <<startVars, follows, sessions, attempts, logins, cookie, form, request,
                    posts, history>>
    BY <1>5 DEF Refuse, Refused
  <2>2. StartTypeOK' /\ UNCHANGED <<pc, request, logins, tenants>>
    BY <2>1, StartUntouched DEF startVars
  <2>3. WebTypeOK' /\ HistoryOK'
    BY <2>1 DEF WebTypeOK, HistoryOK, history
  <2> QED BY <2>2, <2>3, StillTyped
<1>6. ASSUME NEW n \in Names, NEW r \in Role, CreateUser(n, r) \/ SetUserRole(n, r)
      PROVE  TypeInv'
  <2>1. /\ role' = [role EXCEPT ![n] = r]
        /\ UNCHANGED <<env, schemaVars, tenants, tokens, issued, maker, pc, ownVars, counters,
                       webVars, request, history>>
    BY <1>6 DEF CreateUser, SetUserRole
  <2>2. role' \in [Names -> Role \cup {"none"}]
    BY <2>1 DEF StartTypeOK
  <2>3. StartTypeOK' /\ UNCHANGED <<pc, request, logins, tenants>>
    BY <2>1, <2>2 DEF StartTypeOK, env, schemaVars, ownVars, counters, webVars
  <2>4. WebTypeOK' /\ HistoryOK'
    BY <2>1 DEF WebTypeOK, HistoryOK, history, webVars
  <2> QED BY <2>3, <2>4, StillTyped
<1> QED BY <1>1, <1>2, <1>3, <1>4, <1>5, <1>6 DEF Browsing

\* The clock keeps the types.
LEMMA TickTyped ==
    ASSUME TypeInv, Tick
    PROVE  TypeInv'
<1> USE DEF TypeInv
<1>1. /\ UNCHANGED <<env, schemaVars, tenants, issued, userVars, pc, ownVars, counters, follows,
                     logins, cookie, form, request, posts, unaudited, tried, latest>>
      /\ tokens' = {[t EXCEPT !.left = IF @ < 0 THEN @ ELSE @ - 1] : t \in tokens}
      /\ sessions' = {[s EXCEPT !.left = IF @ < 0 THEN @ ELSE @ - 1] : s \in sessions}
      /\ attempts' = IF AttemptsAge THEN [attempts EXCEPT !.age = @ + 1] ELSE attempts
      /\ age' = [n \in Names |-> IF latest[n] = 0 \/ age[n] > SessionTtl THEN age[n]
                                 ELSE age[n] + 1]
  BY DEF Tick, TokensAge
<1>2. tokens' \subseteq Token
  <2>1. \A t \in Token : [t EXCEPT !.left = IF @ < 0 THEN @ ELSE @ - 1] \in Token
    BY Numbers DEF Token
  <2> QED BY <1>1, <2>1 DEF StartTypeOK
<1>3. sessions' \subseteq Session
  <2>1. \A s \in Session : [s EXCEPT !.left = IF @ < 0 THEN @ ELSE @ - 1] \in Session
    BY Numbers DEF Session
  <2> QED BY <1>1, <2>1 DEF WebTypeOK
<1>4. attempts' \in [count : Nat, age : 0 .. Window + 1]
  <2>1. attempts \in [count : Nat, age : 0 .. Window + 1]
    BY DEF WebTypeOK
  <2> QED BY <1>1, <2>1, Numbers DEF AttemptsAge
<1>5. age' \in [Names -> 0 .. SessionTtl + 1]
  <2>1. age \in [Names -> 0 .. SessionTtl + 1]
    BY DEF HistoryOK
  <2> QED BY <1>1, <2>1, Numbers
<1>6. StartTypeOK'
  BY <1>1, <1>2 DEF StartTypeOK, env, schemaVars, userVars, ownVars, counters
<1>7. WebTypeOK' /\ HistoryOK'
  BY <1>1, <1>3, <1>4, <1>5 DEF WebTypeOK, HistoryOK
<1> QED BY <1>1, <1>6, <1>7, StillTyped

\* A step of anyone keeps the types.
LEMMA TypeStep == TypeInv /\ SchemaInv /\ [Next]_vars => TypeInv'
<1> SUFFICES ASSUME TypeInv, SchemaInv, [Next]_vars PROVE TypeInv'
  OBVIOUS
<1>1. ASSUME NEW p \in Processes, Brings(p) PROVE TypeInv'
  BY <1>1, BringsTyped
<1>2. ASSUME NEW p \in Processes, Killed(p) PROVE TypeInv'
  BY <1>2, KilledTyped
<1>3. ASSUME NEW p \in Processes, Answer(p) PROVE TypeInv'
  BY <1>3, SetupTyped, CountTyped, RotateTyped DEF Answer
<1>4. ASSUME NEW p \in Processes, NEW n \in Names, NEW t \in 0 .. issued, AskSetup(p, n, t)
      PROVE  TypeInv'
  BY <1>4, SetupTyped
<1>5. CASE UNCHANGED vars
  <2>1. /\ StartTypeOK' /\ UNCHANGED <<pc, request, logins, tenants>>
    BY <1>5, StartUntouched DEF vars, startVars, webVars
  <2>2. WebTypeOK' /\ HistoryOK'
    BY <1>5 DEF TypeInv, vars, webVars, history, WebTypeOK, HistoryOK
  <2> QED BY <2>1, <2>2, StillTyped
<1> QED BY <1>1, <1>2, <1>3, <1>4, <1>5, BrowsingTyped, TickTyped DEF Next

-----------------------------------------------------------------------------
(* The schema                                                              *)

\* An older database shows what it lists; a serving one shows everything.
LEMMA InitSchema == Init => SchemaInv
<1> SUFFICES ASSUME Init PROVE SchemaInv
  OBVIOUS
<1>1. 1 .. 0 = {} /\ 0 \in 0 .. Tags /\ Tags \in 0 .. Tags
  BY Numbers
<1>2. CASE InitStart
  <2>1. PICK n \in 0 .. Tags : built = 1 .. n /\ applied = 1 .. n
    BY <1>2, Zenon DEF InitStart
  <2>2. \A p \in Processes : seen[p] = {} /\ pc[p] = "down"
    BY <1>2 DEF InitStart
  <2> QED BY <1>1, <2>1, <2>2 DEF SchemaInv, Prefix, Past, WebPlace
<1>3. CASE InitServing
  <2>1. \A p \in Processes : seen[p] = Tag
    BY <1>3 DEF InitServing
  <2> QED BY <1>1, <1>3, <2>1 DEF InitServing, SchemaInv, Prefix, Tag
<1> QED BY <1>2, <1>3 DEF Init

\* Where the schema itself is left alone, a process may go where it may rely
\* on it, and know of no more than there is.
LEMMA SchemaLeft ==
    ASSUME TypeInv, SchemaInv, NEW p \in Processes, NEW place, Goto(p, place),
           built' = built, applied' = applied,
           place \in Past => pc[p] \in Past \/ applied = Tag,
           \A q \in Processes \ {p} : seen'[q] = seen[q],
           seen'[p] \in {{}, applied, seen[p]}
    PROVE  SchemaInv'
<1>1. pc'[p] = place /\ \A q \in Processes \ {p} : pc'[q] = pc[q]
  BY Moved DEF TypeInv
<1>2. \A q \in Processes : pc'[q] \in Past => applied' = Tag
  BY <1>1 DEF SchemaInv
<1>3. Prefix({}) /\ Prefix(applied) /\ Prefix(seen[p]) /\ seen[p] \subseteq applied
  <2>1. 1 .. 0 = {} /\ 0 \in 0 .. Tags
    BY Numbers
  <2> QED BY <2>1 DEF SchemaInv, Prefix
<1>4. \A q \in Processes : Prefix(seen'[q]) /\ seen'[q] \subseteq applied'
  BY <1>3 DEF SchemaInv
<1> QED BY <1>2, <1>3, <1>4 DEF SchemaInv, Prefix

\* A migration that is applied is the next one of the database.
LEMMA SchemaApplied ==
    ASSUME TypeInv, SchemaInv, NEW p \in Processes, Apply(p)
    PROVE  SchemaInv'
<1>1. PICK m \in 0 .. Tags : seen[p] = 1 .. m
  BY DEF SchemaInv, Prefix
<1>2. PICK n \in 0 .. Tags : applied = 1 .. n /\ built = 1 .. n
  BY DEF SchemaInv, Prefix
<1>3. m <= n /\ m < Tags /\ NextTag(p) = m + 1 /\ pc[p] = "apply"
  BY <1>1, <1>2, TagAfter, Shorter DEF SchemaInv, Apply
<1>4. CASE UNCHANGED <<built, applied, seen>>
  <2>1. UNCHANGED pc \/ Goto(p, "record")
    BY DEF Apply
  <2>2. UNCHANGED pc => Goto(p, "apply")
    BY <1>3 DEF TypeInv, Goto
  <2> QED BY <1>4, <2>1, <2>2, SchemaLeft DEF Past, WebPlace
<1>5. CASE /\ m + 1 \notin built /\ built' = built \cup {m + 1} /\ UNCHANGED pc
           /\ applied' = applied \cup {m + 1} /\ seen' = [seen EXCEPT ![p] = @ \cup {m + 1}]
  <2>1. m = n
    <3>1. ~(m + 1 <= n)
      BY <1>2, <1>5, Numbers
    <3> QED BY <1>3, <3>1, Numbers
  <2>2. 1 .. n \cup {n + 1} = 1 .. (n + 1) /\ n + 1 \in 0 .. Tags
    BY <1>3, <2>1, OneTagMore
  <2>3. applied' = 1 .. (n + 1) /\ built' = 1 .. (n + 1) /\ seen'[p] = 1 .. (n + 1)
    BY <1>1, <1>2, <1>5, <2>1, <2>2 DEF TypeInv, StartTypeOK
  <2>4. \A q \in Processes \ {p} : seen'[q] = seen[q]
    BY <1>5 DEF TypeInv, StartTypeOK
  <2>5. \A q \in Processes : pc'[q] \notin Past
    <3>1. applied # Tag
      <4>1. n + 1 \in Tag
        BY <1>3, <2>1, OneTagMore
      <4>2. n + 1 \notin applied
        BY <1>2, Numbers
      <4> QED BY <4>1, <4>2
    <3> QED BY <1>5, <3>1 DEF SchemaInv
  <2>6. \A q \in Processes : Prefix(seen'[q]) /\ seen'[q] \subseteq applied'
    <3>1. \A q \in Processes \ {p} : Prefix(seen[q]) /\ seen[q] \subseteq applied
      BY DEF SchemaInv
    <3>2. applied \subseteq applied'
      BY <1>5
    <3>3. Prefix(1 .. (n + 1))
      BY <2>2 DEF Prefix
    <3> QED BY <2>3, <2>4, <3>1, <3>2, <3>3
  <2> QED BY <2>2, <2>3, <2>5, <2>6 DEF SchemaInv, Prefix
<1> QED BY <1>3, <1>4, <1>5 DEF Apply, MarkApplied

\* A step of anyone keeps the schema in order.
LEMMA SchemaStep == TypeInv /\ SchemaInv /\ [Next]_vars => SchemaInv'
<1> SUFFICES ASSUME TypeInv, SchemaInv, [Next]_vars PROVE SchemaInv'
  OBVIOUS
<1> USE DEF schemaVars, ownVars
<1>1. CASE UNCHANGED <<built, applied, seen, pc>>
  BY <1>1 DEF SchemaInv, Prefix
<1>2. ASSUME NEW p \in Processes, Forget(p), NEW place \in {"down"}, Goto(p, place),
             built' = built, applied' = applied
      PROVE  SchemaInv'
  <2>1. seen'[p] = {} /\ \A q \in Processes \ {p} : seen'[q] = seen[q]
    BY <1>2, NothingKnown DEF TypeInv
  <2> QED BY <1>2, <2>1, SchemaLeft DEF Past, WebPlace
<1>3. ASSUME NEW p \in Processes, NEW place, Goto(p, place),
             place \in Past => pc[p] \in Past \/ applied = Tag,
             UNCHANGED <<built, applied, seen>>
      PROVE  SchemaInv'
  BY <1>3, SchemaLeft
<1>4. ASSUME NEW p \in Processes, StartStep(p) PROVE SchemaInv'
  <2>1. CASE Start(p) \/ ForgiveFailure(p) \/ Migrated(p)
    BY <1>3, <2>1 DEF Start, ForgiveFailure, Migrated, Past, WebPlace
  <2>2. CASE ListTags(p)
    <3>1. seen'[p] = applied /\ \A q \in Processes \ {p} : seen'[q] = seen[q]
      BY <2>2 DEF ListTags, TypeInv, StartTypeOK
    <3> QED BY <2>2, <3>1, SchemaLeft DEF ListTags, Past, WebPlace
  <2>3. CASE JudgeFailure(p)
    BY <1>2, <1>3, <2>3 DEF JudgeFailure, Exit, Past, WebPlace
  <2>4. CASE Apply(p)
    BY <2>4, SchemaApplied
  <2>5. CASE RecordFailure(p)
    BY <1>2, <2>5 DEF RecordFailure, Exit
  <2>6. CASE CheckReadiness(p)
    BY <1>2, <1>3, <2>6 DEF CheckReadiness, Exit, Ready
  <2>7. CASE LookForTenant(p) \/ InsertTenant(p) \/ LookForAdmin(p) \/ DeleteTokens(p)
    <3>1. pc[p] \in Past /\ UNCHANGED <<built, applied, seen>>
      BY <2>7 DEF LookForTenant, InsertTenant, LookForAdmin, DeleteTokens, Past
    <3>2. \E place \in StartedPlace : Goto(p, place)
      BY <1>4, StartTyped
    <3> QED BY <1>3, <3>1, <3>2
  <2>8. CASE InsertToken(p)
    BY <1>2, <1>3, <2>8 DEF InsertToken, Exit, Past
  <2> QED BY <1>4, <2>1, <2>2, <2>3, <2>4, <2>5, <2>6, <2>7, <2>8 DEF StartStep
<1>5. ASSUME NEW p \in Processes, Killed(p) PROVE SchemaInv'
  BY <1>2, <1>5 DEF Killed, Kill, Exit
<1>6. ASSUME NEW p \in Processes, Answer(p) PROVE SchemaInv'
  <2>1. pc[p] \in Past /\ UNCHANGED <<built, applied, seen>>
    BY <1>6 DEF Answer, CheckToken, CreateAdmin, AuditSetup, CountAttempt, Rotate, Past, WebPlace
  <2>2. \E place \in Place : Goto(p, place)
    BY <1>6 DEF Answer, CheckToken, CreateAdmin, AuditSetup, CountAttempt, Rotate, Done, Place,
                WebPlace
  <2> QED BY <1>3, <2>1, <2>2
<1>7. ASSUME NEW p \in Processes, NEW n \in Names, NEW t \in 0 .. issued, AskSetup(p, n, t)
      PROVE  SchemaInv'
  BY <1>3, <1>7 DEF AskSetup, Past
<1>8. CASE Browsing
  <2>1. ASSUME NEW p \in Processes, NEW b \in Browsers, NEW n \in Names, NEW right \in BOOLEAN,
               AskLogin(p, b, n, right)
        PROVE  SchemaInv'
    BY <1>3, <2>1 DEF AskLogin, Past
  <2>2. (\A p \in Processes, b \in Browsers, n \in Names, right \in BOOLEAN :
            ~AskLogin(p, b, n, right)) => UNCHANGED <<built, applied, seen, pc>>
    BY <1>8 DEF Browsing, GetPage, Posting, AskPost, Change, Logout, Refuse, CreateUser,
                SetUserRole, startVars
  <2> QED BY <1>1, <2>1, <2>2
<1>9. CASE Tick
  BY <1>1, <1>9 DEF Tick
<1>10. CASE UNCHANGED vars
  BY <1>1, <1>10 DEF vars, startVars
<1> QED BY <1>4, <1>5, <1>6, <1>7, <1>8, <1>9, <1>10 DEF Next, Brings

\* Both hold in every state.
LEMMA Grounds == Spec => [](TypeInv /\ SchemaInv)
<1>1. Init => TypeInv /\ SchemaInv
  BY InitTyped, InitSchema
<1>2. TypeInv /\ SchemaInv /\ [Next]_vars => (TypeInv /\ SchemaInv)'
  BY TypeStep, SchemaStep
<1> QED BY <1>1, <1>2, PTL DEF Spec

\* Every variable stays within its type: no more tenants than processes, no
\* more sessions than the bound, whoever is still answering.
THEOREM TypeCorrect == Spec => []TypeOK
<1>1. TypeInv /\ SchemaInv => TypeOK
  BY Types
<1> QED BY <1>1, Grounds, PTL

\* A process that serves works on a whole schema, whose migrations were
\* applied in the order of the journal, whatever other processes started,
\* failed or died meanwhile.
THEOREM SchemaWhole == Spec => []SchemaIsWhole
<1>1. TypeInv /\ SchemaInv => SchemaIsWhole
  <2> SUFFICES ASSUME TypeInv, SchemaInv PROVE SchemaIsWhole
    OBVIOUS
  <2>1. PICK n \in 0 .. Tags : applied = 1 .. n
    BY DEF SchemaInv, Prefix
  <2>2. \A t \in applied : 1 .. t \subseteq applied
    BY <2>1, Numbers
  <2>3. ASSUME NEW p \in Processes, pc[p] # "down", ~Starting(p) PROVE applied = Tag
    <3>1. pc[p] \in Past
      BY <2>3 DEF TypeInv, Place, Starting, Past
    <3> QED BY <3>1 DEF SchemaInv
  <2> QED BY <2>2, <2>3 DEF SchemaIsWhole
<1> QED BY <1>1, Grounds, PTL

-----------------------------------------------------------------------------
(* The setup page                                                          *)

\* A user the setup page let in has the process that did so for good, and a
\* process that is about to let one in has let in nobody yet; what is not in
\* the audit trail is about to be written.
SetupInv ==
    /\ \A n \in Names : role[n] = "none" => maker[n] = Nobody
    /\ \A p \in Processes : pc[p] \in {"checkToken", "createAdmin"} =>
          \A n \in Names : maker[n] # p
    /\ \A m, n \in Names : m # n /\ maker[m] = maker[n] => maker[m] = Nobody
    /\ crashes = 0 => \A n \in unaudited : \E p \in Processes :
          pc[p] = "auditSetup" /\ request[p].name = n

\* A process starts that is down or starting, and lets nobody in.
LEMMA StartFrame ==
    ASSUME NEW p \in Processes, StartStep(p)
    PROVE  pc[p] \in {"down"} \cup StartPlace /\ UNCHANGED <<open, fixed, role, maker, crashes>>
<1> USE DEF env, userVars, counters, StartPlace
<1>1. CASE Start(p) \/ ListTags(p) \/ JudgeFailure(p) \/ ForgiveFailure(p)
  BY <1>1 DEF Start, ListTags, JudgeFailure, ForgiveFailure
<1>2. CASE Apply(p) \/ RecordFailure(p) \/ Migrated(p) \/ CheckReadiness(p)
  BY <1>2 DEF Apply, RecordFailure, Migrated, CheckReadiness
<1>3. CASE LookForTenant(p) \/ InsertTenant(p) \/ LookForAdmin(p)
  BY <1>3 DEF LookForTenant, InsertTenant, LookForAdmin
<1>4. CASE DeleteTokens(p) \/ InsertToken(p)
  BY <1>4 DEF DeleteTokens, InsertToken
<1> QED BY <1>1, <1>2, <1>3, <1>4 DEF StartStep

\* Where nobody is let in, whoever leaves has written what it had to.
LEMMA SetupLeft ==
    ASSUME TypeInv, SetupInv, NEW p \in Processes, NEW place, Goto(p, place),
           place \in {"checkToken", "createAdmin"} => \A n \in Names : maker[n] # p,
           UNCHANGED <<role, maker>>, unaudited' \subseteq unaudited,
           \A q \in Processes \ {p} : request'[q] = request[q],
           crashes' = 0 => crashes = 0,
           pc[p] = "auditSetup" /\ crashes' = 0 => request[p].name \notin unaudited'
    PROVE  SetupInv'
<1>1. pc'[p] = place /\ \A q \in Processes \ {p} : pc'[q] = pc[q]
  BY Moved DEF TypeInv
<1>2. \A n \in Names : role'[n] = "none" => maker'[n] = Nobody
  BY DEF SetupInv
<1>3. \A q \in Processes : pc'[q] \in {"checkToken", "createAdmin"} =>
          \A n \in Names : maker'[n] # q
  BY <1>1 DEF SetupInv
<1>4. \A m, n \in Names : m # n /\ maker'[m] = maker'[n] => maker'[m] = Nobody
  BY DEF SetupInv
<1>5. ASSUME crashes' = 0, NEW n \in unaudited'
      PROVE  \E q \in Processes : pc'[q] = "auditSetup" /\ request'[q].name = n
  <2>1. PICK q \in Processes : pc[q] = "auditSetup" /\ request[q].name = n
    BY <1>5 DEF SetupInv
  <2>2. q # p
    BY <1>5, <2>1
  <2> QED BY <1>1, <2>1, <2>2
<1> QED BY <1>2, <1>3, <1>4, <1>5 DEF SetupInv

\* The transaction lets in one user, by a process that had let in none.
LEMMA SetupAdmin ==
    ASSUME TypeInv, SetupInv, NEW p \in Processes, CreateAdmin(p)
    PROVE  SetupInv'
<1> DEFINE n == request[p].name
<1>1. pc[p] = "createAdmin" /\ n \in Names /\ crashes' = crashes
  BY DEF CreateAdmin, TypeInv, Asked, SettingUp, counters
<1>2. CASE role[n] # "none"
  <2>1. /\ Goto(p, "serving") /\ request' = [request EXCEPT ![p] = NoRequest]
        /\ UNCHANGED <<role, maker, unaudited>>
    BY <1>2 DEF CreateAdmin, Done
  <2>2. \A q \in Processes \ {p} : request'[q] = request[q]
    BY <2>1 DEF TypeInv, HistoryOK
  <2> QED BY <1>1, <2>1, <2>2, SetupLeft
<1>3. CASE role[n] = "none"
  <2>1. /\ role' = [role EXCEPT ![n] = "admin"]
        /\ maker' = [maker EXCEPT ![n] = p]
        /\ unaudited' = unaudited \cup {n}
        /\ Goto(p, "auditSetup") /\ request' = request
    BY <1>3 DEF CreateAdmin
  <2>2. pc'[p] = "auditSetup" /\ \A q \in Processes \ {p} : pc'[q] = pc[q]
    BY <2>1, Moved DEF TypeInv
  <2>3. /\ maker'[n] = p /\ \A m \in Names \ {n} : maker'[m] = maker[m]
        /\ role'[n] = "admin" /\ \A m \in Names \ {n} : role'[m] = role[m]
    BY <1>1, <2>1 DEF TypeInv, StartTypeOK
  <2>4. \A m \in Names : maker[m] # p
    BY <1>1 DEF SetupInv
  <2>5. \A m \in Names : role'[m] = "none" => maker'[m] = Nobody
    BY <2>3 DEF SetupInv
  <2>6. \A q \in Processes : pc'[q] \in {"checkToken", "createAdmin"} =>
            \A m \in Names : maker'[m] # q
    BY <2>2, <2>3 DEF SetupInv
  <2>7. \A k, m \in Names : k # m /\ maker'[k] = maker'[m] => maker'[k] = Nobody
    BY <2>3, <2>4 DEF SetupInv
  <2>8. ASSUME crashes' = 0, NEW m \in unaudited'
        PROVE  \E q \in Processes : pc'[q] = "auditSetup" /\ request'[q].name = m
    <3>1. CASE m = n
      BY <2>1, <2>2, <3>1
    <3>2. CASE m # n
      <4>1. PICK q \in Processes : pc[q] = "auditSetup" /\ request[q].name = m
        BY <1>1, <2>1, <2>8, <3>2 DEF SetupInv
      <4> QED BY <1>1, <2>1, <2>2, <4>1
    <3> QED BY <3>1, <3>2
  <2> QED BY <2>5, <2>6, <2>7, <2>8 DEF SetupInv
<1> QED BY <1>2, <1>3

\* A step of anyone keeps that.
LEMMA SetupStep == TypeInv /\ SchemaInv /\ SetupInv /\ [Next]_vars => SetupInv'
<1> SUFFICES ASSUME TypeInv, SchemaInv, SetupInv, [Next]_vars PROVE SetupInv'
  OBVIOUS
<1>1. CASE UNCHANGED <<role, maker, pc, request, crashes, unaudited>>
  BY <1>1 DEF SetupInv
<1>2. ASSUME NEW p \in Processes, StartStep(p), UNCHANGED <<request, history>> PROVE SetupInv'
  <2>1. pc[p] # "auditSetup" /\ UNCHANGED <<role, maker, crashes>>
    BY <1>2, StartFrame DEF StartPlace
  <2>2. PICK place \in StartedPlace : Goto(p, place)
    BY <1>2, StartTyped
  <2>3. place \notin {"checkToken", "createAdmin"}
    BY <2>2 DEF StartedPlace, StartPlace
  <2> QED BY <1>2, <2>1, <2>2, <2>3, SetupLeft DEF history
<1>3. ASSUME NEW p \in Processes, Killed(p) PROVE SetupInv'
  <2>1. /\ Goto(p, "down") /\ crashes' = crashes + 1
        /\ UNCHANGED <<role, maker, unaudited>>
        /\ request' = [request EXCEPT ![p] = NoRequest]
    BY <1>3 DEF Killed, Kill, Exit, userVars, history
  <2>2. crashes' # 0
    BY <2>1, Counters
  <2>3. \A q \in Processes \ {p} : request'[q] = request[q]
    BY <2>1 DEF TypeInv, HistoryOK
  <2> QED BY <2>1, <2>2, <2>3, SetupLeft
<1>4. ASSUME NEW p \in Processes, NEW n \in Names, NEW t \in 0 .. issued, AskSetup(p, n, t)
      PROVE  SetupInv'
  <2>1. \A m \in Names : maker[m] # p
    <3>1. \A m \in Names : maker[m] = Nobody
      BY <1>4 DEF AskSetup, SetupOpen, HasAdminUser, SetupInv
    <3> QED BY <3>1, StartupAssumption
  <2>2. /\ Goto(p, "checkToken") /\ UNCHANGED <<role, maker, crashes, unaudited>>
        /\ pc[p] = "serving"
        /\ request' = [request EXCEPT ![p] = [kind |-> "setup", name |-> n, token |-> t]]
    BY <1>4 DEF AskSetup, userVars, counters, history
  <2>3. \A q \in Processes \ {p} : request'[q] = request[q]
    BY <2>2 DEF TypeInv, HistoryOK
  <2> QED BY <2>1, <2>2, <2>3, SetupLeft
<1>5. ASSUME NEW p \in Processes, CheckToken(p) PROVE SetupInv'
  <2>1. /\ pc[p] = "checkToken" /\ UNCHANGED <<role, maker, crashes, unaudited>>
        /\ \E place \in {"createAdmin", "serving"} : Goto(p, place)
        /\ request' = request \/ request' = [request EXCEPT ![p] = NoRequest]
    BY <1>5 DEF CheckToken, Done, userVars, counters, history
  <2>2. \A q \in Processes \ {p} : request'[q] = request[q]
    BY <2>1 DEF TypeInv, HistoryOK
  <2>3. \A n \in Names : maker[n] # p
    BY <2>1 DEF SetupInv
  <2> QED BY <2>1, <2>2, <2>3, SetupLeft
<1>6. ASSUME NEW p \in Processes, AuditSetup(p) PROVE SetupInv'
  <2>1. /\ Goto(p, "serving") /\ UNCHANGED <<role, maker, crashes>>
        /\ unaudited' = unaudited \ {request[p].name}
        /\ request' = [request EXCEPT ![p] = NoRequest]
    BY <1>6 DEF AuditSetup, Done, userVars, counters
  <2>2. \A q \in Processes \ {p} : request'[q] = request[q]
    BY <2>1 DEF TypeInv, HistoryOK
  <2> QED BY <2>1, <2>2, SetupLeft
<1>7. ASSUME NEW p \in Processes, CountAttempt(p) \/ Rotate(p) PROVE SetupInv'
  <2>1. /\ pc[p] # "auditSetup" /\ UNCHANGED <<role, maker, crashes, unaudited>>
        /\ \E place \in {"rotate", "serving"} : Goto(p, place)
        /\ request' = request \/ request' = [request EXCEPT ![p] = NoRequest]
    BY <1>7 DEF CountAttempt, Rotate, Done, userVars, counters
  <2>2. \A q \in Processes \ {p} : request'[q] = request[q]
    BY <2>1 DEF TypeInv, HistoryOK
  <2> QED BY <2>1, <2>2, SetupLeft
<1>8. CASE Browsing
  <2>1. ASSUME NEW p \in Processes, NEW b \in Browsers, NEW n \in Names, NEW right \in BOOLEAN,
               AskLogin(p, b, n, right)
        PROVE  SetupInv'
    <3>1. /\ Goto(p, "count") /\ UNCHANGED <<role, maker, crashes, unaudited>>
          /\ pc[p] = "serving"
      BY <2>1 DEF AskLogin, userVars, counters, history
    <3>2. \A q \in Processes \ {p} : request'[q] = request[q]
      BY <2>1 DEF AskLogin, TypeInv, HistoryOK
    <3> QED BY <3>1, <3>2, SetupLeft
  <2>2. ASSUME NEW n \in Names, NEW r \in Role, CreateUser(n, r) \/ SetUserRole(n, r)
        PROVE  SetupInv'
    <3>1. /\ role' = [role EXCEPT ![n] = r]
          /\ UNCHANGED <<maker, pc, request, crashes, unaudited>>
      BY <2>2 DEF CreateUser, SetUserRole, counters, history
    <3>2. \A m \in Names : role'[m] = "none" => role[m] = "none"
      BY <3>1 DEF TypeInv, StartTypeOK, Role
    <3>3. \A m \in Names : role'[m] = "none" => maker'[m] = Nobody
      BY <3>1, <3>2 DEF SetupInv
    <3> QED BY <3>1, <3>3 DEF SetupInv
  <2>3. ASSUME NEW p \in Processes, Refuse(p) PROVE SetupInv'
    BY <1>1, <2>3 DEF Refuse, startVars, userVars, counters, history
  <2>4. ASSUME \/ Posting
               \/ \E p \in Processes, b \in Browsers : GetPage(p, b) \/ Logout(p, b)
        PROVE  SetupInv'
    BY <1>1, <2>4 DEF GetPage, Posting, AskPost, Change, Logout, startVars, userVars, counters,
                      history
  <2> QED BY <1>8, <2>1, <2>2, <2>3, <2>4 DEF Browsing
<1>9. CASE Tick
  BY <1>1, <1>9 DEF Tick, userVars, counters
<1>10. CASE UNCHANGED vars
  BY <1>1, <1>10 DEF vars, startVars, userVars, counters, history
<1>11. ASSUME NEW p \in Processes, Brings(p) PROVE SetupInv'
  BY <1>2, <1>11 DEF Brings
<1> QED BY <1>3, <1>4, <1>5, <1>6, <1>7, <1>8, <1>9, <1>10, <1>11, SetupAdmin
    DEF Next, Answer

\* A process lets one user in through the setup page, ever; and each is in
\* the audit trail, unless the process was killed before it wrote that.
THEOREM SetupCloses == Spec => []SetupClosesBehind
<1>1. Init => SetupInv
  <2> SUFFICES ASSUME Init PROVE SetupInv
    OBVIOUS
  <2>1. \A p \in Processes : pc[p] \in {"down", "serving"}
    BY DEF Init, InitStart, InitServing
  <2>2. \A n \in Names : maker[n] = Nobody
    BY DEF Init, InitStart, InitServing
  <2> QED BY <2>1, <2>2 DEF Init, SetupInv
<1>2. SetupInv => SetupClosesBehind
  BY DEF SetupInv, SetupClosesBehind
<1> QED BY <1>1, <1>2, SetupStep, Grounds, PTL DEF Spec

-----------------------------------------------------------------------------
(* Guesses                                                                 *)

\* Those that have read a row of a window that still runs, and will count
\* their attempt on it.
Late == {p \in Processes : pc[p] = "count" /\ ~request[p].fresh}

\* Those that have found no window, and will begin one.
Stale == {p \in Processes : pc[p] = "count" /\ request[p].fresh}

\* The others, but for the one that began the window: each of them may have
\* begun it again since.
Renewed == Cardinality(Processes) - 1 - Cardinality(Stale)

\* Twice what so many rounds take, the limit and one more from each to each.
Twice(g) == g * (2 * MaxAttempts + g - 1)

\* While a window runs, what was looked at went to rounds that are over or is
\* in the row, and the row leaves as much of the limit as those that are late
\* may use, but for one each.
GuessInv ==
    /\ 2 * tried <= Twice(Cardinality(Processes))
    /\ WindowOver => Late = {}
    /\ ~WindowOver => /\ Renewed >= 0
                      /\ 2 * tried <= Twice(Renewed) + 2 * attempts.count
                      /\ attempts.count + Cardinality(Late) <= MaxAttempts + Renewed

\* The terms of those sums.
LEMMA LateCount ==
    ASSUME TypeInv
    PROVE  /\ Late \subseteq Processes /\ Cardinality(Late) \in Nat
           /\ Stale \subseteq Processes /\ Cardinality(Stale) \in Nat
           /\ Renewed \in Int /\ Renewed <= Cardinality(Processes) - 1
           /\ tried \in Nat /\ attempts.count \in Nat
<1>1. Late \subseteq Processes /\ tried \in Nat /\ attempts.count \in Nat
  BY DEF Late, TypeInv, HistoryOK, WebTypeOK
<1>2. Stale \subseteq Processes
  BY DEF Stale
<1>3. Cardinality(Late) \in Nat /\ Cardinality(Stale) \in Nat
  BY <1>1, <1>2, Some
<1> QED BY <1>1, <1>2, <1>3, Numbers DEF Renewed

\* More rounds take more.
LEMMA TwiceGrows ==
    ASSUME NEW g \in Nat, NEW h \in Nat, g <= h
    PROVE  Twice(g) <= Twice(h) /\ Twice(g) \in Int /\ Twice(h) \in Int
<1> DEFINE m == MaxAttempts
           d == h - g
<1>1. m \in Nat /\ m >= 1 /\ d \in Nat /\ h = g + d
  BY Numbers
<1>2. Twice(h) - Twice(g) = d * (2 * m + 2 * g + d - 1)
  <2>1. (g + d) * (2 * m + (g + d) - 1) - g * (2 * m + g - 1) = d * (2 * m + 2 * g + d - 1)
    BY <1>1
  <2> QED BY <1>1, <2>1 DEF Twice
<1>3. d * (2 * m + 2 * g + d - 1) >= 0
  <2>1. 2 * m + 2 * g + d - 1 \in Nat
    BY <1>1
  <2>2. \A x, y \in Nat : x * y >= 0
    OBVIOUS
  <2> QED BY <1>1, <2>1, <2>2
<1>4. Twice(g) \in Int /\ Twice(h) \in Int
  BY <1>1 DEF Twice
<1> QED BY <1>1, <1>2, <1>3, <1>4

\* A round that is over took the limit and as many as there were rounds before.
LEMMA TwiceNext ==
    ASSUME NEW g \in Nat
    PROVE  Twice(g + 1) = Twice(g) + 2 * (MaxAttempts + g)
<1>1. MaxAttempts \in Nat
  BY Numbers
<1> QED BY <1>1 DEF Twice

\* The attempt that begins a round is within the limit.
LEMMA OneFits == \A g \in Nat : 1 <= MaxAttempts + g
BY Numbers

\* The invariant bounds what was looked at, whatever ends the window.
LEMMA GuessTotal ==
    ASSUME NEW g \in Nat, g <= Cardinality(Processes) - 1, NEW t \in Nat, NEW c \in Nat,
           2 * t <= Twice(g) + 2 * c, c <= MaxAttempts + g
    PROVE  2 * t <= Twice(Cardinality(Processes))
<1>1. g + 1 \in Nat /\ g + 1 <= Cardinality(Processes) /\ MaxAttempts \in Nat
  BY Numbers
<1>2. /\ Twice(g + 1) = Twice(g) + 2 * (MaxAttempts + g)
      /\ Twice(g + 1) <= Twice(Cardinality(Processes))
      /\ Twice(g) \in Int /\ Twice(g + 1) \in Int /\ Twice(Cardinality(Processes)) \in Int
  BY <1>1, Numbers, TwiceNext, TwiceGrows
<1>3. 2 * t <= Twice(g + 1)
  BY <1>1, <1>2
<1> QED BY <1>2, <1>3

\* Where nothing is counted and nobody comes to be late.
LEMMA GuessLeft ==
    ASSUME TypeInv, GuessInv, UNCHANGED <<tried, attempts>>, Late' \subseteq Late,
           WindowOver \/ Stale' \subseteq Stale
    PROVE  GuessInv'
<1>1. WindowOver' = WindowOver /\ Twice(Cardinality(Processes))' = Twice(Cardinality(Processes))
  BY DEF WindowOver, Twice
<1>2. CASE WindowOver
  BY <1>1, <1>2 DEF GuessInv
<1>3. CASE ~WindowOver
  <2>1. /\ Cardinality(Late') <= Cardinality(Late)
        /\ Cardinality(Stale') <= Cardinality(Stale)
        /\ Cardinality(Late') \in Nat /\ Cardinality(Stale') \in Nat
    <3>1. Late' \subseteq Processes /\ Stale' \subseteq Processes
      BY DEF Late, Stale
    <3> QED BY <1>3, <3>1, LateCount, NoMore, Some
  <2>2. Renewed <= Renewed' /\ Renewed' \in Int
    BY <2>1, LateCount, Numbers DEF Renewed
  <2>3. /\ Renewed >= 0 /\ 2 * tried <= Twice(Renewed) + 2 * attempts.count
        /\ attempts.count + Cardinality(Late) <= MaxAttempts + Renewed
    BY <1>3 DEF GuessInv
  <2>4. Twice(Renewed) <= Twice(Renewed') /\ Twice(Renewed) \in Int /\ Twice(Renewed') \in Int
    BY <2>2, <2>3, LateCount, TwiceGrows
  <2>5. Twice(Renewed)' = Twice(Renewed')
    BY DEF Twice
  <2>6. /\ Renewed' >= 0 /\ 2 * tried <= Twice(Renewed') + 2 * attempts.count
        /\ attempts.count + Cardinality(Late') <= MaxAttempts + Renewed'
    BY <2>1, <2>2, <2>3, <2>4, LateCount, Numbers
  <2>7. 2 * tried <= Twice(Cardinality(Processes))
    BY DEF GuessInv
  <2> QED BY <1>1, <1>3, <2>5, <2>6, <2>7 DEF GuessInv
<1> QED BY <1>2, <1>3

\* One that goes elsewhere has nothing to count.
LEMMA NotLate ==
    ASSUME TypeInv, NEW p \in Processes, NEW place, Goto(p, place), place # "count",
           \A q \in Processes \ {p} : request'[q] = request[q]
    PROVE  Late' = Late \ {p} /\ Stale' = Stale \ {p}
<1>1. pc'[p] = place /\ \A q \in Processes \ {p} : pc'[q] = pc[q]
  BY Moved DEF TypeInv
<1> QED BY <1>1 DEF Late, Stale

\* One that asks may be late, but then the limit is not used up.
LEMMA GuessAsked ==
    ASSUME TypeInv, GuessInv, NEW p \in Processes, NEW b \in Browsers, NEW n \in Names,
           NEW right \in BOOLEAN, AskLogin(p, b, n, right)
    PROVE  GuessInv'
<1>1. /\ Goto(p, "count") /\ ~Blocked /\ UNCHANGED <<tried, attempts>> /\ pc[p] = "serving"
  BY DEF AskLogin, webVars, history
<1>2. /\ request'[p].fresh = WindowOver
      /\ \A q \in Processes \ {p} : request'[q] = request[q]
  BY DEF AskLogin, TypeInv, HistoryOK
<1>3. pc'[p] = "count" /\ \A q \in Processes \ {p} : pc'[q] = pc[q]
  BY <1>1, Moved DEF TypeInv
<1>4. CASE WindowOver
  <2>1. Late' \subseteq Late
    BY <1>2, <1>3, <1>4 DEF Late
  <2> QED BY <1>1, <1>4, <2>1, GuessLeft
<1>5. CASE ~WindowOver
  <2>1. attempts.count < MaxAttempts
    BY <1>1, <1>5, LateCount, Numbers DEF Blocked
  <2>2. Stale' = Stale /\ Renewed' = Renewed
    <3>1. Stale' = Stale
      BY <1>1, <1>2, <1>3, <1>5 DEF Stale
    <3> QED BY <3>1 DEF Renewed
  <2>3. Cardinality(Late') \in Nat /\ Cardinality(Late') <= Renewed + 1
    <3>1. Late' \subseteq Processes \ Stale'
      BY DEF Late, Stale
    <3>2. Late' \subseteq Processes \ Stale /\ Processes \ Stale \subseteq Processes
      BY <2>2, <3>1
    <3>3. Cardinality(Processes \ Stale) = Cardinality(Processes) - Cardinality(Stale)
      BY LateCount, Outside
    <3>4. Cardinality(Late') <= Cardinality(Processes \ Stale) /\ Cardinality(Late') \in Nat
      BY <3>2, NoMore, Some
    <3> QED BY <3>3, <3>4, LateCount, Numbers DEF Renewed
  <2>4. WindowOver' = WindowOver
    BY <1>1 DEF WindowOver
  <2>5. /\ Renewed >= 0 /\ 2 * tried <= Twice(Renewed) + 2 * attempts.count
        /\ 2 * tried <= Twice(Cardinality(Processes))
    BY <1>5 DEF GuessInv
  <2>6. attempts.count + Cardinality(Late') <= MaxAttempts + Renewed
    BY <2>1, <2>3, LateCount, Numbers
  <2>7. /\ Twice(Renewed)' = Twice(Renewed)
        /\ Twice(Cardinality(Processes))' = Twice(Cardinality(Processes))
    BY <2>2 DEF Twice
  <2> QED BY <1>1, <1>5, <2>2, <2>4, <2>5, <2>6, <2>7 DEF GuessInv
<1> QED BY <1>4, <1>5

\* Whoever counts an attempt is late no more, and has begun no window again
\* that it could begin once more.
LEMMA GuessCounted ==
    ASSUME TypeInv, GuessInv, NEW p \in Processes, CountAttempt(p)
    PROVE  GuessInv'
<1> DEFINE fresh == request[p].fresh
<1>1. /\ pc[p] = "count" /\ fresh \in BOOLEAN
      /\ attempts' = Counted(fresh) /\ tried' = IF WindowOver THEN 1 ELSE tried + 1
      /\ \E place \in {"rotate", "serving"} : Goto(p, place)
      /\ request' = request \/ request' = [request EXCEPT ![p] = NoRequest]
  BY DEF CountAttempt, Done, TypeInv, Asked
<1>2. Late' = Late \ {p} /\ Stale' = Stale \ {p}
  <2>1. \A q \in Processes \ {p} : request'[q] = request[q]
    BY <1>1 DEF TypeInv, HistoryOK
  <2> QED BY <1>1, <2>1, NotLate
<1>3. /\ attempts'.count = IF fresh THEN 1 ELSE attempts.count + 1
      /\ attempts'.age = IF fresh THEN 0 ELSE attempts.age
  BY <1>1, RowTyped DEF TypeInv, WebTypeOK, Counted
<1>4. /\ Twice(Cardinality(Processes))' = Twice(Cardinality(Processes))
      /\ Twice(Renewed)' = Twice(Renewed')
  BY DEF Twice
<1>5. Renewed' \in Int /\ Renewed' <= Cardinality(Processes) - 1 /\ tried' \in Nat
  <2>1. Stale' \subseteq Processes
    BY DEF Stale
  <2>2. Cardinality(Stale') \in Nat
    BY <2>1, Some
  <2>3. tried' \in Nat
    BY <1>1, LateCount
  <2> QED BY <2>2, <2>3, Numbers DEF Renewed
<1>6. CASE fresh
  <2>1. p \in Stale /\ ~WindowOver' /\ attempts'.count = 1
    BY <1>1, <1>3, <1>6, Numbers DEF Stale, WindowOver
  <2>2. Renewed' = Renewed + 1
    <3>1. Cardinality(Stale') = Cardinality(Stale) - 1
      BY <1>2, <2>1, LateCount, OneLess
    <3> QED BY <3>1, LateCount, Numbers DEF Renewed
  <2>3. Renewed' >= 0 /\ Renewed' \in Nat
    <3>1. Cardinality(Stale) <= Cardinality(Processes)
      BY LateCount, Some
    <3> QED BY <2>2, <3>1, LateCount, Numbers DEF Renewed
  <2>4. attempts'.count + Cardinality(Late') <= MaxAttempts + Renewed'
    <3>1. Late' \subseteq Processes \ Stale /\ Processes \ Stale \subseteq Processes
      BY <1>2, <2>1 DEF Late, Stale
    <3>2. Cardinality(Late') <= Cardinality(Processes \ Stale) /\ Cardinality(Late') \in Nat
      BY <3>1, NoMore, Some
    <3>3. Cardinality(Processes \ Stale) = Renewed'
      BY <2>2, LateCount, Outside, Numbers DEF Renewed
    <3>4. Cardinality(Late') <= Renewed' /\ Renewed' \in Int /\ Cardinality(Late') \in Nat
      BY <1>5, <3>2, <3>3
    <3>5. MaxAttempts \in Nat /\ MaxAttempts >= 1
      BY Numbers
    <3> QED BY <2>1, <3>4, <3>5
  <2>5. 2 * tried' <= Twice(Renewed') + 2
    <3>1. CASE WindowOver
      <4>1. Twice(0) = 0
        BY Numbers DEF Twice
      <4>2. Twice(0) <= Twice(Renewed') /\ Twice(Renewed') \in Int
        BY <1>5, <2>3, TwiceGrows
      <4> QED BY <1>1, <3>1, <4>1, <4>2
    <3>2. CASE ~WindowOver
      <4>1. /\ Renewed \in Nat /\ 2 * tried <= Twice(Renewed) + 2 * attempts.count
            /\ attempts.count + Cardinality(Late) <= MaxAttempts + Renewed
        BY <3>2, LateCount DEF GuessInv
      <4>2. /\ Twice(Renewed') = Twice(Renewed) + 2 * (MaxAttempts + Renewed)
            /\ Twice(Renewed) \in Int
        BY <2>2, <4>1, TwiceNext, TwiceGrows
      <4>3. tried' = tried + 1
        BY <1>1, <3>2
      <4> QED BY <4>1, <4>2, <4>3, LateCount, Numbers
    <3> QED BY <3>1, <3>2
  <2>6. 2 * tried' <= Twice(Cardinality(Processes))
    <3>1. tried' \in Nat /\ Renewed' \in Nat /\ 1 <= MaxAttempts + Renewed'
      <4>1. tried' \in Nat
        BY <1>5
      <4>2. 1 <= MaxAttempts + Renewed'
        BY <2>3, OneFits
      <4> QED BY <2>3, <4>1, <4>2
    <3>2. 2 * tried' <= Twice(Renewed') + 2 * 1
      BY <2>5
    <3> QED BY <1>5, <3>1, <3>2, GuessTotal
  <2> QED BY <1>4, <2>1, <2>3, <2>4, <2>5, <2>6 DEF GuessInv
<1>7. CASE ~fresh
  <2>1. p \in Late /\ ~WindowOver
    BY <1>1, <1>7 DEF Late, GuessInv
  <2>2. ~WindowOver' /\ attempts'.count = attempts.count + 1 /\ tried' = tried + 1
    BY <1>1, <1>3, <1>7, <2>1, LateCount DEF WindowOver
  <2>3. Cardinality(Late') = Cardinality(Late) - 1
    BY <1>2, <2>1, LateCount, OneLess
  <2>4. Stale' = Stale /\ Renewed' = Renewed
    <3>1. Stale' = Stale
      BY <1>2, <1>7 DEF Stale
    <3> QED BY <3>1 DEF Renewed
  <2>5. /\ Renewed \in Nat /\ 2 * tried <= Twice(Renewed) + 2 * attempts.count
        /\ attempts.count + Cardinality(Late) <= MaxAttempts + Renewed
    BY <2>1, LateCount DEF GuessInv
  <2>6. Twice(Renewed) \in Int
    BY <2>5, TwiceGrows
  <2>7. /\ 2 * tried' <= Twice(Renewed') + 2 * attempts'.count
        /\ attempts'.count + Cardinality(Late') <= MaxAttempts + Renewed'
    BY <2>2, <2>3, <2>4, <2>5, <2>6, LateCount, Numbers
  <2>8. 2 * tried' <= Twice(Cardinality(Processes))
    <3>1. tried' \in Nat /\ attempts'.count \in Nat /\ attempts'.count <= MaxAttempts + Renewed'
      <4>1. attempts.count \in Nat /\ MaxAttempts \in Nat
        BY LateCount, Numbers
      <4>2. attempts.count + Cardinality(Late) <= MaxAttempts + Renewed /\ p \in Late
        BY <2>1, <2>5
      <4>3. Cardinality(Late) \in Nat /\ Cardinality(Late) >= 1
        <5>1. Cardinality(Late') \in Nat /\ Cardinality(Late) \in Nat
          BY <1>2, LateCount, Some
        <5> QED BY <2>3, <5>1
      <4> QED BY <1>5, <2>2, <2>4, <2>5, <4>1, <4>2, <4>3
    <3>2. Renewed' \in Nat
      BY <2>4, <2>5
    <3> QED BY <1>5, <2>7, <3>1, <3>2, GuessTotal
  <2> QED BY <1>4, <2>2, <2>4, <2>5, <2>7, <2>8 DEF GuessInv
<1> QED BY <1>1, <1>6, <1>7

\* A step of anyone keeps that.
LEMMA GuessStep == TypeInv /\ SchemaInv /\ GuessInv /\ [Next]_vars => GuessInv'
<1> SUFFICES ASSUME TypeInv, SchemaInv, GuessInv, [Next]_vars PROVE GuessInv'
  OBVIOUS
<1>1. CASE UNCHANGED <<tried, attempts, pc, request>>
  <2>1. Late' = Late /\ Stale' = Stale
    BY <1>1 DEF Late, Stale
  <2> QED BY <1>1, <2>1, GuessLeft
<1>2. ASSUME NEW p \in Processes, NEW place, Goto(p, place), place # "count",
             UNCHANGED <<tried, attempts>>,
             \A q \in Processes \ {p} : request'[q] = request[q]
      PROVE  GuessInv'
  BY <1>2, NotLate, GuessLeft
<1>3. ASSUME NEW p \in Processes, Brings(p) PROVE GuessInv'
  <2>1. PICK place \in StartedPlace : Goto(p, place)
    BY <1>3, StartTyped DEF Brings
  <2> QED BY <1>2, <1>3, <2>1 DEF Brings, webVars, history, StartedPlace, StartPlace
<1>4. ASSUME NEW p \in Processes,
             \/ Killed(p) \/ CheckToken(p) \/ CreateAdmin(p) \/ AuditSetup(p) \/ Rotate(p)
             \/ \E n \in Names, t \in 0 .. issued : AskSetup(p, n, t)
      PROVE  GuessInv'
  <2>1. \E place \in {"down", "checkToken", "createAdmin", "auditSetup", "serving"} :
            Goto(p, place)
    BY <1>4 DEF Killed, Kill, Exit, CheckToken, CreateAdmin, AuditSetup, Rotate, AskSetup, Done
  <2>2. UNCHANGED <<tried, attempts>>
    BY <1>4 DEF Killed, CheckToken, CreateAdmin, AuditSetup, Rotate, AskSetup, webVars, history
  <2>3. request' = request \/ \E x : request' = [request EXCEPT ![p] = x]
    BY <1>4 DEF Killed, CheckToken, CreateAdmin, AuditSetup, Rotate, AskSetup, Done
  <2>4. \A q \in Processes \ {p} : request'[q] = request[q]
    BY <2>3 DEF TypeInv, HistoryOK
  <2> QED BY <1>2, <2>1, <2>2, <2>4
<1>5. CASE Browsing
  <2>1. ASSUME NEW p \in Processes, Refuse(p) PROVE GuessInv'
    BY <1>1, <2>1 DEF Refuse, Refused, startVars, history
  <2>2. ASSUME \/ Posting
               \/ \E p \in Processes, b \in Browsers : GetPage(p, b) \/ Logout(p, b)
        PROVE  GuessInv'
    BY <1>1, <2>2 DEF GetPage, Posting, AskPost, Change, Logout, startVars, webVars, history
  <2>3. ASSUME NEW n \in Names, NEW r \in Role, CreateUser(n, r) \/ SetUserRole(n, r)
        PROVE  GuessInv'
    BY <1>1, <2>3 DEF CreateUser, SetUserRole, webVars, history
  <2> QED BY <1>5, <2>1, <2>2, <2>3, GuessAsked DEF Browsing
<1>6. CASE Tick
  <2>1. /\ attempts'.count = attempts.count /\ UNCHANGED <<tried, pc, request>>
        /\ \A p \in Processes : pc[p] \in {"down", "serving"}
        /\ attempts'.age \in {attempts.age, attempts.age + 1}
    BY <1>6 DEF Tick, TypeInv, WebTypeOK
  <2>2. /\ Late = {} /\ Stale = {} /\ Late' = {} /\ Stale' = {}
        /\ Renewed' = Renewed
    BY <2>1 DEF Late, Stale, Renewed
  <2>3. ~WindowOver' => ~WindowOver
    BY <2>1, Numbers DEF WindowOver, TypeInv, WebTypeOK
  <2>4. /\ Twice(Renewed)' = Twice(Renewed)
        /\ Twice(Cardinality(Processes))' = Twice(Cardinality(Processes))
    BY <2>2 DEF Twice
  <2> QED BY <2>1, <2>2, <2>3, <2>4 DEF GuessInv
<1>7. CASE UNCHANGED vars
  BY <1>1, <1>7 DEF vars, startVars, webVars, history
<1> QED BY <1>3, <1>4, <1>5, <1>6, <1>7, GuessCounted DEF Next, Answer

\* The passwords looked at within a window are bounded by the processes and
\* the limit.
THEOREM GuessesFew == Spec => []GuessesBounded
<1>1. Init => GuessInv
  <2> SUFFICES ASSUME Init PROVE GuessInv
    OBVIOUS
  <2>1. Late = {} /\ WindowOver /\ tried = 0
    BY DEF Init, InitStart, InitServing, Late, WindowOver
  <2>2. Twice(0) = 0 /\ Twice(0) <= Twice(Cardinality(Processes))
    <3>1. Twice(0) = 0
      BY Numbers DEF Twice
    <3> QED BY <3>1, Numbers, TwiceGrows
  <2> QED BY <2>1, <2>2 DEF GuessInv
<1>2. GuessInv => GuessesBounded
  BY DEF GuessInv, GuessesBounded, Twice
<1> QED BY <1>1, <1>2, GuessStep, Grounds, PTL DEF Spec

-----------------------------------------------------------------------------
(* Sessions                                                                *)

\* A session is of its user's last login, and runs out with that.
SessionInv ==
    \A s \in sessions :
        /\ s.id \in 1 .. logins
        /\ latest[s.user] = s.id
        /\ s.left = SessionTtl - age[s.user]

\* A login ends the user's other sessions and begins one.
LEMMA SessionRotated ==
    ASSUME TypeInv, SessionInv, NEW p \in Processes, Rotate(p)
    PROVE  SessionInv'
<1> DEFINE n == request[p].name
<1>1. /\ n \in Names
      /\ sessions' = OthersOf(n)
             \cup {[id |-> logins + 1, user |-> n, left |-> SessionTtl]}
      /\ logins' = logins + 1
      /\ latest' = [latest EXCEPT ![n] = logins + 1]
      /\ age' = [age EXCEPT ![n] = 0]
  BY DEF Rotate, TypeInv, Asked
<1>2. latest'[n] = logins + 1 /\ age'[n] = 0
  BY <1>1 DEF TypeInv, HistoryOK
<1>3. \A m \in Names \ {n} : latest'[m] = latest[m] /\ age'[m] = age[m]
  BY <1>1 DEF TypeInv, HistoryOK
<1>4. ASSUME NEW s \in OthersOf(n)
      PROVE  /\ s.id \in 1 .. logins' /\ latest'[s.user] = s.id
             /\ s.left = SessionTtl - age'[s.user]
  <2>1. s \in sessions /\ s.user \in Names \ {n}
    BY <1>4 DEF OthersOf, TypeInv, WebTypeOK, Session
  <2>2. s.id \in 1 .. logins /\ latest[s.user] = s.id /\ s.left = SessionTtl - age[s.user]
    BY <2>1 DEF SessionInv
  <2>3. s.id \in 1 .. logins'
    BY <1>1, <2>2, Counters
  <2> QED BY <1>3, <2>1, <2>2, <2>3
<1>5. ASSUME NEW s, s = [id |-> logins + 1, user |-> n, left |-> SessionTtl]
      PROVE  /\ s.id \in 1 .. logins' /\ latest'[s.user] = s.id
             /\ s.left = SessionTtl - age'[s.user]
  BY <1>1, <1>2, <1>5, Counters, Numbers
<1> QED BY <1>1, <1>4, <1>5 DEF SessionInv

\* The clock runs for a session as for the login.
LEMMA SessionAges ==
    ASSUME TypeInv, SessionInv, Tick
    PROVE  SessionInv'
<1>1. /\ sessions' = {[s EXCEPT !.left = IF @ < 0 THEN @ ELSE @ - 1] : s \in sessions}
      /\ age' = [n \in Names |-> IF latest[n] = 0 \/ age[n] > SessionTtl THEN age[n]
                                 ELSE age[n] + 1]
      /\ logins' = logins /\ latest' = latest
  BY DEF Tick
<1>2. ASSUME NEW s \in sessions, NEW r, r = [s EXCEPT !.left = IF @ < 0 THEN @ ELSE @ - 1]
      PROVE  /\ r.id \in 1 .. logins /\ latest[r.user] = r.id
             /\ r.left = SessionTtl - age'[r.user]
  <2>1. s \in Session /\ s.user \in Names
    BY DEF TypeInv, WebTypeOK, Session
  <2>2. /\ s.id \in 1 .. logins /\ latest[s.user] = s.id
        /\ s.left = SessionTtl - age[s.user]
    BY DEF SessionInv
  <2>3. r.id = s.id /\ r.user = s.user /\ r.left = IF s.left < 0 THEN s.left ELSE s.left - 1
    BY <1>2, <2>1 DEF Session
  <2>4. age[s.user] \in 0 .. SessionTtl + 1 /\ latest[s.user] # 0
    BY <2>1, <2>2, Counters DEF TypeInv, HistoryOK
  <2>5. age'[s.user] = IF age[s.user] > SessionTtl THEN age[s.user] ELSE age[s.user] + 1
    BY <1>1, <2>1, <2>4
  <2>6. r.left = SessionTtl - age'[s.user]
    BY <2>2, <2>3, <2>4, <2>5, Numbers
  <2> QED BY <2>2, <2>3, <2>6
<1> QED BY <1>1, <1>2 DEF SessionInv

\* A step of anyone keeps that.
LEMMA SessionStep == TypeInv /\ SessionInv /\ [Next]_vars => SessionInv'
<1> SUFFICES ASSUME TypeInv, SessionInv, [Next]_vars PROVE SessionInv'
  OBVIOUS
<1>1. CASE UNCHANGED <<sessions, logins, latest, age>>
  BY <1>1 DEF SessionInv
<1>2. ASSUME NEW p \in Processes, NEW b \in Browsers, Logout(p, b) PROVE SessionInv'
  <2>1. /\ sessions' = {s \in sessions : s.id # cookie[b]} /\ UNCHANGED <<logins, age>>
        /\ latest' = [n \in Names |-> IF latest[n] = cookie[b] THEN 0 ELSE latest[n]]
    BY <1>2 DEF Logout
  <2>2. \A s \in sessions : s.user \in Names
    BY DEF TypeInv, WebTypeOK, Session
  <2> QED BY <2>1, <2>2 DEF SessionInv
<1>3. ASSUME NEW p \in Processes,
             \/ Brings(p) \/ Killed(p) \/ CheckToken(p) \/ CreateAdmin(p) \/ AuditSetup(p)
             \/ CountAttempt(p) \/ Refuse(p)
             \/ \E n \in Names, t \in 0 .. issued : AskSetup(p, n, t)
      PROVE  SessionInv'
  BY <1>1, <1>3 DEF Brings, Killed, CheckToken, CreateAdmin, AuditSetup, CountAttempt, Refuse,
                    AskSetup, webVars, history
<1>4. ASSUME \/ Posting
             \/ \E p \in Processes, b \in Browsers :
                   \/ GetPage(p, b)
                   \/ \E n \in Names, right \in BOOLEAN : AskLogin(p, b, n, right)
      PROVE  SessionInv'
  BY <1>1, <1>4 DEF GetPage, Posting, AskPost, Change, AskLogin, webVars, history
<1>5. ASSUME NEW n \in Names, NEW r \in Role, CreateUser(n, r) \/ SetUserRole(n, r)
      PROVE  SessionInv'
  BY <1>1, <1>5 DEF CreateUser, SetUserRole, webVars, history
<1>6. CASE UNCHANGED vars
  BY <1>1, <1>6 DEF vars, webVars, history
<1> QED BY <1>2, <1>3, <1>4, <1>5, <1>6, SessionRotated, SessionAges DEF Next, Answer, Browsing

\* A form is let in under its user's last login, not after a logout, within
\* the session's life and not for a viewer; one without a session needs the UI
\* to be open.
THEOREM LastLoginOnly == Spec => OnlyTheLastLogin
<1> DEFINE Good(a) == IF a.user = Nobody THEN TRUE \in OpenModes
                      ELSE /\ latest[a.user] = a.session
                           /\ age[a.user] <= SessionTtl
                           /\ role[a.user] # "viewer"
<1>1. Init => SessionInv
  BY DEF Init, SessionInv
<1>2. ASSUME TypeInv, SessionInv, NEW p \in Processes, NEW b \in Browsers,
             NEW k \in 1 .. MaxPosts, AskPost(p, b, k), NEW a \in posts' \ posts
      PROVE  Good(a)
  <2>1. ASSUME NEW s \in SessionOf(cookie[b]), MayChange(s.user),
               a = [slot |-> k, process |-> p, user |-> s.user, session |-> s.id]
        PROVE  Good(a)
    <3>1. s \in sessions /\ s.left >= 0 /\ s \in Session
      BY <1>2, <2>1 DEF SessionOf, TypeInv, WebTypeOK
    <3>2. s.user \in Names /\ s.left \in Int
      BY <3>1, Numbers DEF Session
    <3>3. latest[s.user] = s.id /\ s.left = SessionTtl - age[s.user]
      BY <1>2, <3>1 DEF SessionInv
    <3>4. age[s.user] \in 0 .. SessionTtl + 1
      BY <1>2, <3>2 DEF TypeInv, HistoryOK
    <3>5. age[s.user] <= SessionTtl
      BY <3>1, <3>3, <3>4, Numbers
    <3>6. s.user # Nobody
      BY <3>2, StartupAssumption
    <3> QED BY <2>1, <3>3, <3>5, <3>6 DEF MayChange
  <2>2. ASSUME open, a = [slot |-> k, process |-> p, user |-> Nobody, session |-> 0]
        PROVE  Good(a)
    <3>1. TRUE \in OpenModes
      BY <1>2, <2>2, StartupAssumption DEF TypeInv, StartTypeOK
    <3> QED BY <2>2, <3>1
  <2> QED BY <1>2, <2>1, <2>2 DEF AskPost
<1>3. TypeInv /\ SessionInv /\ [Next]_vars => [\A a \in posts' \ posts : Good(a)]_vars
  <2> SUFFICES ASSUME TypeInv, SessionInv, Next, NEW a \in posts' \ posts
               PROVE  Good(a)
    OBVIOUS
  <2>1. ~(posts' \subseteq posts)
    OBVIOUS
  <2>2. ASSUME NEW p \in Processes,
               \/ Brings(p) \/ Killed(p) \/ Answer(p) \/ Refuse(p)
               \/ \E n \in Names, t \in 0 .. issued : AskSetup(p, n, t)
        PROVE  posts' \subseteq posts
    BY <2>2 DEF Brings, Killed, Answer, CheckToken, CreateAdmin, AuditSetup, CountAttempt,
                Rotate, Refuse, AskSetup, webVars
  <2>3. ASSUME NEW p \in Processes, NEW b \in Browsers,
               \/ GetPage(p, b) \/ Logout(p, b)
               \/ \E n \in Names, right \in BOOLEAN : AskLogin(p, b, n, right)
        PROVE  posts' \subseteq posts
    BY <2>3 DEF GetPage, Logout, AskLogin, webVars
  <2>4. ASSUME NEW n \in Names, NEW r \in Role, CreateUser(n, r) \/ SetUserRole(n, r)
        PROVE  posts' \subseteq posts
    BY <2>4 DEF CreateUser, SetUserRole, webVars
  <2>5. Tick => posts' \subseteq posts
    BY DEF Tick
  <2>6. ASSUME NEW c \in posts, Change(c) PROVE posts' \subseteq posts
    BY <2>6 DEF Change
  <2>7. \E p \in Processes, b \in Browsers, k \in 1 .. MaxPosts : AskPost(p, b, k)
    BY <2>1, <2>2, <2>3, <2>4, <2>5, <2>6 DEF Next, Browsing, Posting
  <2> QED BY <1>2, <2>7
<1> QED BY <1>1, <1>3, SessionStep, Grounds, PTL DEF Spec, OnlyTheLastLogin

-----------------------------------------------------------------------------
(* Starts that do not overlap                                              *)

\* What nothing but an overlap can spoil.
Clean ==
    /\ failure = "other" => faults > 0
    /\ tenants <= 1
    /\ \A s, t \in StaleTokens : s = t

\* What a process that starts alone knows of the database.
Knows(p) ==
    /\ pc[p] \in {"judge", "forgive", "apply"} => seen[p] = applied
    /\ pc[p] = "record" => faults > 0
    /\ pc[p] = "insertTenant" => tenants = 0
    /\ pc[p] = "insertToken" => StaleTokens = {}

\* While no two starts have overlapped, one process starts at a time.
AloneInv ==
    ~raced => /\ \A p, q \in Processes : Starting(p) /\ Starting(q) => p = q
              /\ Clean
              /\ \A p \in Processes : Knows(p)

\* A token that was used has let somebody in.
UsedInv == \A t \in tokens : t.used => HasAdminUser

\* Unless somebody was killed, an installation that asks for a setup token,
\* and has a process that serves, has one or is about to get one.
OfferInv ==
    crashes = 0 /\ ~open /\ ~HasAdminUser
      /\ (\E p \in Processes : pc[p] # "down" /\ ~Starting(p))
        => StaleTokens # {} \/ \E q \in Processes : pc[q] = "insertToken"

\* A process that takes a step of its start without an overlap is the only one.
LEMMA OnlyOne ==
    ASSUME TypeInv, AloneInv, NEW p \in Processes, StartStep(p), ~raced'
    PROVE  /\ ~raced
           /\ \A q \in Processes \ {p} : ~Starting(q) /\ pc'[q] \notin StartPlace
           /\ ~Start(p) => Clean /\ Knows(p)
<1>1. ~raced
  BY DEF StartStep, Start, ListTags, JudgeFailure, ForgiveFailure, Apply, RecordFailure, Migrated,
         CheckReadiness, LookForTenant, InsertTenant, LookForAdmin, DeleteTokens, InsertToken,
         counters
<1>2. \A q \in Processes \ {p} : pc'[q] = pc[q]
  BY DEF StartStep, Start, ListTags, JudgeFailure, ForgiveFailure, Apply, RecordFailure, Migrated,
         CheckReadiness, LookForTenant, InsertTenant, LookForAdmin, DeleteTokens, InsertToken,
         Exit, Goto, TypeInv
<1>3. CASE Start(p)
  BY <1>1, <1>2, <1>3 DEF Start, Starting
<1>4. CASE ~Start(p)
  <2>1. Starting(p)
    BY <1>4 DEF StartStep, ListTags, JudgeFailure, ForgiveFailure, Apply, RecordFailure, Migrated,
                CheckReadiness, LookForTenant, InsertTenant, LookForAdmin, DeleteTokens,
                InsertToken, Starting, StartPlace
  <2> QED BY <1>1, <1>2, <2>1 DEF AloneInv, Starting
<1> QED BY <1>3, <1>4

\* What it knows then is all there is to show.
LEMMA AloneKept ==
    ASSUME NEW p \in Processes, TypeInv, AloneInv, StartStep(p), ~raced' => Clean' /\ Knows(p)'
    PROVE  AloneInv'
<1> SUFFICES ASSUME ~raced'
             PROVE  /\ \A q, r \in Processes : Starting(q)' /\ Starting(r)' => q = r
                    /\ \A q \in Processes : Knows(q)'
  BY DEF AloneInv
<1>1. \A q \in Processes \ {p} : pc'[q] \notin StartPlace
  BY OnlyOne
<1>2. \A q, r \in Processes : Starting(q)' /\ Starting(r)' => q = r
  BY <1>1 DEF Starting
<1>3. ASSUME NEW q \in Processes \ {p} PROVE Knows(q)'
  BY <1>1 DEF Knows, StartPlace
<1> QED BY <1>2, <1>3

\* Somebody who does not start disturbs nobody who does.
LEMMA AloneLeft ==
    ASSUME TypeInv, AloneInv, NEW p \in Processes, NEW place, Goto(p, place),
           place \notin StartPlace,
           UNCHANGED <<raced, applied, failure, faults, tenants>>,
           \A q \in Processes \ {p} : seen'[q] = seen[q], StaleTokens' \subseteq StaleTokens
    PROVE  AloneInv'
<1>1. pc'[p] = place /\ \A q \in Processes \ {p} : pc'[q] = pc[q]
  BY Moved DEF TypeInv
<1> SUFFICES ASSUME ~raced'
             PROVE  /\ \A q, r \in Processes : Starting(q)' /\ Starting(r)' => q = r
                    /\ Clean' /\ \A q \in Processes : Knows(q)'
  BY DEF AloneInv
<1>2. Clean /\ \A q \in Processes : Knows(q)
  BY DEF AloneInv
<1>3. \A q, r \in Processes : Starting(q)' /\ Starting(r)' => q = r
  BY <1>1 DEF AloneInv, Starting
<1>4. Clean'
  BY <1>2 DEF Clean
<1>5. Knows(p)'
  BY <1>1 DEF Knows, StartPlace
<1>6. ASSUME NEW q \in Processes \ {p} PROVE Knows(q)'
  BY <1>1, <1>2 DEF Knows
<1> QED BY <1>3, <1>4, <1>5, <1>6

\* A start that is alone keeps the database clean.
LEMMA StartAlone ==
    ASSUME TypeInv, SchemaInv, AloneInv, NEW p \in Processes, StartStep(p)
    PROVE  AloneInv'
<1> USE DEF env, schemaVars, userVars, ownVars, counters
<1> SUFFICES ASSUME ~raced' PROVE Clean' /\ Knows(p)'
  BY AloneKept
<1>0. pc \in [Processes -> Place]
  BY DEF TypeInv
<1>1. CASE Start(p)
  <2>1. Clean /\ pc'[p] = "list"
    BY <1>0, <1>1, OnlyOne DEF Start, Goto, AloneInv
  <2> QED BY <1>1, <2>1 DEF Start, Clean, Knows, StaleTokens
<1>2. ASSUME ~Start(p), NEW place, Goto(p, place),
             UNCHANGED <<applied, failure, faults, tenants, tokens>>,
             place \in {"judge", "forgive", "apply"} => seen'[p] = applied',
             place # "record", place = "insertTenant" => tenants = 0, place # "insertToken"
      PROVE  Clean' /\ Knows(p)'
  <2>1. Clean /\ pc'[p] = place
    BY <1>0, <1>2, OnlyOne, Moved
  <2> QED BY <1>2, <2>1 DEF Clean, Knows, StaleTokens
<1>3. CASE ListTags(p)
  <2>1. seen'[p] = applied
    BY <1>3 DEF ListTags, TypeInv, StartTypeOK
  <2>2. ~Start(p)
    BY <1>3 DEF ListTags, Start
  <2> QED BY <1>2, <1>3, <2>1, <2>2 DEF ListTags
<1>4. CASE JudgeFailure(p)
  <2>1. ~Start(p)
    BY <1>4 DEF JudgeFailure, Start
  <2>2. seen[p] = applied
    BY <1>4, <2>1, OnlyOne DEF JudgeFailure, Knows
  <2> QED BY <1>2, <1>4, <2>1, <2>2 DEF JudgeFailure, Exit
<1>5. CASE ForgiveFailure(p)
  <2>1. ~Start(p) /\ Goto(p, "apply") /\ failure' = "none"
        /\ UNCHANGED <<applied, seen, faults, tenants, tokens>> /\ pc[p] = "forgive"
    BY <1>5 DEF ForgiveFailure, Start
  <2>2. Clean /\ Knows(p) /\ pc'[p] = "apply"
    BY <1>0, <2>1, OnlyOne, Moved
  <2> QED BY <2>1, <2>2 DEF Clean, Knows, StaleTokens
<1>6. CASE Apply(p)
  <2>1. ~Start(p) /\ pc[p] = "apply" /\ UNCHANGED <<failure, tenants, tokens>>
    BY <1>6 DEF Apply, Start
  <2>2. Clean /\ seen[p] = applied /\ built = applied
    BY <2>1, OnlyOne DEF Knows, SchemaInv
  <2>3. NextTag(p) \notin built
    <3>1. PICK n \in 0 .. Tags : seen[p] = 1 .. n
      BY DEF SchemaInv, Prefix
    <3>2. NextTag(p) = n + 1
      BY <1>6, <3>1, TagAfter DEF Apply
    <3> QED BY <2>2, <3>1, <3>2, Numbers
  <2>4. CASE UNCHANGED <<pc, faults>>
    <3>1. \/ /\ applied' = applied \cup {NextTag(p)}
             /\ seen' = [seen EXCEPT ![p] = @ \cup {NextTag(p)}]
          \/ faults' = faults + 1
      BY <1>6, <2>3 DEF Apply, MarkApplied
    <3>2. faults' # faults + 1
      BY <2>4, Counters
    <3>3. seen'[p] = applied'
      BY <2>2, <3>1, <3>2 DEF TypeInv, StartTypeOK
    <3> QED BY <2>1, <2>2, <2>4, <3>3 DEF Clean, Knows, StaleTokens
  <2>5. CASE ~UNCHANGED <<pc, faults>>
    <3>1. faults' = faults + 1 /\ Goto(p, "record")
      BY <1>6, <2>3, <2>5 DEF Apply
    <3>2. faults' > 0 /\ pc'[p] = "record"
      BY <1>0, <3>1, Counters, Moved
    <3> QED BY <2>1, <2>2, <3>2 DEF Clean, Knows, StaleTokens
  <2> QED BY <2>4, <2>5
<1>7. CASE RecordFailure(p)
  <2>1. /\ ~Start(p) /\ Goto(p, "down") /\ pc[p] = "record"
        /\ UNCHANGED <<faults, tenants, tokens>>
    BY <1>7 DEF RecordFailure, Exit, Start
  <2>2. Clean /\ faults > 0 /\ pc'[p] = "down"
    BY <1>0, <2>1, OnlyOne, Moved DEF Knows
  <2> QED BY <2>1, <2>2 DEF Clean, Knows, StaleTokens
<1>8. CASE Migrated(p) \/ CheckReadiness(p) \/ LookForTenant(p) \/ LookForAdmin(p)
  <2>1. ~Start(p) /\ UNCHANGED <<applied, failure, faults, tenants, tokens>>
    BY <1>8 DEF Migrated, CheckReadiness, LookForTenant, LookForAdmin, Start
  <2>2. \E place \in {"check", "lookTenant", "down", "lookAdmin", "insertTenant", "serving",
                      "deleteTokens"} : Goto(p, place) /\ (place = "insertTenant" => tenants = 0)
    BY <1>8 DEF Migrated, CheckReadiness, LookForTenant, LookForAdmin, Exit
  <2> QED BY <1>2, <2>1, <2>2
<1>9. CASE InsertTenant(p)
  <2>1. /\ ~Start(p) /\ Goto(p, "lookAdmin") /\ tenants' = tenants + 1
        /\ UNCHANGED <<failure, faults, tokens>> /\ pc[p] = "insertTenant"
    BY <1>9 DEF InsertTenant, Start
  <2>2. Clean /\ tenants = 0 /\ pc'[p] = "lookAdmin"
    BY <1>0, <2>1, OnlyOne, Moved DEF Knows
  <2>3. tenants' <= 1
    BY <2>1, <2>2
  <2> QED BY <2>1, <2>2, <2>3 DEF Clean, Knows, StaleTokens
<1>10. CASE DeleteTokens(p)
  <2>1. ~Start(p) /\ UNCHANGED <<applied, failure, faults, tenants>>
    BY <1>10 DEF DeleteTokens, Start
  <2>2. CASE HasAdminUser
    BY <1>2, <1>10, <2>1, <2>2 DEF DeleteTokens
  <2>3. CASE ~HasAdminUser
    <3>1. Goto(p, "insertToken") /\ tokens' = tokens \ StaleTokens
      BY <1>10, <2>3 DEF DeleteTokens
    <3>2. Clean /\ pc'[p] = "insertToken"
      BY <1>0, <2>1, <3>1, OnlyOne, Moved
    <3>3. StaleTokens' = {}
      BY <3>1 DEF StaleTokens
    <3> QED BY <2>1, <3>2, <3>3 DEF Clean, Knows
  <2> QED BY <2>2, <2>3
<1>11. CASE InsertToken(p)
  <2>1. /\ ~Start(p) /\ UNCHANGED <<applied, failure, faults, tenants>> /\ pc[p] = "insertToken"
        /\ \E place \in {"serving", "down"} : Goto(p, place)
        /\ tokens' = tokens \/ \E t : tokens' = tokens \cup {t}
    BY <1>11 DEF InsertToken, Exit, Start
  <2>2. Clean /\ StaleTokens = {} /\ pc'[p] \in {"serving", "down"}
    BY <1>0, <2>1, OnlyOne, Moved DEF Knows
  <2>3. \A s, t \in StaleTokens' : s = t
    BY <2>1, <2>2 DEF StaleTokens
  <2> QED BY <2>1, <2>2, <2>3 DEF Clean, Knows
<1> QED BY <1>1, <1>3, <1>4, <1>5, <1>6, <1>7, <1>8, <1>9, <1>10, <1>11 DEF StartStep

\* A token that is marked was good before, if it still is.
LEMMA TokensMarked ==
    ASSUME TypeInv, NEW c,
           tokens' = {[t EXCEPT !.used = @ \/ t.id = c] : t \in tokens}
    PROVE  StaleTokens' \subseteq StaleTokens
<1> SUFFICES ASSUME NEW u \in tokens', ~u.used PROVE u \in StaleTokens
  BY DEF StaleTokens
<1>1. PICK t \in tokens : u = [t EXCEPT !.used = @ \/ t.id = c]
  OBVIOUS
<1>2. t \in [id : 0 .. MaxTokens, left : -1 .. SetupTtl, used : BOOLEAN]
  BY DEF TypeInv, StartTypeOK, Token
<1>3. u.used = (t.used \/ t.id = c)
  BY <1>1, <1>2
<1>4. t.used = FALSE /\ (t.used \/ t.id = c) = FALSE
  BY <1>2, <1>3
<1>5. u = t
  BY <1>1, <1>2, <1>4
<1> QED BY <1>4, <1>5 DEF StaleTokens

\* The clock changes no token but its time.
LEMMA TokensAged ==
    ASSUME TypeInv, TokensAge
    PROVE  /\ \A u \in tokens' : \E t \in tokens :
                  u.used = t.used /\ u = [t EXCEPT !.left = IF @ < 0 THEN @ ELSE @ - 1]
           /\ StaleTokens # {} => StaleTokens' # {}
<1>1. tokens' = {[t EXCEPT !.left = IF @ < 0 THEN @ ELSE @ - 1] : t \in tokens}
  BY DEF TokensAge
<1>2. \A t \in tokens : [t EXCEPT !.left = IF @ < 0 THEN @ ELSE @ - 1].used = t.used
  BY DEF TypeInv, StartTypeOK, Token
<1>3. \A u \in tokens' : \E t \in tokens :
          u.used = t.used /\ u = [t EXCEPT !.left = IF @ < 0 THEN @ ELSE @ - 1]
  BY <1>1, <1>2
<1>4. ASSUME NEW t \in StaleTokens PROVE StaleTokens' # {}
  <2>1. [t EXCEPT !.left = IF @ < 0 THEN @ ELSE @ - 1] \in StaleTokens'
    BY <1>1, <1>2, <1>4 DEF StaleTokens
  <2> QED BY <2>1
<1> QED BY <1>3, <1>4

\* A step of anyone keeps the starts apart that do not overlap.
LEMMA AloneStep == TypeInv /\ SchemaInv /\ AloneInv /\ [Next]_vars => AloneInv'
<1> SUFFICES ASSUME TypeInv, SchemaInv, AloneInv, [Next]_vars PROVE AloneInv'
  OBVIOUS
<1> USE DEF schemaVars, ownVars, counters
<1>1. CASE UNCHANGED <<raced, pc, failure, faults, tenants, tokens, seen, applied>>
  BY <1>1 DEF AloneInv, Starting, Clean, Knows, StaleTokens
<1>2. ASSUME NEW p \in Processes, Brings(p) PROVE AloneInv'
  BY <1>2, StartAlone DEF Brings
<1>3. ASSUME NEW p \in Processes, Killed(p) PROVE AloneInv'
  <2>1. /\ Goto(p, "down") /\ Forget(p)
        /\ UNCHANGED <<raced, applied, failure, faults, tenants, tokens>>
    BY <1>3 DEF Killed, Kill, Exit
  <2>2. /\ \A q \in Processes \ {p} : seen'[q] = seen[q]
        /\ StaleTokens' = StaleTokens
    BY <2>1, NothingKnown DEF TypeInv, StaleTokens
  <2> QED BY <2>1, <2>2, AloneLeft DEF StartPlace
<1>4. ASSUME NEW p \in Processes,
             \/ CheckToken(p) \/ CreateAdmin(p) \/ AuditSetup(p) \/ CountAttempt(p) \/ Rotate(p)
             \/ \E n \in Names, t \in 0 .. issued : AskSetup(p, n, t)
             \/ \E b \in Browsers, n \in Names, right \in BOOLEAN : AskLogin(p, b, n, right)
      PROVE  AloneInv'
  <2>1. \E place \in WebPlace \cup {"serving"} : Goto(p, place)
    BY <1>4 DEF CheckToken, CreateAdmin, AuditSetup, CountAttempt, Rotate, AskSetup, AskLogin,
                Done, WebPlace
  <2>2. UNCHANGED <<raced, applied, failure, faults, tenants, seen>>
    BY <1>4 DEF CheckToken, CreateAdmin, AuditSetup, CountAttempt, Rotate, AskSetup, AskLogin
  <2>3. \/ tokens' = tokens
        \/ tokens' = {[t EXCEPT !.used = @ \/ t.id = request[p].token] : t \in tokens}
    BY <1>4 DEF CheckToken, CreateAdmin, AuditSetup, CountAttempt, Rotate, AskSetup, AskLogin
  <2>4. StaleTokens' \subseteq StaleTokens
    BY <2>3, TokensMarked DEF StaleTokens
  <2> QED BY <2>1, <2>2, <2>4, AloneLeft DEF WebPlace, StartPlace
<1>5. CASE Browsing
  <2>1. ASSUME NEW p \in Processes, Refuse(p) PROVE AloneInv'
    BY <1>1, <2>1 DEF Refuse, startVars
  <2>2. ASSUME \/ Posting
               \/ \E p \in Processes, b \in Browsers : GetPage(p, b) \/ Logout(p, b)
        PROVE  AloneInv'
    BY <1>1, <2>2 DEF GetPage, Posting, AskPost, Change, Logout, startVars
  <2>3. ASSUME NEW n \in Names, NEW r \in Role, CreateUser(n, r) \/ SetUserRole(n, r)
        PROVE  AloneInv'
    BY <1>1, <2>3 DEF CreateUser, SetUserRole
  <2> QED BY <1>4, <1>5, <2>1, <2>2, <2>3 DEF Browsing
<1>6. CASE Tick
  <2>1. /\ UNCHANGED <<raced, pc, failure, faults, tenants, seen, applied>> /\ TokensAge
        /\ \A p \in Processes : pc[p] \in {"down", "serving"}
    BY <1>6 DEF Tick
  <2>2. \A p \in Processes : Knows(p)' /\ ~Starting(p)'
    BY <2>1 DEF Knows, Starting, StartPlace
  <2>3. ASSUME Clean PROVE Clean'
    <3>1. ASSUME NEW s \in StaleTokens', NEW t \in StaleTokens' PROVE s = t
      <4>1. PICK x \in StaleTokens : s = [x EXCEPT !.left = IF @ < 0 THEN @ ELSE @ - 1]
        BY <2>1, TokensAged DEF StaleTokens
      <4>2. PICK y \in StaleTokens : t = [y EXCEPT !.left = IF @ < 0 THEN @ ELSE @ - 1]
        BY <2>1, TokensAged DEF StaleTokens
      <4>3. x = y
        BY <2>3 DEF Clean
      <4> QED BY <4>1, <4>2, <4>3
    <3> QED BY <2>1, <2>3, <3>1 DEF Clean
  <2> QED BY <2>1, <2>2, <2>3 DEF AloneInv
<1>7. CASE UNCHANGED vars
  BY <1>1, <1>7 DEF vars, startVars
<1> QED BY <1>2, <1>3, <1>4, <1>5, <1>6, <1>7 DEF Next, Answer

\* Nobody is ever removed.
LEMMA UsersStay ==
    ASSUME TypeInv, [Next]_vars, HasAdminUser
    PROVE  HasAdminUser'
<1>1. PICK m \in Names : role[m] # "none"
  BY DEF HasAdminUser
<1>2. role' = role \/ \E n \in Names, r \in Role : role' = [role EXCEPT ![n] = r]
  <2>1. ASSUME NEW p \in Processes, Brings(p) PROVE role' = role
    BY <2>1, StartFrame DEF Brings
  <2>2. ASSUME NEW p \in Processes, CreateAdmin(p)
        PROVE  role' = role \/ \E n \in Names, r \in Role : role' = [role EXCEPT ![n] = r]
    <3>1. request[p].name \in Names
      BY <2>2 DEF CreateAdmin, TypeInv, Asked, SettingUp
    <3> QED BY <2>2, <3>1 DEF CreateAdmin, Role
  <2>3. ASSUME NEW p \in Processes,
               \/ Killed(p) \/ CheckToken(p) \/ AuditSetup(p) \/ CountAttempt(p) \/ Rotate(p)
               \/ Refuse(p) \/ \E n \in Names, t \in 0 .. issued : AskSetup(p, n, t)
        PROVE  role' = role
    BY <2>3 DEF Killed, Kill, CheckToken, AuditSetup, CountAttempt, Rotate, Refuse, AskSetup,
                userVars, startVars
  <2>4. ASSUME \/ Posting
               \/ \E p \in Processes, b \in Browsers :
                     \/ GetPage(p, b) \/ Logout(p, b)
                     \/ \E n \in Names, right \in BOOLEAN : AskLogin(p, b, n, right)
        PROVE  role' = role
    BY <2>4 DEF GetPage, Posting, AskPost, Change, Logout, AskLogin, userVars, startVars
  <2>5. ASSUME NEW n \in Names, NEW r \in Role, CreateUser(n, r) \/ SetUserRole(n, r)
        PROVE  role' = [role EXCEPT ![n] = r]
    BY <2>5 DEF CreateUser, SetUserRole
  <2>6. CASE Tick \/ UNCHANGED vars
    BY <2>6 DEF Tick, vars, startVars, userVars
  <2> QED BY <2>1, <2>2, <2>3, <2>4, <2>5, <2>6 DEF Next, Answer, Browsing
<1>3. role'[m] # "none"
  BY <1>1, <1>2 DEF TypeInv, StartTypeOK, Role
<1> QED BY <1>3 DEF HasAdminUser

\* What happens to the tokens, in any step.
LEMMA TokenSteps ==
    ASSUME TypeInv, [Next]_vars
    PROVE  \/ tokens' \subseteq tokens
           \/ \E i : tokens' = tokens \cup {NewToken(i)}
           \/ TokensAge
           \/ HasAdminUser'
<1>1. ASSUME NEW p \in Processes, Brings(p)
      PROVE  tokens' \subseteq tokens \/ \E i : tokens' = tokens \cup {NewToken(i)}
  <2>1. CASE InsertToken(p)
    BY <2>1 DEF InsertToken
  <2>2. CASE ~InsertToken(p)
    BY <1>1, <2>2 DEF Brings, StartStep, Start, ListTags, JudgeFailure, ForgiveFailure, Apply,
           RecordFailure, Migrated, CheckReadiness, LookForTenant, InsertTenant, LookForAdmin,
           DeleteTokens
  <2> QED BY <2>1, <2>2
<1>2. ASSUME NEW p \in Processes, CreateAdmin(p)
      PROVE  tokens' \subseteq tokens \/ HasAdminUser'
  <2> DEFINE n == request[p].name
  <2>1. n \in Names
    BY <1>2 DEF CreateAdmin, TypeInv, Asked, SettingUp
  <2>2. CASE role[n] # "none"
    BY <1>2, <2>2 DEF CreateAdmin
  <2>3. CASE role[n] = "none"
    <3>1. role'[n] = "admin"
      BY <1>2, <2>1, <2>3 DEF CreateAdmin, TypeInv, StartTypeOK
    <3> QED BY <2>1, <3>1 DEF HasAdminUser
  <2> QED BY <2>2, <2>3
<1>3. ASSUME NEW p \in Processes,
             \/ Killed(p) \/ CheckToken(p) \/ AuditSetup(p) \/ CountAttempt(p) \/ Rotate(p)
             \/ Refuse(p) \/ \E n \in Names, t \in 0 .. issued : AskSetup(p, n, t)
      PROVE  tokens' = tokens
  BY <1>3 DEF Killed, Kill, CheckToken, AuditSetup, CountAttempt, Rotate, Refuse, AskSetup,
              startVars
<1>4. ASSUME \/ Posting
             \/ \E p \in Processes, b \in Browsers :
                   \/ GetPage(p, b) \/ Logout(p, b)
                   \/ \E n \in Names, right \in BOOLEAN : AskLogin(p, b, n, right)
      PROVE  tokens' = tokens
  BY <1>4 DEF GetPage, Posting, AskPost, Change, Logout, AskLogin, startVars
<1>5. ASSUME NEW n \in Names, NEW r \in Role, CreateUser(n, r) \/ SetUserRole(n, r)
      PROVE  tokens' = tokens
  BY <1>5 DEF CreateUser, SetUserRole
<1>6. CASE Tick
  BY <1>6 DEF Tick
<1>7. CASE UNCHANGED vars
  BY <1>7 DEF vars, startVars
<1> QED BY <1>1, <1>2, <1>3, <1>4, <1>5, <1>6, <1>7 DEF Next, Answer, Browsing

\* Only a user who is let in uses a token.
LEMMA UsedStep == TypeInv /\ UsedInv /\ [Next]_vars => UsedInv'
<1> SUFFICES ASSUME TypeInv, UsedInv, [Next]_vars, ~HasAdminUser', NEW u \in tokens'
             PROVE  ~u.used
  BY DEF UsedInv
<1>1. \A t \in tokens : ~t.used
  BY UsersStay DEF UsedInv
<1>2. \A i : ~NewToken(i).used
  BY DEF NewToken
<1> QED BY <1>1, <1>2, TokenSteps, TokensAged

\* Where no token goes and nobody comes to serve, the offer stands.
LEMMA OfferLeft ==
    ASSUME TypeInv, OfferInv, NEW p \in Processes, NEW place, Goto(p, place),
           place \in {"down"} \cup StartPlace \/ pc[p] \notin {"down"} \cup StartPlace,
           pc[p] # "insertToken", StaleTokens' = StaleTokens,
           crashes = 0, ~open, ~HasAdminUser
    PROVE  OfferInv'
<1>1. pc'[p] = place /\ \A q \in Processes \ {p} : pc'[q] = pc[q]
  BY Moved DEF TypeInv
<1> SUFFICES ASSUME NEW r \in Processes, pc'[r] # "down", pc'[r] \notin StartPlace
             PROVE  StaleTokens' # {} \/ \E q \in Processes : pc'[q] = "insertToken"
  BY DEF OfferInv, Starting
<1>2. \E q \in Processes : pc[q] # "down" /\ ~Starting(q)
  BY <1>1 DEF Starting
<1>3. StaleTokens # {} \/ \E q \in Processes : pc[q] = "insertToken"
  BY <1>2 DEF OfferInv
<1> QED BY <1>1, <1>3

\* The start keeps its offer, or makes one.
LEMMA OfferStarted ==
    ASSUME TypeInv, UsedInv, OfferInv, NEW p \in Processes, StartStep(p),
           crashes = 0, ~open, ~HasAdminUser
    PROVE  OfferInv'
<1> USE DEF env, schemaVars, userVars, ownVars, counters
<1>1. ASSUME NEW place \in {"down"} \cup StartPlace, Goto(p, place), pc[p] # "insertToken",
             tokens' = tokens
      PROVE  OfferInv'
  <2>1. StaleTokens' = StaleTokens
    BY <1>1 DEF StaleTokens
  <2> QED BY <1>1, <2>1, OfferLeft
<1>2. CASE Start(p) \/ ListTags(p) \/ JudgeFailure(p) \/ ForgiveFailure(p)
  BY <1>1, <1>2 DEF Start, ListTags, JudgeFailure, ForgiveFailure, Exit, StartPlace
<1>3. CASE Apply(p)
  <2>1. UNCHANGED pc \/ Goto(p, "record")
    BY <1>3 DEF Apply
  <2>2. UNCHANGED pc => Goto(p, "apply")
    BY <1>3 DEF Apply, Goto, TypeInv
  <2> QED BY <1>1, <1>3, <2>1, <2>2 DEF Apply, StartPlace
<1>4. CASE RecordFailure(p) \/ Migrated(p) \/ CheckReadiness(p)
  BY <1>1, <1>4 DEF RecordFailure, Migrated, CheckReadiness, Exit, StartPlace
<1>5. CASE LookForTenant(p) \/ InsertTenant(p)
  BY <1>1, <1>5 DEF LookForTenant, InsertTenant, StartPlace
<1>6. CASE LookForAdmin(p)
  BY <1>1, <1>6 DEF LookForAdmin, StartPlace
<1>7. CASE DeleteTokens(p)
  <2>1. Goto(p, "insertToken")
    BY <1>7 DEF DeleteTokens
  <2>2. pc'[p] = "insertToken"
    BY <2>1, Moved DEF TypeInv
  <2> QED BY <2>2 DEF OfferInv
<1>8. CASE InsertToken(p)
  <2>1. \A i : NewToken(i) \in tokens' => StaleTokens' # {}
    BY DEF NewToken, StaleTokens
  <2>2. ASSUME NEW t \in tokens, tokens' = tokens PROVE StaleTokens' # {}
    BY <2>2 DEF UsedInv, StaleTokens
  <2>3. StaleTokens' # {}
    BY <1>8, <2>1, <2>2 DEF InsertToken
  <2> QED BY <2>3 DEF OfferInv
<1> QED BY <1>2, <1>3, <1>4, <1>5, <1>6, <1>7, <1>8 DEF StartStep

\* So does a step of anyone.
LEMMA OfferStep == TypeInv /\ UsedInv /\ OfferInv /\ [Next]_vars => OfferInv'
<1> SUFFICES ASSUME TypeInv, UsedInv, OfferInv, [Next]_vars,
                    crashes' = 0, ~open', ~HasAdminUser'
             PROVE  OfferInv'
  BY DEF OfferInv
<1> USE DEF env, counters
<1>0. ~HasAdminUser
  BY UsersStay
<1>1. ASSUME UNCHANGED <<pc, tokens, crashes, open>> PROVE OfferInv'
  <2>1. StaleTokens' = StaleTokens /\ pc' = pc
    BY <1>1 DEF StaleTokens
  <2> QED BY <1>0, <1>1, <2>1 DEF OfferInv, Starting
<1>2. ASSUME NEW p \in Processes, Brings(p) PROVE OfferInv'
  <2>1. StartStep(p) /\ crashes = 0 /\ ~open
    BY <1>2, StartFrame DEF Brings
  <2> QED BY <1>0, <2>1, OfferStarted
<1>3. ASSUME NEW p \in Processes, Killed(p) PROVE FALSE
  BY <1>3, Counters DEF Killed, Kill
<1>4. ASSUME NEW p \in Processes, CreateAdmin(p) PROVE OfferInv'
  <2>1. request[p].name \in Names
    BY <1>4 DEF CreateAdmin, TypeInv, Asked, SettingUp
  <2>2. role[request[p].name] = "none"
    BY <1>0, <2>1 DEF HasAdminUser
  <2>3. role'[request[p].name] = "admin"
    BY <1>4, <2>1, <2>2 DEF CreateAdmin, TypeInv, StartTypeOK
  <2> QED BY <2>1, <2>3 DEF HasAdminUser
<1>5. ASSUME NEW p \in Processes,
             \/ CheckToken(p) \/ AuditSetup(p) \/ CountAttempt(p) \/ Rotate(p)
             \/ \E n \in Names, t \in 0 .. issued : AskSetup(p, n, t)
             \/ \E b \in Browsers, n \in Names, right \in BOOLEAN : AskLogin(p, b, n, right)
      PROVE  OfferInv'
  <2>1. pc[p] \in WebPlace \cup {"serving"}
    BY <1>5 DEF CheckToken, AuditSetup, CountAttempt, Rotate, AskSetup, AskLogin, WebPlace
  <2>2. UNCHANGED <<tokens, crashes, open>>
    BY <1>5 DEF CheckToken, AuditSetup, CountAttempt, Rotate, AskSetup, AskLogin
  <2>3. \E place : Goto(p, place)
    BY <1>5 DEF CheckToken, AuditSetup, CountAttempt, Rotate, AskSetup, AskLogin, Done
  <2>4. StaleTokens' = StaleTokens
    BY <2>2 DEF StaleTokens
  <2> QED BY <1>0, <2>1, <2>2, <2>3, <2>4, OfferLeft DEF WebPlace, StartPlace
<1>6. CASE Browsing
  <2>1. ASSUME NEW p \in Processes, Refuse(p) PROVE OfferInv'
    BY <1>1, <2>1 DEF Refuse, startVars
  <2>2. ASSUME \/ Posting
               \/ \E p \in Processes, b \in Browsers : GetPage(p, b) \/ Logout(p, b)
        PROVE  OfferInv'
    BY <1>1, <2>2 DEF GetPage, Posting, AskPost, Change, Logout, startVars
  <2>3. ASSUME NEW n \in Names, NEW r \in Role, CreateUser(n, r) \/ SetUserRole(n, r)
        PROVE  OfferInv'
    BY <1>1, <2>3 DEF CreateUser, SetUserRole
  <2> QED BY <1>5, <1>6, <2>1, <2>2, <2>3 DEF Browsing
<1>7. CASE Tick
  <2>1. /\ TokensAge /\ UNCHANGED <<pc, crashes, open>>
        /\ \A p \in Processes : pc[p] \in {"down", "serving"}
    BY <1>7 DEF Tick
  <2>2. (\E p \in Processes : pc'[p] # "down" /\ ~Starting(p)') => StaleTokens # {}
    BY <1>0, <2>1 DEF OfferInv, Starting
  <2> QED BY <2>1, <2>2, TokensAged DEF OfferInv
<1>8. CASE UNCHANGED vars
  BY <1>1, <1>8 DEF vars, startVars
<1> QED BY <1>2, <1>3, <1>4, <1>5, <1>6, <1>7, <1>8 DEF Next, Answer

\* A schema is left in a state that needs an operator, a tenant is created
\* twice, or two setup tokens are good at a time, only when two starts have
\* overlapped or a migration failed of itself; and a setup token is not lost
\* even where they overlap.
THEOREM CleanStart == Spec => []CleanUnlessOverlapped
<1> DEFINE I == AloneInv /\ UsedInv /\ OfferInv
<1>1. Init => I
  <2> SUFFICES ASSUME Init PROVE I
    OBVIOUS
  <2>1. /\ tokens = {} /\ tenants <= 1 /\ failure # "other"
        /\ \A p \in Processes : pc[p] \in {"down", "serving"}
    <3>1. CASE InitStart
      <4>1. /\ tokens = {} /\ tenants = 0 /\ pc = [p \in Processes |-> "down"]
            /\ \E n \in 0 .. Tags :
                  failure \in {"none"} \cup
                              (IF n + 1 \in Rebuilding THEN {"foreign key"} ELSE {})
        BY <3>1, Zenon DEF InitStart
      <4>2. \A n : failure \in {"none"} \cup
                         (IF n + 1 \in Rebuilding THEN {"foreign key"} ELSE {})
                     => failure # "other"
        OBVIOUS
      <4>3. \A p \in Processes : pc[p] = "down"
        BY <4>1
      <4>4. failure # "other"
        BY <4>1, <4>2, Zenon
      <4>5. tokens = {} /\ tenants = 0
        BY <3>1, Zenon DEF InitStart
      <4>6. tenants <= 1
        BY <4>5
      <4> QED BY <4>3, <4>4, <4>5, <4>6
    <3>2. CASE InitServing
      BY <3>2 DEF InitServing
    <3> QED BY <3>1, <3>2 DEF Init
  <2>2. StaleTokens = {}
    BY <2>1 DEF StaleTokens
  <2>3. AloneInv /\ UsedInv
    BY <2>1, <2>2 DEF AloneInv, Clean, Knows, Starting, StartPlace, UsedInv
  <2>4. OfferInv
    <3>1. CASE InitStart
      BY <3>1 DEF InitStart, OfferInv
    <3>2. CASE InitServing
      <4>1. HasAdminUser
        <5>1. PICK n \in Names : role = [m \in Names |-> IF m = n THEN "admin" ELSE "none"]
          BY <3>2 DEF InitServing
        <5> QED BY <5>1 DEF HasAdminUser
      <4> QED BY <4>1 DEF OfferInv
    <3> QED BY <3>1, <3>2 DEF Init
  <2> QED BY <2>3, <2>4
<1>2. TypeInv /\ SchemaInv /\ I /\ [Next]_vars => I'
  BY AloneStep, UsedStep, OfferStep
<1>3. TypeInv /\ I => CleanUnlessOverlapped
  <2> SUFFICES ASSUME TypeInv, I PROVE CleanUnlessOverlapped
    OBVIOUS
  <2>1. ASSUME \A s, t \in StaleTokens : s = t PROVE Cardinality(StaleTokens) <= 1
    <3>1. CASE StaleTokens = {}
      BY <3>1, FS_EmptySet
    <3>2. ASSUME NEW t \in StaleTokens PROVE Cardinality(StaleTokens) <= 1
      <4>1. StaleTokens = {t}
        BY <2>1
      <4> QED BY <4>1, FS_Singleton
    <3> QED BY <3>1, <3>2
  <2>2. TokenIsNeverJustLost
    BY DEF TokenIsNeverJustLost, OfferInv, Starting, StartPlace
  <2>3. ~raced => Clean
    BY DEF AloneInv
  <2> QED BY <2>1, <2>2, <2>3 DEF CleanUnlessOverlapped, Clean
<1> QED BY <1>1, <1>2, <1>3, Grounds, PTL DEF Spec

-----------------------------------------------------------------------------
(***************************************************************************)
(* II.  The pages.  The lemmas speak of tables, not of steps               *)
(***************************************************************************)


ContractTyped == [flow : Flows, setup : Setups, active : BOOLEAN, at : Nat]

Standings == {"none", "onboarding", "protected", "archived"}

Tables ==
    [client : [Clients -> Standings],
     flow : [Flows -> FlowRow],
     contracts : Seq(ContractTyped),
     keys : Seq(KeyRow),
     channels : Seq(ChannelRow),
     routes : SUBSET (Nat \X Nat),
     connector : [Connectors -> ConnectorRow],
     stated : SUBSET Flows,
     news : [Flows -> News]]

\* Nothing of workflow f reports, polls or alerts.
Quiet(d, f) ==
    /\ \A i \in DOMAIN d.contracts : d.contracts[i].flow = f =>
          /\ ~d.contracts[i].active
          /\ \A ch \in DOMAIN d.channels : <<i, ch>> \notin d.routes
    /\ \A j \in DOMAIN d.keys : d.keys[j].flow = f => ~d.keys[j].live
    /\ d.flow[f].bound = None

RoutesLead(d) ==
    \A r \in d.routes : r[1] \in DOMAIN d.contracts /\ r[2] \in DOMAIN d.channels

UnknownBlank(d) == \A f \in Flows : ~d.flow[f].known => d.flow[f] = NoFlow

ContractsKnown(d) == \A i \in DOMAIN d.contracts : d.flow[d.contracts[i].flow].known

RemovedQuiet(d, R) ==
    \A f \in Flows : d.flow[f].removed /\ f \notin R => Quiet(d, f)

ArchivedRemoved(d, R) ==
    \A f \in Flows, c \in Clients :
        d.client[c] = "archived" /\ d.flow[f].owner = c /\ f \notin R => d.flow[f].removed

\* What the tables keep, R being the workflows that were taken up again.
Sound(d, R) ==
    /\ d \in Tables
    /\ RoutesLead(d)
    /\ UnknownBlank(d)
    /\ ContractsKnown(d)
    /\ RemovedQuiet(d, R)
    /\ ArchivedRemoved(d, R)

\* A workflow of which something may be switched on.
Free(d, R, f) == f \in R \/ ~d.flow[f].removed

-----------------------------------------------------------------------------
(* Columns and rows                                                        *)

\* Other contracts of the right kind leave tables.
LEMMA ContractsTyped ==
    ASSUME NEW d \in Tables, NEW rows \in Seq(ContractTyped)
    PROVE  [d EXCEPT !.contracts = rows] \in Tables
BY DEF Tables

\* So do other keys,
LEMMA KeysTyped ==
    ASSUME NEW d \in Tables, NEW rows \in Seq(KeyRow)
    PROVE  [d EXCEPT !.keys = rows] \in Tables
BY DEF Tables

\* and other workflow rows.
LEMMA FlowsTyped ==
    ASSUME NEW d \in Tables, NEW rows \in [Flows -> FlowRow]
    PROVE  [d EXCEPT !.flow = rows] \in Tables
BY DEF Tables

\* A rewritten row leaves a sequence of such rows.
LEMMA UpdatedRow ==
    ASSUME NEW S, NEW s \in Seq(S), NEW i \in DOMAIN s, NEW x \in S
    PROVE  /\ [s EXCEPT ![i] = x] \in Seq(S)
           /\ DOMAIN [s EXCEPT ![i] = x] = DOMAIN s
           /\ \A j \in DOMAIN s : [s EXCEPT ![i] = x][j] = IF j = i THEN x ELSE s[j]
OBVIOUS

\* An appended row leaves a sequence of such rows, the old ones in place.
LEMMA AddedRow ==
    ASSUME NEW S, NEW s \in Seq(S), NEW x \in S
    PROVE  /\ Append(s, x) \in Seq(S)
           /\ DOMAIN Append(s, x) = DOMAIN s \cup {Len(s) + 1}
           /\ Len(s) + 1 \notin DOMAIN s
           /\ Append(s, x)[Len(s) + 1] = x
           /\ \A j \in DOMAIN s : Append(s, x)[j] = s[j]
OBVIOUS

\* A contract is of a workflow there is,
LEMMA ContractFlow ==
    ASSUME NEW d \in Tables, NEW i \in DOMAIN d.contracts
    PROVE  d.contracts[i].flow \in Flows
<1>1. d.contracts[i] \in ContractTyped
  BY DEF Tables
<1> QED BY <1>1 DEF ContractTyped

\* a key too,
LEMMA KeyFlow ==
    ASSUME NEW d \in Tables, NEW j \in DOMAIN d.keys
    PROVE  d.keys[j].flow \in Flows
<1>1. d.keys[j] \in KeyRow
  BY DEF Tables
<1> QED BY <1>1 DEF KeyRow

\* and a workflow is monitored by one of the methods.
LEMMA FlowMethod ==
    ASSUME NEW d \in Tables, NEW f \in Flows
    PROVE  d.flow[f].method \in Methods
<1>1. d.flow[f] \in FlowRow
  BY DEF Tables
<1> QED BY <1>1 DEF FlowRow

\* An update of all rows leaves a sequence of such rows.
LEMMA MappedRows ==
    ASSUME NEW S, NEW s \in Seq(S), NEW t, DOMAIN t = DOMAIN s,
           t = [i \in DOMAIN s |-> t[i]],
           \A i \in DOMAIN s : t[i] \in S
    PROVE  t \in Seq(S)
OBVIOUS

\* The INSERT of a contract adds an inactive row of the workflow.
LEMMA AddContractDoes ==
    ASSUME NEW d \in Tables, NEW f \in Flows, NEW s \in Setups,
           NEW e, e = AddContract(d, f, s)
    PROVE  /\ e \in Tables
           /\ e.client = d.client /\ e.flow = d.flow /\ e.keys = d.keys
           /\ e.channels = d.channels /\ e.routes = d.routes /\ e.stated = d.stated
           /\ DOMAIN e.contracts = DOMAIN d.contracts \cup {Len(d.contracts) + 1}
           /\ Len(d.contracts) + 1 \notin DOMAIN d.contracts
           /\ \A i \in DOMAIN d.contracts : e.contracts[i] = d.contracts[i]
           /\ ~e.contracts[Len(d.contracts) + 1].active
           /\ e.contracts[Len(d.contracts) + 1].flow = f
           /\ e.contracts[Len(d.contracts) + 1].at = 0
<1> DEFINE row == [flow |-> f, setup |-> s, active |-> FALSE, at |-> 0]
<1>1. d.contracts \in Seq(ContractTyped) /\ row \in ContractTyped
  BY DEF Tables, ContractTyped
<1>2. e = [d EXCEPT !.contracts = Append(d.contracts, row)]
  BY DEF AddContract
<1>4. e.contracts = Append(d.contracts, row)
  BY <1>2 DEF Tables
<1>5. /\ e.client = d.client /\ e.flow = d.flow /\ e.keys = d.keys
      /\ e.channels = d.channels /\ e.routes = d.routes /\ e.stated = d.stated
  BY <1>2 DEF Tables
<1>6. ~row.active /\ row.flow = f /\ row.at = 0 OBVIOUS
<1> HIDE DEF row
<1>7. Append(d.contracts, row) \in Seq(ContractTyped)
  BY <1>1, AddedRow
<1>3. e \in Tables
  BY <1>2, <1>7, ContractsTyped
<1> QED BY <1>1, <1>3, <1>4, <1>5, <1>6, AddedRow

\* The UPDATE of a contract's set-up switches nothing on or off.
LEMMA SetSetupDoes ==
    ASSUME NEW d \in Tables, NEW i \in DOMAIN d.contracts, NEW s \in Setups,
           NEW e, e = SetSetup(d, i, s)
    PROVE  /\ e \in Tables
           /\ e.client = d.client /\ e.flow = d.flow /\ e.keys = d.keys
           /\ e.channels = d.channels /\ e.routes = d.routes /\ e.stated = d.stated
           /\ DOMAIN e.contracts = DOMAIN d.contracts
           /\ \A j \in DOMAIN d.contracts : /\ e.contracts[j].flow = d.contracts[j].flow
                                            /\ e.contracts[j].active = d.contracts[j].active
                                            /\ e.contracts[j].at = d.contracts[j].at
<1> DEFINE row == [d.contracts[i] EXCEPT !.setup = s]
<1>1. /\ d.contracts \in Seq(ContractTyped)
      /\ d.contracts[i] \in ContractTyped
  BY DEF Tables
<1>2. /\ row \in ContractTyped /\ row.flow = d.contracts[i].flow
      /\ row.active = d.contracts[i].active /\ row.at = d.contracts[i].at
  BY <1>1 DEF ContractTyped
<1>3. e = [d EXCEPT !.contracts = [d.contracts EXCEPT ![i] = row]]
  BY DEF SetSetup
<1>4. e.contracts = [d.contracts EXCEPT ![i] = row]
  BY <1>3 DEF Tables
<1>5. /\ e.client = d.client /\ e.flow = d.flow /\ e.keys = d.keys
      /\ e.channels = d.channels /\ e.routes = d.routes /\ e.stated = d.stated
  BY <1>3 DEF Tables
<1> HIDE DEF row
<1>6. [d.contracts EXCEPT ![i] = row] \in Seq(ContractTyped)
  BY <1>1, <1>2, UpdatedRow
<1>7. e \in Tables
  BY <1>3, <1>6, ContractsTyped
<1> QED BY <1>1, <1>2, <1>4, <1>5, <1>7, UpdatedRow

\* The activation of a contract touches that row.
LEMMA ActivateContractDoes ==
    ASSUME NEW d \in Tables, NEW i \in DOMAIN d.contracts, NEW n \in Nat,
           NEW e, e = ActivateContract(d, i, n)
    PROVE  /\ e \in Tables
           /\ e.client = d.client /\ e.flow = d.flow /\ e.keys = d.keys
           /\ e.channels = d.channels /\ e.routes = d.routes /\ e.stated = d.stated
           /\ DOMAIN e.contracts = DOMAIN d.contracts
           /\ \A j \in DOMAIN d.contracts : j # i => e.contracts[j] = d.contracts[j]
           /\ e.contracts[i].flow = d.contracts[i].flow /\ e.contracts[i].active
           /\ e.contracts[i].at = n
<1> DEFINE row == [d.contracts[i] EXCEPT !.active = TRUE, !.at = n]
<1>1. d.contracts \in Seq(ContractTyped) /\ d.contracts[i] \in ContractTyped
  BY DEF Tables
<1>2. row \in ContractTyped /\ row.flow = d.contracts[i].flow /\ row.active /\ row.at = n
  BY <1>1 DEF ContractTyped
<1>3. e = [d EXCEPT !.contracts = [d.contracts EXCEPT ![i] = row]]
  BY <1>1 DEF ActivateContract, ContractTyped
<1>4. e.contracts = [d.contracts EXCEPT ![i] = row]
  BY <1>3 DEF Tables
<1>5. /\ e.client = d.client /\ e.flow = d.flow /\ e.keys = d.keys
      /\ e.channels = d.channels /\ e.routes = d.routes /\ e.stated = d.stated
  BY <1>3 DEF Tables
<1> HIDE DEF row
<1>6. [d.contracts EXCEPT ![i] = row] \in Seq(ContractTyped)
  BY <1>1, <1>2, UpdatedRow
<1>7. e \in Tables
  BY <1>3, <1>6, ContractsTyped
<1> QED BY <1>1, <1>2, <1>4, <1>5, <1>7, UpdatedRow

Deactivated(d, i) == [d EXCEPT !.contracts[i].active = FALSE]

\* So does its deactivation.
LEMMA DeactivateDoes ==
    ASSUME NEW d \in Tables, NEW i \in DOMAIN d.contracts,
           NEW e, e = Deactivated(d, i)
    PROVE  /\ e \in Tables
           /\ e.client = d.client /\ e.flow = d.flow /\ e.keys = d.keys
           /\ e.channels = d.channels /\ e.routes = d.routes /\ e.stated = d.stated
           /\ DOMAIN e.contracts = DOMAIN d.contracts
           /\ \A j \in DOMAIN d.contracts : j # i => e.contracts[j] = d.contracts[j]
           /\ e.contracts[i].flow = d.contracts[i].flow /\ ~e.contracts[i].active
           /\ e.contracts[i].at = d.contracts[i].at
<1> DEFINE row == [d.contracts[i] EXCEPT !.active = FALSE]
<1>1. d.contracts \in Seq(ContractTyped) /\ d.contracts[i] \in ContractTyped
  BY DEF Tables
<1>2. /\ row \in ContractTyped /\ row.flow = d.contracts[i].flow
      /\ ~row.active /\ row.at = d.contracts[i].at
  BY <1>1 DEF ContractTyped
<1>3. e = [d EXCEPT !.contracts = [d.contracts EXCEPT ![i] = row]]
  BY <1>1 DEF Deactivated, ContractTyped
<1>4. e.contracts = [d.contracts EXCEPT ![i] = row]
  BY <1>3 DEF Tables
<1>5. /\ e.client = d.client /\ e.flow = d.flow /\ e.keys = d.keys
      /\ e.channels = d.channels /\ e.routes = d.routes /\ e.stated = d.stated
  BY <1>3 DEF Tables
<1> HIDE DEF row
<1>6. [d.contracts EXCEPT ![i] = row] \in Seq(ContractTyped)
  BY <1>1, <1>2, UpdatedRow
<1>7. e \in Tables
  BY <1>3, <1>6, ContractsTyped
<1> QED BY <1>1, <1>2, <1>4, <1>5, <1>7, UpdatedRow

\* A revocation ends that key.
LEMMA RevokeKeyDoes ==
    ASSUME NEW d \in Tables, NEW i \in DOMAIN d.keys,
           NEW e, e = RevokeKey(d, i)
    PROVE  /\ e \in Tables
           /\ e.client = d.client /\ e.flow = d.flow /\ e.contracts = d.contracts
           /\ e.channels = d.channels /\ e.routes = d.routes /\ e.stated = d.stated
           /\ DOMAIN e.keys = DOMAIN d.keys
           /\ \A j \in DOMAIN d.keys : j # i => e.keys[j] = d.keys[j]
           /\ e.keys[i].flow = d.keys[i].flow /\ ~e.keys[i].live
<1> DEFINE row == [d.keys[i] EXCEPT !.live = FALSE]
<1>1. d.keys \in Seq(KeyRow) /\ d.keys[i] \in KeyRow
  BY DEF Tables
<1>2. row \in KeyRow /\ row.flow = d.keys[i].flow /\ ~row.live
  BY <1>1 DEF KeyRow
<1>3. e = [d EXCEPT !.keys = [d.keys EXCEPT ![i] = row]]
  BY <1>1 DEF RevokeKey, KeyRow
<1>4. e.keys = [d.keys EXCEPT ![i] = row]
  BY <1>3 DEF Tables
<1>5. /\ e.client = d.client /\ e.flow = d.flow /\ e.contracts = d.contracts
      /\ e.channels = d.channels /\ e.routes = d.routes /\ e.stated = d.stated
  BY <1>3 DEF Tables
<1> HIDE DEF row
<1>6. [d.keys EXCEPT ![i] = row] \in Seq(KeyRow)
  BY <1>1, <1>2, UpdatedRow
<1>7. e \in Tables
  BY <1>3, <1>6, KeysTyped
<1> QED BY <1>1, <1>2, <1>4, <1>5, <1>7, UpdatedRow

\* A new workflow is inactive, unbound and not removed.
LEMMA AddFlowDoes ==
    ASSUME NEW d \in Tables, NEW f \in Flows, NEW c \in Clients \cup {None}, NEW m \in Methods,
           NEW e, e = AddFlow(d, f, c, m)
    PROVE  /\ e \in Tables
           /\ e.client = d.client /\ e.contracts = d.contracts /\ e.keys = d.keys
           /\ e.channels = d.channels /\ e.routes = d.routes /\ e.stated = d.stated
           /\ \A g \in Flows : g # f => e.flow[g] = d.flow[g]
           /\ e.flow[f].known /\ ~e.flow[f].removed /\ ~e.flow[f].active
           /\ e.flow[f].owner = c /\ e.flow[f].bound = None
<1> DEFINE row == [NoFlow EXCEPT !.known = TRUE, !.owner = c, !.method = m]
<1>1. d.flow \in [Flows -> FlowRow] /\ d.flow[f] \in FlowRow
  BY DEF Tables
<1>2. /\ row \in FlowRow /\ row.known /\ ~row.removed /\ ~row.active /\ row.owner = c
      /\ row.bound = None
  BY <1>1 DEF FlowRow, NoFlow, Methods
<1>3. e = [d EXCEPT !.flow = [d.flow EXCEPT ![f] = row]]
  BY <1>1 DEF AddFlow, FlowRow
<1>4. e.flow = [d.flow EXCEPT ![f] = row]
  BY <1>3 DEF Tables
<1>5. /\ e.client = d.client /\ e.contracts = d.contracts /\ e.keys = d.keys
      /\ e.channels = d.channels /\ e.routes = d.routes /\ e.stated = d.stated
  BY <1>3 DEF Tables
<1> HIDE DEF row
<1>6. e \in Tables
  BY <1>1, <1>2, <1>3, FlowsTyped
<1> QED BY <1>1, <1>2, <1>4, <1>5, <1>6

\* A binding changes nothing else of a workflow.
LEMMA BindFlowDoes ==
    ASSUME NEW d \in Tables, NEW f \in Flows, NEW k \in Connectors,
           NEW e, e = BindFlow(d, f, k)
    PROVE  /\ e \in Tables
           /\ e.client = d.client /\ e.contracts = d.contracts /\ e.keys = d.keys
           /\ e.channels = d.channels /\ e.routes = d.routes /\ e.stated = d.stated
           /\ \A g \in Flows : g # f => e.flow[g] = d.flow[g]
           /\ e.flow[f].known = d.flow[f].known /\ e.flow[f].removed = d.flow[f].removed
           /\ e.flow[f].active = d.flow[f].active /\ e.flow[f].owner = d.flow[f].owner
           /\ e.flow[f].method = d.flow[f].method
<1> DEFINE row == [d.flow[f] EXCEPT !.bound = k]
<1>1. d.flow \in [Flows -> FlowRow] /\ d.flow[f] \in FlowRow
  BY DEF Tables
<1>2. /\ row \in FlowRow /\ row.known = d.flow[f].known /\ row.removed = d.flow[f].removed
      /\ row.active = d.flow[f].active /\ row.owner = d.flow[f].owner
      /\ row.method = d.flow[f].method
  BY <1>1 DEF FlowRow, NoFlow, Methods
<1>3. e = [d EXCEPT !.flow = [d.flow EXCEPT ![f] = row]]
  BY <1>1 DEF BindFlow, FlowRow
<1>4. e.flow = [d.flow EXCEPT ![f] = row]
  BY <1>3 DEF Tables
<1>5. /\ e.client = d.client /\ e.contracts = d.contracts /\ e.keys = d.keys
      /\ e.channels = d.channels /\ e.routes = d.routes /\ e.stated = d.stated
  BY <1>3 DEF Tables
<1> HIDE DEF row
<1>6. e \in Tables
  BY <1>1, <1>2, <1>3, FlowsTyped
<1> QED BY <1>1, <1>2, <1>4, <1>5, <1>6

\* An activation neither unbinds a workflow nor brings back a removed one.
LEMMA ActivateFlowDoes ==
    ASSUME NEW d \in Tables, NEW f \in Flows, NEW m \in Methods,
           NEW e, e = ActivateFlow(d, f, m)
    PROVE  /\ e \in Tables
           /\ e.client = d.client /\ e.contracts = d.contracts /\ e.keys = d.keys
           /\ e.channels = d.channels /\ e.routes = d.routes /\ e.stated = d.stated
           /\ \A g \in Flows : g # f => e.flow[g] = d.flow[g]
           /\ e.flow[f].known = d.flow[f].known /\ e.flow[f].removed = d.flow[f].removed
           /\ e.flow[f].active /\ e.flow[f].owner = d.flow[f].owner
           /\ e.flow[f].bound = d.flow[f].bound /\ e.flow[f].method = m
<1> DEFINE row == [d.flow[f] EXCEPT !.active = TRUE, !.method = m]
<1>1. d.flow \in [Flows -> FlowRow] /\ d.flow[f] \in FlowRow
  BY DEF Tables
<1>2. /\ row \in FlowRow /\ row.known = d.flow[f].known /\ row.removed = d.flow[f].removed
      /\ row.active /\ row.owner = d.flow[f].owner /\ row.bound = d.flow[f].bound
      /\ row.method = m
  BY <1>1 DEF FlowRow, NoFlow, Methods
<1>3. e = [d EXCEPT !.flow = [d.flow EXCEPT ![f] = row]]
  BY <1>1 DEF ActivateFlow, FlowRow
<1>4. e.flow = [d.flow EXCEPT ![f] = row]
  BY <1>3 DEF Tables
<1>5. /\ e.client = d.client /\ e.contracts = d.contracts /\ e.keys = d.keys
      /\ e.channels = d.channels /\ e.routes = d.routes /\ e.stated = d.stated
  BY <1>3 DEF Tables
<1> HIDE DEF row
<1>6. e \in Tables
  BY <1>1, <1>2, <1>3, FlowsTyped
<1> QED BY <1>1, <1>2, <1>4, <1>5, <1>6

\* A new key is live, and of the workflow it was asked for.
LEMMA AddKeyDoes ==
    ASSUME NEW d \in Tables, NEW f \in Flows,
           NEW e, e = AddKey(d, f)
    PROVE  /\ e \in Tables
           /\ e.client = d.client /\ e.flow = d.flow /\ e.contracts = d.contracts
           /\ e.channels = d.channels /\ e.routes = d.routes /\ e.stated = d.stated
           /\ DOMAIN e.keys = DOMAIN d.keys \cup {Len(d.keys) + 1}
           /\ Len(d.keys) + 1 \notin DOMAIN d.keys
           /\ \A i \in DOMAIN d.keys : e.keys[i] = d.keys[i]
           /\ e.keys[Len(d.keys) + 1].live /\ e.keys[Len(d.keys) + 1].flow = f
<1> DEFINE row == [flow |-> f, live |-> TRUE]
<1>1. d.keys \in Seq(KeyRow) /\ row \in KeyRow
  BY DEF Tables, KeyRow
<1>2. e = [d EXCEPT !.keys = Append(d.keys, row)]
  BY DEF AddKey
<1>3. e.keys = Append(d.keys, row)
  BY <1>2 DEF Tables
<1>4. /\ e.client = d.client /\ e.flow = d.flow /\ e.contracts = d.contracts
      /\ e.channels = d.channels /\ e.routes = d.routes /\ e.stated = d.stated
  BY <1>2 DEF Tables
<1>5. row.live /\ row.flow = f OBVIOUS
<1> HIDE DEF row
<1>6. Append(d.keys, row) \in Seq(KeyRow)
  BY <1>1, AddedRow
<1>7. e \in Tables
  BY <1>2, <1>6, KeysTyped
<1> QED BY <1>1, <1>3, <1>4, <1>5, <1>7, AddedRow

\* Statements that leave the contracts' owners, the keys and the routes alone.
Aside(d, e) ==
    /\ e \in Tables
    /\ e.client = d.client /\ e.contracts = d.contracts /\ e.keys = d.keys
    /\ e.flow = d.flow /\ e.routes = d.routes
    /\ DOMAIN d.channels \subseteq DOMAIN e.channels
    /\ d.stated \subseteq e.stated

\* A new channel concerns no workflow,
LEMMA AddChannelAside ==
    ASSUME NEW d \in Tables
    PROVE  /\ Aside(d, AddChannel(d))
           /\ Len(d.channels) + 1 \in DOMAIN AddChannel(d).channels
<1> DEFINE row == [live |-> TRUE, health |-> "unknown"]
<1>1. d.channels \in Seq(ChannelRow) /\ row \in ChannelRow
  BY DEF Tables, ChannelRow
<1>2. AddChannel(d) = [d EXCEPT !.channels = Append(d.channels, row)]
  BY DEF AddChannel
<1> HIDE DEF row
<1>3. Append(d.channels, row) \in Seq(ChannelRow)
  BY <1>1, AddedRow
<1>4. DOMAIN Append(d.channels, row) = DOMAIN d.channels \cup {Len(d.channels) + 1}
  BY <1>1, AddedRow
<1> QED BY <1>2, <1>3, <1>4 DEF Tables, Aside

\* nor does what becomes of a channel,
LEMMA ChannelAside ==
    ASSUME NEW d \in Tables, NEW ch \in DOMAIN d.channels,
           NEW h \in {"healthy", "degraded", "failing"}
    PROVE  /\ Aside(d, [d EXCEPT !.channels[ch].health = h])
           /\ Aside(d, [d EXCEPT !.channels[ch].live = FALSE])
<1>1. d.channels \in Seq(ChannelRow) /\ d.channels[ch] \in ChannelRow
  BY DEF Tables
<1>2. /\ [d.channels[ch] EXCEPT !.health = h] \in ChannelRow
      /\ [d.channels[ch] EXCEPT !.live = FALSE] \in ChannelRow
  BY <1>1 DEF ChannelRow
<1>3. \A row \in ChannelRow : Aside(d, [d EXCEPT !.channels = [d.channels EXCEPT ![ch] = row]])
  <2> TAKE row \in ChannelRow
  <2>1. /\ [d.channels EXCEPT ![ch] = row] \in Seq(ChannelRow)
        /\ DOMAIN [d.channels EXCEPT ![ch] = row] = DOMAIN d.channels
    BY <1>1, UpdatedRow
  <2> QED BY <2>1 DEF Tables, Aside
<1> QED BY <1>2, <1>3

\* nor is what becomes of the evidence of a workflow whose contract is edited
\* anything else than evidence,
LEMMA EditedNews ==
    ASSUME db \in Tables, NEW f \in Flows, NEW i, NEW s, EditContract(f, i, s)
    PROVE  \E n \in News : db' = [SetSetup(db, i, s) EXCEPT !.news[f] = n]
<1>1. PICK opened \in {{}, {[kind |-> "empty_result", severity |-> "critical"]}} :
         db' = [SetSetup(db, i, s) EXCEPT !.news[f] =
                   [health |-> @.health, open |-> @.open \cup opened]]
  BY DEF EditContract
<1>2. SetSetup(db, i, s).news = db.news
  BY DEF SetSetup, Tables
<1> DEFINE n == [health |-> db.news[f].health, open |-> db.news[f].open \cup opened]
<1>3. n \in News
  <2>1. db.news[f] \in News
    BY DEF Tables
  <2>2. [kind |-> "empty_result", severity |-> "critical"] \in
           [kind : ToSet(Kinds), severity : Severities]
    BY DEF Kinds, ToSet, Severities
  <2>3. opened \subseteq [kind : ToSet(Kinds), severity : Severities]
    BY <2>2
  <2> QED BY <2>1, <2>3 DEF News
<1> QED BY <1>1, <1>2, <1>3

\* nor do examples, evidence and the connectors' own columns.
LEMMA OthersAside ==
    ASSUME NEW d \in Tables
    PROVE  /\ \A f \in Flows : Aside(d, Seed(d, f))
           /\ \A f \in Flows, n \in News : Aside(d, [d EXCEPT !.news[f] = n])
           /\ \A k \in Connectors : Aside(d, AddConnector(d, k))
           /\ \A k \in Connectors, h \in {"healthy", "unreachable"} : Aside(d, SetHealth(d, k, h))
           /\ \A k \in Connectors : Aside(d, [d EXCEPT !.connector[k].status = "disabled"])
<1>1. ASSUME NEW f \in Flows PROVE Aside(d, Seed(d, f))
  <2>1. [health |-> "unknown", open |-> d.news[f].open] \in News
    BY DEF Tables, News
  <2> QED BY <2>1 DEF Seed, Aside, Tables
<1>2. \A f \in Flows, n \in News : Aside(d, [d EXCEPT !.news[f] = n])
  BY DEF Aside, Tables
<1>3. \A k \in Connectors, row \in ConnectorRow :
         Aside(d, [d EXCEPT !.connector = [d.connector EXCEPT ![k] = row]])
  BY DEF Aside, Tables
<1>4. ASSUME NEW k \in Connectors PROVE Aside(d, AddConnector(d, k))
  <2>1. [status |-> "active", health |-> "unknown"] \in ConnectorRow
    BY DEF ConnectorRow
  <2> QED BY <1>3, <2>1 DEF AddConnector
<1>5. ASSUME NEW k \in Connectors, NEW h \in {"healthy", "unreachable"}
      PROVE  Aside(d, SetHealth(d, k, h))
  <2>1. d.connector[k] \in ConnectorRow
    BY DEF Tables
  <2>2. [d.connector[k] EXCEPT !.health = h] \in ConnectorRow
    BY <2>1 DEF ConnectorRow
  <2>3. Aside(d, d)
    BY DEF Aside
  <2>4. Aside(d, [d EXCEPT !.connector[k].health = h])
    BY <1>3, <2>2
  <2> QED BY <2>3, <2>4 DEF SetHealth
<1>6. ASSUME NEW k \in Connectors PROVE Aside(d, [d EXCEPT !.connector[k].status = "disabled"])
  <2>1. d.connector[k] \in ConnectorRow
    BY DEF Tables
  <2>2. [d.connector[k] EXCEPT !.status = "disabled"] \in ConnectorRow
    BY <2>1 DEF ConnectorRow
  <2> QED BY <1>3, <2>2
<1> QED BY <1>1, <1>2, <1>4, <1>5, <1>6

\* A client changes alone.
LEMMA SetClientDoes ==
    ASSUME NEW d \in Tables, NEW c \in Clients,
           NEW s \in Standings,
           NEW e, e = SetClient(d, c, s)
    PROVE  /\ e \in Tables
           /\ e.flow = d.flow /\ e.contracts = d.contracts /\ e.keys = d.keys
           /\ e.channels = d.channels /\ e.routes = d.routes /\ e.stated = d.stated
           /\ e.client[c] = s /\ \A b \in Clients : b # c => e.client[b] = d.client[b]
<1>1. d.client \in [Clients -> Standings]
  BY DEF Tables
<1> DEFINE col == [d.client EXCEPT ![c] = s]
<1>2. /\ col \in [Clients -> Standings]
      /\ col[c] = s /\ \A b \in Clients : b # c => col[b] = d.client[b]
  BY <1>1
<1>3. e = [d EXCEPT !.client = col]
  BY DEF SetClient
<1> HIDE DEF col
<1> QED BY <1>2, <1>3 DEF Tables

\* A new route leads from that contract to that channel.
LEMMA AddRouteDoes ==
    ASSUME NEW d \in Tables, NEW i \in DOMAIN d.contracts, NEW ch \in DOMAIN d.channels,
           NEW e, e = AddRoute(d, i, ch)
    PROVE  /\ e \in Tables
           /\ e.client = d.client /\ e.flow = d.flow /\ e.contracts = d.contracts
           /\ e.keys = d.keys /\ e.channels = d.channels /\ e.stated = d.stated
           /\ e.routes = d.routes \cup {<<i, ch>>}
<1>1. i \in Nat /\ ch \in Nat
  BY DEF Tables
<1>2. d.routes \cup {<<i, ch>>} \in SUBSET (Nat \X Nat)
  BY <1>1 DEF Tables
<1> QED BY <1>2 DEF AddRoute, Tables

\* A dropped connector is unbound from its workflows, which stay as they are
\* otherwise.
LEMMA DropConnectorDoes ==
    ASSUME NEW d \in Tables, NEW k \in Connectors,
           NEW e, e = DropConnector(d, k)
    PROVE  /\ e \in Tables
           /\ e.client = d.client /\ e.contracts = d.contracts /\ e.keys = d.keys
           /\ e.channels = d.channels /\ e.routes = d.routes /\ e.stated = d.stated
           /\ \A f \in Flows :
                 /\ e.flow[f].known = d.flow[f].known
                 /\ e.flow[f].owner = d.flow[f].owner
                 /\ e.flow[f].active = d.flow[f].active
                 /\ e.flow[f].method = d.flow[f].method
                 /\ e.flow[f].removed = d.flow[f].removed
                 /\ e.flow[f].bound \in {d.flow[f].bound, None}
                 /\ d.flow[f] = NoFlow => e.flow[f] = NoFlow
<1> DEFINE rows == [f \in Flows |-> IF d.flow[f].bound = k
                                    THEN [d.flow[f] EXCEPT !.bound = None] ELSE d.flow[f]]
           cons == [d.connector EXCEPT ![k].status = "deleted"]
<1>1. ASSUME NEW f \in Flows
      PROVE  /\ rows[f] \in FlowRow
             /\ rows[f].known = d.flow[f].known
             /\ rows[f].owner = d.flow[f].owner
             /\ rows[f].active = d.flow[f].active
             /\ rows[f].method = d.flow[f].method
             /\ rows[f].removed = d.flow[f].removed
             /\ rows[f].bound \in {d.flow[f].bound, None}
             /\ d.flow[f] = NoFlow => rows[f] = NoFlow
  <2>1. d.flow[f] \in FlowRow
    BY DEF Tables
  <2> QED BY <2>1 DEF FlowRow, NoFlow
<1>2. rows \in [Flows -> FlowRow]
  BY <1>1
<1>3. cons \in [Connectors -> ConnectorRow]
  <2>1. d.connector \in [Connectors -> ConnectorRow] /\ d.connector[k] \in ConnectorRow
    BY DEF Tables
  <2>2. [d.connector[k] EXCEPT !.status = "deleted"] \in ConnectorRow
    BY <2>1 DEF ConnectorRow
  <2> QED BY <2>1, <2>2
<1>4. e = [d EXCEPT !.connector = cons, !.flow = rows]
  BY DEF DropConnector, Tables
<1> HIDE DEF rows, cons
<1>5. e \in Tables
  BY <1>2, <1>3, <1>4 DEF Tables
<1>6. e.flow = rows
  BY <1>4 DEF Tables
<1> QED BY <1>1, <1>4, <1>5, <1>6 DEF Tables

\* The workflows of S that are not removed yet.
Left(d, S) == {f \in S : ~d.flow[f].removed}

\* The removal of workflows silences them, their contracts, keys and routes,
\* and no other.
LEMMA RemoveFlowsDoes ==
    ASSUME NEW d \in Tables, NEW S \in SUBSET Flows,
           NEW e, e = RemoveFlows(d, S), NEW gone, gone = Left(d, S)
    PROVE  /\ e \in Tables
           /\ e.client = d.client /\ e.channels = d.channels /\ e.stated = d.stated
           /\ DOMAIN e.contracts = DOMAIN d.contracts
           /\ \A i \in DOMAIN d.contracts :
                 /\ e.contracts[i].flow = d.contracts[i].flow
                 /\ e.contracts[i].at = d.contracts[i].at
                 /\ e.contracts[i].active <=>
                        d.contracts[i].active /\ d.contracts[i].flow \notin gone
           /\ DOMAIN e.keys = DOMAIN d.keys
           /\ \A j \in DOMAIN d.keys :
                 /\ e.keys[j].flow = d.keys[j].flow
                 /\ e.keys[j].live <=> d.keys[j].live /\ d.keys[j].flow \notin gone
           /\ e.routes = {r \in d.routes : d.contracts[r[1]].flow \notin gone}
           /\ \A f \in Flows \ gone : e.flow[f] = d.flow[f]
           /\ \A f \in gone :
                 /\ e.flow[f].known = d.flow[f].known /\ e.flow[f].owner = d.flow[f].owner
                 /\ e.flow[f].removed /\ ~e.flow[f].active /\ e.flow[f].bound = None
<1> DEFINE cs == [i \in DOMAIN d.contracts |-> IF d.contracts[i].flow \in gone
                     THEN [d.contracts[i] EXCEPT !.active = FALSE] ELSE d.contracts[i]]
           ks == [j \in DOMAIN d.keys |-> IF d.keys[j].flow \in gone
                     THEN [d.keys[j] EXCEPT !.live = FALSE] ELSE d.keys[j]]
           rs == {r \in d.routes : d.contracts[r[1]].flow \notin gone}
           fs == [f \in Flows |-> IF f \notin gone THEN d.flow[f]
                     ELSE [d.flow[f] EXCEPT !.active = FALSE, !.bound = None, !.removed = TRUE]]
<1>1. e = [d EXCEPT !.contracts = cs, !.routes = rs, !.keys = ks, !.flow = fs]
  BY DEF RemoveFlows, Left, Tables
<1>3. ASSUME NEW i \in DOMAIN d.contracts
      PROVE  /\ cs[i] \in ContractTyped
             /\ cs[i].flow = d.contracts[i].flow
             /\ cs[i].at = d.contracts[i].at
             /\ cs[i].active <=> d.contracts[i].active /\ d.contracts[i].flow \notin gone
  <2>1. d.contracts[i] \in ContractTyped
    BY DEF Tables
  <2> QED BY <2>1 DEF ContractTyped
<1>4. ASSUME NEW j \in DOMAIN d.keys
      PROVE  /\ ks[j] \in KeyRow
             /\ ks[j].flow = d.keys[j].flow
             /\ ks[j].live <=> d.keys[j].live /\ d.keys[j].flow \notin gone
  <2>1. d.keys[j] \in KeyRow
    BY DEF Tables
  <2> QED BY <2>1 DEF KeyRow
<1>5. ASSUME NEW f \in Flows
      PROVE  /\ fs[f] \in FlowRow
             /\ f \notin gone => fs[f] = d.flow[f]
             /\ f \in gone =>
                   /\ fs[f].known = d.flow[f].known /\ fs[f].owner = d.flow[f].owner
                   /\ fs[f].removed /\ ~fs[f].active /\ fs[f].bound = None
  <2>1. d.flow[f] \in FlowRow
    BY DEF Tables
  <2> QED BY <2>1 DEF FlowRow
<1>6. cs \in Seq(ContractTyped) /\ DOMAIN cs = DOMAIN d.contracts
  <2>1. d.contracts \in Seq(ContractTyped)
    BY DEF Tables
  <2>2. DOMAIN cs = DOMAIN d.contracts /\ cs = [i \in DOMAIN d.contracts |-> cs[i]]
    OBVIOUS
  <2>3. \A i \in DOMAIN d.contracts : cs[i] \in ContractTyped
    BY <1>3
  <2> HIDE DEF cs
  <2> QED BY <2>1, <2>2, <2>3, MappedRows
<1>7. ks \in Seq(KeyRow) /\ DOMAIN ks = DOMAIN d.keys
  <2>1. d.keys \in Seq(KeyRow)
    BY DEF Tables
  <2>2. DOMAIN ks = DOMAIN d.keys /\ ks = [i \in DOMAIN d.keys |-> ks[i]]
    OBVIOUS
  <2>3. \A i \in DOMAIN d.keys : ks[i] \in KeyRow
    BY <1>4
  <2> HIDE DEF ks
  <2> QED BY <2>1, <2>2, <2>3, MappedRows
<1>8. fs \in [Flows -> FlowRow] /\ gone \subseteq Flows
  BY <1>5 DEF Left
<1>9. rs \in SUBSET (Nat \X Nat)
  BY DEF Tables
<1> HIDE DEF cs, ks, fs, rs
<1>10. e \in Tables
  BY <1>1, <1>6, <1>7, <1>8, <1>9 DEF Tables
<1>11. /\ e.client = d.client /\ e.channels = d.channels /\ e.stated = d.stated
       /\ e.contracts = cs /\ e.keys = ks /\ e.routes = rs /\ e.flow = fs
  BY <1>1 DEF Tables
<1> QED BY <1>3, <1>4, <1>5, <1>6, <1>7, <1>8, <1>10, <1>11 DEF rs

-----------------------------------------------------------------------------
(* Soundness                                                               *)

\* Nothing of a workflow is switched on between d and e unless it is free.
Within(d, e, R) ==
    /\ e \in Tables
    /\ e.client = d.client
    /\ DOMAIN d.contracts \subseteq DOMAIN e.contracts
    /\ \A i \in DOMAIN d.contracts :
          /\ e.contracts[i].flow = d.contracts[i].flow
          /\ e.contracts[i].active => d.contracts[i].active \/ Free(d, R, d.contracts[i].flow)
    /\ \A i \in DOMAIN e.contracts \ DOMAIN d.contracts :
          ~e.contracts[i].active /\ e.flow[e.contracts[i].flow].known
    /\ DOMAIN d.keys \subseteq DOMAIN e.keys
    /\ \A j \in DOMAIN d.keys :
          /\ e.keys[j].flow = d.keys[j].flow
          /\ e.keys[j].live => d.keys[j].live \/ Free(d, R, d.keys[j].flow)
    /\ \A j \in DOMAIN e.keys \ DOMAIN d.keys : e.keys[j].live => Free(d, R, e.keys[j].flow)
    /\ DOMAIN d.channels \subseteq DOMAIN e.channels
    /\ \A r \in e.routes \ d.routes :
          /\ r[1] \in DOMAIN e.contracts /\ r[2] \in DOMAIN e.channels
          /\ Free(d, R, e.contracts[r[1]].flow)
    /\ \A f \in Flows :
          /\ e.flow[f].known = d.flow[f].known
          /\ e.flow[f].owner = d.flow[f].owner
          /\ e.flow[f].removed = d.flow[f].removed
          /\ e.flow[f].bound \in {d.flow[f].bound, None} \/ Free(d, R, f)
          /\ d.flow[f] = NoFlow => e.flow[f] = NoFlow

\* A change that switches on free workflows only keeps the tables sound.
LEMMA WithinSound ==
    ASSUME NEW d, NEW R, Sound(d, R), NEW e, Within(d, e, R)
    PROVE  Sound(e, R)
<1>1. RoutesLead(e)
  BY DEF Sound, RoutesLead, Within
<1>2. UnknownBlank(e)
  BY DEF Sound, UnknownBlank, Within
<1>3. RemovedQuiet(e, R)
  <2> SUFFICES ASSUME NEW f \in Flows, e.flow[f].removed, f \notin R
               PROVE  Quiet(e, f)
    BY DEF RemovedQuiet
  <2>1. Quiet(d, f) /\ ~Free(d, R, f)
    BY DEF Sound, RemovedQuiet, Within, Free
  <2>2. \A i \in DOMAIN e.contracts : e.contracts[i].flow = f => ~e.contracts[i].active
    BY <2>1 DEF Quiet, Within
  <2>3. \A i \in DOMAIN e.contracts : e.contracts[i].flow = f =>
            \A ch \in DOMAIN e.channels : <<i, ch>> \notin e.routes
    <3> SUFFICES ASSUME NEW i \in DOMAIN e.contracts, e.contracts[i].flow = f,
                        NEW ch \in DOMAIN e.channels, <<i, ch>> \in e.routes
                 PROVE  FALSE
      OBVIOUS
    <3>1. <<i, ch>> \in d.routes
      BY <2>1 DEF Within
    <3>2. i \in DOMAIN d.contracts /\ ch \in DOMAIN d.channels
      BY <3>1 DEF Sound, RoutesLead
    <3> QED BY <2>1, <3>1, <3>2 DEF Quiet, Within
  <2>4. \A j \in DOMAIN e.keys : e.keys[j].flow = f => ~e.keys[j].live
    BY <2>1 DEF Quiet, Within
  <2>5. e.flow[f].bound = None
    BY <2>1 DEF Quiet, Within
  <2> QED BY <2>2, <2>3, <2>4, <2>5 DEF Quiet
<1>4. ArchivedRemoved(e, R)
  BY DEF Sound, ArchivedRemoved, Within
<1>7. ContractsKnown(e)
  <2>1. /\ \A i \in DOMAIN d.contracts : d.contracts[i].flow \in Flows
        /\ \A i \in DOMAIN e.contracts : e.contracts[i].flow \in Flows
    BY ContractFlow DEF Sound, Within
  <2> QED BY <2>1 DEF Sound, ContractsKnown, Within
<1> QED BY <1>7, <1>1, <1>2, <1>3, <1>4 DEF Sound, Within

\* A change that concerns no workflow is such a change.
LEMMA AsideWithin ==
    ASSUME NEW d, NEW e, NEW R, Aside(d, e)
    PROVE  Within(d, e, R)
BY DEF Aside, Within

\* Tables are sound for more revived workflows too.
LEMMA MoreRevived ==
    ASSUME NEW d, NEW R, NEW Q, R \subseteq Q, Sound(d, R)
    PROVE  Sound(d, Q)
BY DEF Sound, RemovedQuiet, ArchivedRemoved

\* A new contract switches nothing on,
LEMMA AddContractWithin ==
    ASSUME NEW d \in Tables, NEW f \in Flows, d.flow[f].known, NEW s \in Setups, NEW R,
           NEW e, e = AddContract(d, f, s)
    PROVE  Within(d, e, R)
BY AddContractDoes DEF Within

\* nor does another set-up.
LEMMA SetSetupWithin ==
    ASSUME NEW d \in Tables, NEW i \in DOMAIN d.contracts, NEW s \in Setups, NEW R,
           NEW e, e = SetSetup(d, i, s)
    PROVE  Within(d, e, R)
BY SetSetupDoes DEF Within

\* An activation of a contract needs a free workflow.
LEMMA ActivateContractWithin ==
    ASSUME NEW d \in Tables, NEW i \in DOMAIN d.contracts, NEW n \in Nat, NEW R,
           Free(d, R, d.contracts[i].flow),
           NEW e, e = ActivateContract(d, i, n)
    PROVE  Within(d, e, R)
<1>1. /\ e \in Tables
      /\ e.client = d.client /\ e.flow = d.flow /\ e.keys = d.keys
      /\ e.channels = d.channels /\ e.routes = d.routes
      /\ DOMAIN e.contracts = DOMAIN d.contracts
      /\ \A j \in DOMAIN d.contracts : j # i => e.contracts[j] = d.contracts[j]
      /\ e.contracts[i].flow = d.contracts[i].flow
  BY ActivateContractDoes
<1> QED BY <1>1 DEF Within

\* Switching a contract off needs nothing,
LEMMA DeactivateWithin ==
    ASSUME NEW d \in Tables, NEW i \in DOMAIN d.contracts, NEW R,
           NEW e, e = Deactivated(d, i)
    PROVE  Within(d, e, R)
BY DeactivateDoes DEF Within

\* nor does a revocation.
LEMMA RevokeKeyWithin ==
    ASSUME NEW d \in Tables, NEW j \in DOMAIN d.keys, NEW R,
           NEW e, e = RevokeKey(d, j)
    PROVE  Within(d, e, R)
<1>1. /\ e \in Tables
      /\ e.client = d.client /\ e.flow = d.flow /\ e.contracts = d.contracts
      /\ e.channels = d.channels /\ e.routes = d.routes
      /\ DOMAIN e.keys = DOMAIN d.keys
      /\ \A i \in DOMAIN d.keys : i # j => e.keys[i] = d.keys[i]
      /\ e.keys[j].flow = d.keys[j].flow /\ ~e.keys[j].live
  BY RevokeKeyDoes
<1> QED BY <1>1 DEF Within

\* A key needs a free workflow,
LEMMA AddKeyWithin ==
    ASSUME NEW d \in Tables, NEW f \in Flows, NEW R, Free(d, R, f),
           NEW e, e = AddKey(d, f)
    PROVE  Within(d, e, R)
BY AddKeyDoes DEF Within

\* a binding too.
LEMMA BindFlowWithin ==
    ASSUME NEW d \in Tables, NEW f \in Flows, d.flow[f].known, NEW k \in Connectors, NEW R,
           Free(d, R, f),
           NEW e, e = BindFlow(d, f, k)
    PROVE  Within(d, e, R)
BY BindFlowDoes DEF Within, NoFlow

\* An activation of a workflow alone switches on nothing that reports or
\* alerts.
LEMMA ActivateFlowWithin ==
    ASSUME NEW d \in Tables, NEW f \in Flows, d.flow[f].known, NEW m \in Methods, NEW R,
           NEW e, e = ActivateFlow(d, f, m)
    PROVE  Within(d, e, R)
BY ActivateFlowDoes DEF Within, NoFlow

\* A route needs a free workflow.
LEMMA AddRouteWithin ==
    ASSUME NEW d \in Tables, NEW i \in DOMAIN d.contracts, NEW ch \in DOMAIN d.channels,
           NEW R, Free(d, R, d.contracts[i].flow),
           NEW e, e = AddRoute(d, i, ch)
    PROVE  Within(d, e, R)
BY AddRouteDoes DEF Within

\* A dropped connector switches nothing on.
LEMMA DropConnectorWithin ==
    ASSUME NEW d \in Tables, NEW k \in Connectors, NEW R,
           NEW e, e = DropConnector(d, k)
    PROVE  Within(d, e, R)
BY DropConnectorDoes DEF Within

\* A new workflow is sound unless its client is archived.
LEMMA AddFlowSound ==
    ASSUME NEW d, NEW R, Sound(d, R), NEW f \in Flows, ~d.flow[f].known,
           NEW c \in Clients \cup {None}, NEW m \in Methods,
           c = None \/ d.client[c] # "archived" \/ f \in R,
           NEW e, e = AddFlow(d, f, c, m)
    PROVE  Sound(e, R)
<1>0. d \in Tables
  BY DEF Sound
<1>1. /\ e \in Tables
      /\ e.client = d.client /\ e.contracts = d.contracts /\ e.keys = d.keys
      /\ e.channels = d.channels /\ e.routes = d.routes
      /\ \A g \in Flows : g # f => e.flow[g] = d.flow[g]
  BY <1>0, AddFlowDoes
<1>2. e.flow[f].known /\ ~e.flow[f].removed /\ e.flow[f].owner = c
  BY <1>0, AddFlowDoes
<1>3. RoutesLead(e)
  BY <1>1 DEF Sound, RoutesLead
<1>4. UnknownBlank(e)
  BY <1>1, <1>2 DEF Sound, UnknownBlank
<1>5. ContractsKnown(e)
  <2>1. \A i \in DOMAIN d.contracts : d.contracts[i].flow \in Flows
    BY <1>0, ContractFlow
  <2> QED BY <1>1, <1>2, <2>1 DEF Sound, ContractsKnown
<1>6. RemovedQuiet(e, R)
  BY <1>1, <1>2 DEF Sound, RemovedQuiet, Quiet
<1>7. ArchivedRemoved(e, R)
  BY <1>1, <1>2, FleetAssumption DEF Sound, ArchivedRemoved
<1> QED BY <1>1, <1>3, <1>4, <1>5, <1>6, <1>7 DEF Sound

\* After a removal the workflows are quiet, those revived before included.
LEMMA RemoveFlowsSound ==
    ASSUME NEW d, NEW R, Sound(d, R), NEW S \in SUBSET Flows, \A f \in S : d.flow[f].known,
           NEW e, e = RemoveFlows(d, S), NEW gone, gone = Left(d, S)
    PROVE  Sound(e, R \ gone)
<1>1. d \in Tables
  BY DEF Sound
<1>2. \A f \in gone : f \in Flows /\ d.flow[f].known
  BY DEF Left
<1>3. RoutesLead(e)
  BY <1>1, RemoveFlowsDoes DEF Sound, RoutesLead
<1>4. UnknownBlank(e)
  BY <1>1, <1>2, RemoveFlowsDoes DEF Sound, UnknownBlank
<1>5. RemovedQuiet(e, R \ gone)
  <2> SUFFICES ASSUME NEW f \in Flows, e.flow[f].removed, f \notin R \ gone
               PROVE  Quiet(e, f)
    BY DEF RemovedQuiet
  <2>1. CASE f \in gone
    BY <1>1, <2>1, RemoveFlowsDoes DEF Quiet
  <2>2. CASE f \notin gone
    BY <1>1, <2>2, RemoveFlowsDoes DEF Sound, RemovedQuiet, Quiet
  <2> QED BY <2>1, <2>2
<1>6. ArchivedRemoved(e, R \ gone)
  BY <1>1, RemoveFlowsDoes DEF Sound, ArchivedRemoved
<1>7. ContractsKnown(e)
  <2>1. \A i \in DOMAIN d.contracts : d.contracts[i].flow \in Flows
    BY ContractFlow DEF Sound
  <2> QED BY <1>1, <2>1, RemoveFlowsDoes DEF Sound, ContractsKnown
<1> QED BY <1>7, <1>1, <1>3, <1>4, <1>5, <1>6, RemoveFlowsDoes DEF Sound

\* A client may be archived once its workflows are removed,
LEMMA SetClientSound ==
    ASSUME NEW d, NEW R, Sound(d, R), NEW c \in Clients,
           NEW s \in Standings,
           s = "archived" =>
               \A f \in Flows : d.flow[f].owner = c /\ f \notin R => d.flow[f].removed,
           NEW e, e = SetClient(d, c, s)
    PROVE  Sound(e, R)
<1>1. /\ e \in Tables
      /\ e.flow = d.flow /\ e.contracts = d.contracts /\ e.keys = d.keys
      /\ e.channels = d.channels /\ e.routes = d.routes
      /\ e.client[c] = s /\ \A b \in Clients : b # c => e.client[b] = d.client[b]
  <2>1. d \in Tables
    BY DEF Sound
  <2> QED BY <2>1, SetClientDoes
<1>2. RoutesLead(e)
  BY <1>1 DEF Sound, RoutesLead
<1>3. UnknownBlank(e)
  BY <1>1 DEF Sound, UnknownBlank
<1>4. RemovedQuiet(e, R)
  BY <1>1 DEF Sound, RemovedQuiet, Quiet
<1>5. ArchivedRemoved(e, R)
  BY <1>1 DEF Sound, ArchivedRemoved
<1>7. ContractsKnown(e)
  BY <1>1 DEF Sound, ContractsKnown
<1> QED BY <1>7, <1>1, <1>2, <1>3, <1>4, <1>5 DEF Sound

\* The workflows on record of client c.
Belongings(d, c) == {f \in Flows : d.flow[f].known /\ d.flow[f].owner = c}

\* as the archive does in the same transaction.
LEMMA ArchiveClientSound ==
    ASSUME NEW d, NEW R, Sound(d, R), NEW c \in Clients,
           NEW gone, gone = Left(d, Belongings(d, c))
    PROVE  Sound(ArchiveClient(d, c), R \ gone)
<1> DEFINE e == RemoveFlows(d, Belongings(d, c))
<1>1. d \in Tables /\ Belongings(d, c) \in SUBSET Flows
  BY DEF Sound, Belongings
<1>2. Sound(e, R \ gone)
  BY <1>1, RemoveFlowsSound DEF Belongings
<1>3. /\ \A f \in Flows \ gone : e.flow[f] = d.flow[f]
      /\ \A f \in gone : e.flow[f].removed
  BY <1>1, RemoveFlowsDoes
<1>4. ASSUME NEW f \in Flows, e.flow[f].owner = c PROVE e.flow[f].removed
  <2>1. CASE f \in gone
    BY <1>3, <2>1
  <2>2. CASE f \notin gone
    <3>1. e.flow[f] = d.flow[f]
      BY <1>3, <2>2
    <3>2. d.flow[f].known
      BY <1>4, <3>1, FleetAssumption DEF Sound, UnknownBlank, NoFlow
    <3> QED BY <1>4, <2>2, <3>1, <3>2 DEF Left, Belongings
  <2> QED BY <2>1, <2>2
<1>5. ArchiveClient(d, c) = SetClient(e, c, "archived")
  BY DEF ArchiveClient, Belongings
<1>6. "archived" \in Standings
  BY DEF Standings
<1> HIDE DEF e
<1> QED BY <1>2, <1>4, <1>5, <1>6, SetClientSound

-----------------------------------------------------------------------------
(* The steps                                                               *)

Inv == Sound(db, revived) /\ revived \subseteq Flows /\ calls \in Nat

\* The workflow an unguarded page touches counts as revived.
LEMMA TouchFrees ==
    ASSUME NEW f \in Flows, NEW c, Touch(f, c)
    PROVE  /\ revived \subseteq revived' /\ revived' \subseteq revived \cup {f}
           /\ Free(db, revived', f)
BY DEF Touch, TakenUp, Free

\* Of the revived workflows those that a removal of client c leaves are kept.
LEMMA RevivedAfterRemoval ==
    ASSUME NEW R, Sound(db, R), R \subseteq Flows, NEW c \in Clients
    PROVE  {f \in R : db.flow[f].removed \/ db.flow[f].owner # c}
               = R \ Left(db, Belongings(db, c))
<1>1. ASSUME NEW f \in R, db.flow[f].owner = c PROVE db.flow[f].known
  BY <1>1, FleetAssumption DEF Sound, UnknownBlank, NoFlow
<1> QED BY <1>1 DEF Left, Belongings

\* Every page of the fleet keeps the invariant,
LEMMA FleetStepInv ==
    ASSUME Inv, FleetStep
    PROVE  Inv'
<1> USE DEF Inv
<1>0. db \in Tables
  BY DEF Sound
<1>1. ASSUME NEW f \in Flows, NEW m \in Methods, RegisterWorkflow(f, m) PROVE Inv'
  BY <1>1, AddFlowSound DEF RegisterWorkflow, Request
<1>2. ASSUME NEW f \in Flows, DeleteWorkflow(f) PROVE Inv'
  <2>1. {f} \in SUBSET Flows /\ \A g \in {f} : db.flow[g].known
    BY <1>2 DEF DeleteWorkflow
  <2>2. revived' = revived \ Left(db, {f})
    BY <1>2 DEF DeleteWorkflow, Left
  <2>3. db' = RemoveFlows(db, {f})
    BY <1>2 DEF DeleteWorkflow
  <2>4. Sound(db', revived')
    BY <2>1, <2>2, <2>3, RemoveFlowsSound
  <2> QED BY <1>2, <2>2, <2>4 DEF DeleteWorkflow, Request
<1>3. ASSUME NEW f \in Flows, IssueKey(f) PROVE Inv'
  <2>1. Sound(db, revived') /\ Free(db, revived', f) /\ revived' \subseteq Flows
    BY <1>3, TouchFrees, MoreRevived DEF IssueKey
  <2>2. Within(db, db', revived')
    BY <1>0, <1>3, <2>1, AddKeyWithin DEF IssueKey
  <2> QED BY <1>3, <2>1, <2>2, WithinSound DEF IssueKey, Request
<1>4. ASSUME NEW f \in Flows, NEW k \in Connectors, BindConnector(f, k) PROVE Inv'
  <2>1. Sound(db, revived') /\ Free(db, revived', f) /\ revived' \subseteq Flows
    BY <1>4, TouchFrees, MoreRevived DEF BindConnector
  <2>2. Within(db, db', revived')
    BY <1>0, <1>4, <2>1, BindFlowWithin DEF BindConnector
  <2> QED BY <1>4, <2>1, <2>2, WithinSound DEF BindConnector, Request
<1>5. ASSUME NEW f \in Flows, NEW i \in Contracts(db), NEW s \in Setups, EditContract(f, i, s)
      PROVE  Inv'
  <2> DEFINE e == SetSetup(db, i, s)
  <2>1. Within(db, e, revived)
    BY <1>0, SetSetupWithin DEF Contracts
  <2>5. Sound(e, revived) /\ e \in Tables
    BY <2>1, WithinSound DEF Sound
  <2>2. \E n \in News : db' = [e EXCEPT !.news[f] = n]
    BY <1>0, <1>5, EditedNews
  <2> HIDE DEF e
  <2>4. Within(e, db', revived)
    BY <2>2, <2>5, OthersAside, AsideWithin
  <2> QED BY <1>5, <2>4, <2>5, WithinSound DEF EditContract, Request
<1>6. ASSUME NEW f \in Flows, NEW n \in Tidings, Observe(f, n) PROVE Inv'
  <2>1. n \in News
    BY FleetAssumption
  <2>2. Within(db, db', revived)
    BY <1>0, <1>6, <2>1, OthersAside, AsideWithin DEF Observe
  <2> QED BY <1>6, <2>2, WithinSound DEF Observe, Request
<1>7. ASSUME NEW j \in DOMAIN db.keys, RotateCredential(j) PROVE Inv'
  <2> DEFINE e == RevokeKey(db, j)
             f == db.keys[j].flow
  <2>1. Sound(e, revived) /\ e \in Tables /\ e.flow = db.flow
    BY <1>0, RevokeKeyDoes, RevokeKeyWithin, WithinSound
  <2>2. f \in Flows /\ Free(db, revived, f)
    <3>1. db.keys[j] \in KeyRow
      BY <1>0 DEF Tables
    <3>2. f \in Flows
      BY <3>1 DEF KeyRow
    <3> QED BY <1>7, <3>2 DEF Sound, RemovedQuiet, Quiet, Free, RotateCredential
  <2>3. db' = AddKey(e, f)
    BY <1>7 DEF RotateCredential, RotateKey
  <2>4. Free(e, revived, f)
    BY <2>1, <2>2 DEF Free
  <2> HIDE DEF e, f
  <2>5. Within(e, db', revived)
    BY <2>1, <2>2, <2>3, <2>4, AddKeyWithin
  <2> QED BY <1>7, <2>1, <2>5, WithinSound DEF RotateCredential, Request
<1>8. ASSUME NEW j \in DOMAIN db.keys, RevokeCredential(j) PROVE Inv'
  <2>1. Within(db, db', revived)
    BY <1>0, <1>8, RevokeKeyWithin DEF RevokeCredential
  <2> QED BY <1>8, <2>1, WithinSound DEF RevokeCredential, Request
<1>9. ASSUME NEW i \in Contracts(db), DeactivateContract(i) PROVE Inv'
  <2>1. Within(db, db', revived)
    BY <1>0, <1>9, DeactivateWithin DEF DeactivateContract, Deactivated, Contracts
  <2> QED BY <1>9, <2>1, WithinSound DEF DeactivateContract, Request
<1>10. ASSUME NEW i \in Contracts(db), NEW s \in Setups, EditCadence(i, s) PROVE Inv'
  <2>1. Within(db, db', revived)
    BY <1>0, <1>10, SetSetupWithin DEF EditCadence, Contracts
  <2> QED BY <1>10, <2>1, WithinSound DEF EditCadence, Request
<1>11. ASSUME CreateChannel PROVE Inv'
  <2>1. Within(db, db', revived)
    BY <1>0, <1>11, AddChannelAside, AsideWithin DEF CreateChannel
  <2> QED BY <1>11, <2>1, WithinSound DEF CreateChannel, Request
<1>12. ASSUME NEW ch \in DOMAIN db.channels, DisableChannel(ch) PROVE Inv'
  <2>1. Within(db, db', revived)
    BY <1>0, <1>12, ChannelAside, AsideWithin DEF DisableChannel
  <2> QED BY <1>12, <2>1, WithinSound DEF DisableChannel, Request
<1>13. ASSUME NEW ch \in DOMAIN db.channels, NEW h \in {"healthy", "degraded", "failing"},
              ChannelAnswers(ch, h)
       PROVE  Inv'
  <2>1. Within(db, db', revived)
    BY <1>0, <1>13, ChannelAside, AsideWithin DEF ChannelAnswers
  <2> QED BY <1>13, <2>1, WithinSound DEF ChannelAnswers, Request
<1>14. ASSUME NEW c \in Clients, RemoveClient(c) PROVE Inv'
  <2>1. revived' = revived \ Left(db, Belongings(db, c))
    BY <1>14, RevivedAfterRemoval DEF RemoveClient
  <2> QED BY <1>14, <2>1, ArchiveClientSound DEF RemoveClient, Request
<1>15. ASSUME NEW k \in Connectors, CreateConnector(k) PROVE Inv'
  <2>1. Within(db, db', revived)
    BY <1>0, <1>15, OthersAside, AsideWithin DEF CreateConnector
  <2> QED BY <1>15, <2>1, WithinSound DEF CreateConnector, Request
<1>16. ASSUME NEW k \in Connectors, DisableConnector(k) PROVE Inv'
  <2>1. Within(db, db', revived)
    BY <1>0, <1>16, OthersAside, AsideWithin DEF DisableConnector
  <2> QED BY <1>16, <2>1, WithinSound DEF DisableConnector, Request
<1>17. ASSUME NEW k \in Connectors, DeleteConnector(k) PROVE Inv'
  <2>1. Within(db, db', revived)
    BY <1>0, <1>17, DropConnectorWithin DEF DeleteConnector
  <2> QED BY <1>17, <2>1, WithinSound DEF DeleteConnector, Request
<1>18. ASSUME NEW k \in Connectors, NEW h \in {"healthy", "unreachable"}, ConnectorAnswers(k, h)
       PROVE  Inv'
  <2>1. Within(db, db', revived)
    BY <1>0, <1>18, OthersAside, AsideWithin DEF ConnectorAnswers
  <2> QED BY <1>18, <2>1, WithinSound DEF ConnectorAnswers, Request
<1> QED BY <1>1, <1>2, <1>3, <1>4, <1>5, <1>6, <1>7, <1>8, <1>9, <1>10, <1>11, <1>12, <1>13,
           <1>14, <1>15, <1>16, <1>17, <1>18 DEF FleetStep

\* and so does every step of the protection of a workflow.
LEMMA ProtectStepInv ==
    ASSUME Inv, ProtectStep
    PROVE  Inv'
<1> USE DEF Inv
<1>0. db \in Tables
  BY DEF Sound
<1>1. ASSUME NEW c \in Clients, ProtectClient(c) PROVE Inv'
  <2>1. "onboarding" \in Standings
    BY DEF Standings
  <2> QED BY <1>1, <2>1, SetClientSound DEF ProtectClient, Request
<1>2. ASSUME NEW f \in Flows, NEW c \in Clients, NEW m \in Methods, ProtectWorkflow(f, c, m)
      PROVE  Inv'
  <2>1. Sound(db, revived') /\ revived' \subseteq Flows
    BY <1>2, TouchFrees, MoreRevived DEF ProtectWorkflow
  <2>2. db.client[c] # "archived" \/ f \in revived'
    BY <1>2, FleetAssumption DEF ProtectWorkflow, Touch, TakenUp
  <2>3. db' = AddFlow(db, f, c, m) /\ ~db.flow[f].known
    BY <1>2 DEF ProtectWorkflow
  <2>4. Sound(db', revived')
    BY <2>1, <2>2, <2>3, AddFlowSound
  <2> QED BY <1>2, <2>1, <2>4 DEF ProtectWorkflow, Request
<1>3. ASSUME NEW f \in Flows, NEW s \in Setups, ProtectContract(f, s) PROVE Inv'
  <2>1. Within(db, db', revived)
    BY <1>0, <1>3, AddContractWithin DEF ProtectContract
  <2> QED BY <1>3, <2>1, WithinSound DEF ProtectContract, Request
<1>4. ASSUME NEW i \in Contracts(db), ProtectAlerts(i) PROVE Inv'
  <2> DEFINE e == AddChannel(db)
             f == db.contracts[i].flow
             ch == Len(db.channels) + 1
  <2>1. f \in Flows
    BY <1>0, ContractFlow DEF Contracts
  <2>2. Sound(db, revived') /\ Free(db, revived', f) /\ revived' \subseteq Flows
    BY <1>4, <2>1, TouchFrees, MoreRevived DEF ProtectAlerts
  <2>3. /\ Within(db, e, revived') /\ ch \in DOMAIN e.channels
        /\ e.contracts = db.contracts /\ e.flow = db.flow
    BY <1>0, AddChannelAside, AsideWithin DEF Aside
  <2>4. db' = AddRoute(e, i, ch) /\ i \in DOMAIN e.contracts
    BY <1>4, <2>3 DEF ProtectAlerts, Contracts
  <2>5. Free(e, revived', e.contracts[i].flow)
    BY <2>2, <2>3 DEF Free
  <2> HIDE DEF e, f, ch
  <2>6. Sound(e, revived') /\ e \in Tables
    BY <2>2, <2>3, WithinSound DEF Sound
  <2>7. Within(e, db', revived')
    BY <2>3, <2>4, <2>5, <2>6, AddRouteWithin
  <2> QED BY <1>4, <2>2, <2>6, <2>7, WithinSound DEF ProtectAlerts, Request
<1>5. ASSUME NEW i \in Contracts(db), NEW c \in Clients \cup {None}, NEW a \in BOOLEAN,
             ProtectActivate(i, c, a)
      PROVE  Inv'
  <2> DEFINE f == db.contracts[i].flow
             m == db.flow[f].method
             d1 == ActivateContract(db, i, calls')
             d2 == ActivateFlow(d1, f, m)
             d3 == Seed(d2, f)
  <2>1. f \in Flows /\ m \in Methods /\ calls' \in Nat
    BY <1>0, <1>5, ContractFlow, FlowMethod DEF Contracts, ProtectActivate, Request
  <2>2. Sound(db, revived') /\ Free(db, revived', f) /\ revived' \subseteq Flows
    BY <1>5, <2>1, TouchFrees, MoreRevived DEF ProtectActivate
  <2>3. db.flow[f].known
    BY DEF Sound, ContractsKnown, Contracts
  <2>4. db' = IF c = None THEN d3 ELSE SetClient(d3, c, "protected")
    BY <1>5 DEF ProtectActivate
  <2>5. Within(db, d1, revived') /\ d1.flow = db.flow
    BY <1>0, <2>1, <2>2, ActivateContractWithin, ActivateContractDoes DEF Contracts
  <2>6. "protected" \in Standings
    BY DEF Standings
  <2> HIDE DEF f, m, d1
  <2>7. Sound(d1, revived') /\ d1 \in Tables
    BY <2>2, <2>5, WithinSound DEF Sound
  <2>8. Within(d1, d2, revived')
    BY <2>1, <2>3, <2>5, <2>7, ActivateFlowWithin
  <2> HIDE DEF d2
  <2>9. Sound(d2, revived') /\ d2 \in Tables
    BY <2>7, <2>8, WithinSound DEF Sound
  <2>10. Within(d2, d3, revived')
    BY <2>1, <2>9, OthersAside, AsideWithin
  <2> HIDE DEF d3
  <2>11. Sound(d3, revived')
    BY <2>9, <2>10, WithinSound
  <2>12. Sound(db', revived')
    BY <2>4, <2>6, <2>11, SetClientSound
  <2> QED BY <1>5, <2>1, <2>2, <2>12
<1> QED BY <1>1, <1>2, <1>3, <1>4, <1>5 DEF ProtectStep

\* Nothing observed is something that may be observed.
LEMMA NoNewsTyped == NoNews \in News
BY DEF NoNews, News

\* Empty tables satisfy it.
LEMMA FleetInit ==
    ASSUME InitFleet
    PROVE  Inv
<1>1. /\ db.client = [c \in Clients |-> "none"]
      /\ db.flow = [f \in Flows |-> NoFlow]
      /\ db.contracts = <<>> /\ db.keys = <<>> /\ db.channels = <<>>
      /\ db.routes = {} /\ db.stated = {} /\ db.news = [f \in Flows |-> NoNews]
      /\ db.connector \in [Connectors -> ConnectorRow]
      /\ db = [client |-> db.client, flow |-> db.flow, contracts |-> db.contracts,
               keys |-> db.keys, channels |-> db.channels, routes |-> db.routes,
               connector |-> db.connector, stated |-> db.stated, news |-> db.news]
  BY DEF InitFleet, ConnectorRow
<1>2. NoFlow \in FlowRow
  BY DEF NoFlow, FlowRow, Methods
<1>3. db \in Tables
  <2>1. /\ db.client \in [Clients -> Standings] /\ db.flow \in [Flows -> FlowRow]
        /\ db.contracts \in Seq(ContractTyped) /\ db.keys \in Seq(KeyRow)
        /\ db.channels \in Seq(ChannelRow) /\ db.routes \in SUBSET (Nat \X Nat)
        /\ db.stated \in SUBSET Flows /\ db.news \in [Flows -> News]
    BY <1>1, <1>2, NoNewsTyped DEF Standings
  <2> QED BY <1>1, <2>1 DEF Tables
<1>4. RoutesLead(db) /\ UnknownBlank(db) /\ ContractsKnown(db)
  BY <1>1 DEF RoutesLead, UnknownBlank, ContractsKnown
<1>5. RemovedQuiet(db, revived) /\ ArchivedRemoved(db, revived)
  BY <1>1 DEF RemovedQuiet, ArchivedRemoved, NoFlow
<1>6. revived = {} /\ calls = 0
  BY DEF InitFleet
<1> QED BY <1>3, <1>4, <1>5, <1>6 DEF Inv, Sound

\* The tables stay sound, whatever the pages do.
LEMMA FleetInv == FleetSpec => []Inv
<1>1. InitFleet => Inv
  BY FleetInit
<1>2. Inv /\ [FleetNext]_fleetVars => Inv'
  BY FleetStepInv, ProtectStepInv DEF FleetNext, fleetVars, Inv
<1> QED BY <1>1, <1>2, PTL DEF FleetSpec

\* A removed workflow has no live key, contract, binding or route, unless a
\* request that was under way has taken it up again.
THEOREM RemovedStaysQuiet == FleetSpec => []QuietOnceRemoved
<1>1. Inv => QuietOnceRemoved
  BY DEF Inv, Sound, RemovedQuiet, Quiet, QuietOnceRemoved, Watched, ActiveOf, ContractsOf,
         Contracts, LiveKeys, KeysOf, RoutesOf
<1> QED BY <1>1, FleetInv, PTL

-----------------------------------------------------------------------------
(* Whom the tables show in watch and heard                                 *)

OnWatch(d) == {f \in Flows : Watched(d, f)}
Heard(d) == {f \in Flows : LiveKeys(d, f) # {}}
Removed(d) == {f \in Flows : d.flow[f].removed}

\* A workflow is watched when it is active and has an active contract.
LEMMA WatchedIs ==
    ASSUME NEW d, NEW f
    PROVE  Watched(d, f) <=> /\ d.flow[f].active
                             /\ \E i \in DOMAIN d.contracts : /\ d.contracts[i].flow = f
                                                              /\ d.contracts[i].active
BY DEF Watched, ActiveOf, ContractsOf, Contracts

\* It is heard when it has a live key.
LEMMA HeardIs ==
    ASSUME NEW d, NEW f
    PROVE  LiveKeys(d, f) # {} <=> \E j \in DOMAIN d.keys : d.keys[j].flow = f /\ d.keys[j].live
BY DEF LiveKeys, KeysOf

\* A statement that changes whom the tables show in no way.
SameView(d, e) ==
    /\ \A f \in Flows : Watched(e, f) <=> Watched(d, f)
    /\ \A f \in Flows : LiveKeys(e, f) # {} <=> LiveKeys(d, f) # {}
    /\ \A f \in Flows : e.flow[f].removed <=> d.flow[f].removed

\* Tables that agree on what is active, live and removed show the same
\* roster.
LEMMA SameRows ==
    ASSUME NEW d, NEW e,
           DOMAIN d.contracts \subseteq DOMAIN e.contracts,
           \A i \in DOMAIN d.contracts :
               /\ e.contracts[i].flow = d.contracts[i].flow
               /\ e.contracts[i].active <=> d.contracts[i].active,
           \A i \in DOMAIN e.contracts \ DOMAIN d.contracts : ~e.contracts[i].active,
           e.keys = d.keys,
           \A f \in Flows : /\ e.flow[f].active <=> d.flow[f].active
                            /\ e.flow[f].removed <=> d.flow[f].removed
    PROVE  SameView(d, e)
<1>1. \A f \in Flows : Watched(e, f) <=> Watched(d, f)
  BY WatchedIs
<1>2. \A f \in Flows : LiveKeys(e, f) # {} <=> LiveKeys(d, f) # {}
  BY HeardIs
<1> QED BY <1>1, <1>2 DEF SameView

\* These statements do not show in the roster,
LEMMA QuietStatements ==
    ASSUME NEW d \in Tables
    PROVE  /\ \A f \in Flows, s \in Setups : SameView(d, AddContract(d, f, s))
           /\ \A i \in DOMAIN d.contracts, s \in Setups : SameView(d, SetSetup(d, i, s))
           /\ \A f \in Flows, k \in Connectors : SameView(d, BindFlow(d, f, k))
           /\ \A k \in Connectors : SameView(d, DropConnector(d, k))
           /\ \A c \in Clients, s \in Standings : SameView(d, SetClient(d, c, s))
           /\ \A i \in DOMAIN d.contracts, ch \in DOMAIN d.channels :
                 SameView(d, AddRoute(d, i, ch))
           /\ \A e : Aside(d, e) => SameView(d, e)
<1>1. ASSUME NEW f \in Flows, NEW s \in Setups PROVE SameView(d, AddContract(d, f, s))
  BY AddContractDoes, SameRows
<1>2. ASSUME NEW i \in DOMAIN d.contracts, NEW s \in Setups PROVE SameView(d, SetSetup(d, i, s))
  BY SetSetupDoes, SameRows
<1>3. ASSUME NEW f \in Flows, NEW k \in Connectors PROVE SameView(d, BindFlow(d, f, k))
  BY BindFlowDoes, SameRows
<1>4. ASSUME NEW k \in Connectors PROVE SameView(d, DropConnector(d, k))
  BY DropConnectorDoes, SameRows
<1>5. ASSUME NEW c \in Clients, NEW s \in Standings PROVE SameView(d, SetClient(d, c, s))
  BY SetClientDoes, SameRows
<1>6. ASSUME NEW i \in DOMAIN d.contracts, NEW ch \in DOMAIN d.channels
      PROVE  SameView(d, AddRoute(d, i, ch))
  BY AddRouteDoes, SameRows
<1>7. ASSUME NEW e, Aside(d, e) PROVE SameView(d, e)
  BY <1>7, SameRows DEF Aside
<1> QED BY <1>1, <1>2, <1>3, <1>4, <1>5, <1>6, <1>7

\* nor does a new workflow.
LEMMA AddFlowView ==
    ASSUME NEW d \in Tables, UnknownBlank(d), NEW f \in Flows, ~d.flow[f].known,
           NEW c \in Clients \cup {None}, NEW m \in Methods, NEW e, e = AddFlow(d, f, c, m)
    PROVE  SameView(d, e)
<1>1. ~d.flow[f].active /\ ~d.flow[f].removed
  BY DEF UnknownBlank, NoFlow
<1>2. /\ e.contracts = d.contracts /\ e.keys = d.keys
      /\ \A g \in Flows : g # f => e.flow[g] = d.flow[g]
      /\ ~e.flow[f].active /\ ~e.flow[f].removed
  BY AddFlowDoes
<1> QED BY <1>1, <1>2, SameRows

\* An activation puts the workflow on watch,
LEMMA ActivationView ==
    ASSUME NEW d \in Tables, NEW i \in DOMAIN d.contracts, NEW n \in Nat,
           NEW f, f = d.contracts[i].flow, NEW m \in Methods,
           NEW e, e = ActivateFlow(ActivateContract(d, i, n), f, m)
    PROVE  /\ OnWatch(e) = OnWatch(d) \cup {f}
           /\ Heard(e) = Heard(d) /\ Removed(e) = Removed(d)
<1> DEFINE b == ActivateContract(d, i, n)
<1>1. f \in Flows
  BY ContractFlow
<1>2. /\ b \in Tables /\ b.flow = d.flow /\ b.keys = d.keys
      /\ DOMAIN b.contracts = DOMAIN d.contracts
      /\ \A j \in DOMAIN d.contracts : j # i => b.contracts[j] = d.contracts[j]
      /\ b.contracts[i].flow = f /\ b.contracts[i].active
  BY ActivateContractDoes
<1>3. e = ActivateFlow(b, f, m)
  OBVIOUS
<1> HIDE DEF b
<1>4. /\ e.contracts = b.contracts /\ e.keys = b.keys
      /\ \A g \in Flows : g # f => e.flow[g] = b.flow[g]
      /\ e.flow[f].active /\ e.flow[f].removed = b.flow[f].removed
  BY <1>1, <1>2, <1>3, ActivateFlowDoes
<1>5. \A g \in Flows : Watched(e, g) <=> Watched(d, g) \/ g = f
  BY <1>2, <1>4, WatchedIs
<1>6. \A g \in Flows : LiveKeys(e, g) # {} <=> LiveKeys(d, g) # {}
  BY <1>2, <1>4, HeardIs
<1>7. \A g \in Flows : e.flow[g].removed <=> d.flow[g].removed
  BY <1>2, <1>4
<1> QED BY <1>1, <1>5, <1>6, <1>7 DEF OnWatch, Heard, Removed

\* and a new key makes it heard.
LEMMA AddKeyView ==
    ASSUME NEW d \in Tables, NEW f \in Flows, NEW e, e = AddKey(d, f)
    PROVE  /\ Heard(e) = Heard(d) \cup {f}
           /\ OnWatch(e) = OnWatch(d) /\ Removed(e) = Removed(d)
<1>1. /\ e.flow = d.flow /\ e.contracts = d.contracts
      /\ DOMAIN e.keys = DOMAIN d.keys \cup {Len(d.keys) + 1}
      /\ \A i \in DOMAIN d.keys : e.keys[i] = d.keys[i]
      /\ e.keys[Len(d.keys) + 1].live /\ e.keys[Len(d.keys) + 1].flow = f
  BY AddKeyDoes
<1>2. \A g \in Flows : Watched(e, g) <=> Watched(d, g)
  BY <1>1, WatchedIs
<1>3. ASSUME NEW g \in Flows PROVE LiveKeys(e, g) # {} <=> LiveKeys(d, g) # {} \/ g = f
  <2>1. LiveKeys(d, g) # {} => LiveKeys(e, g) # {}
    BY <1>1, HeardIs
  <2>2. LiveKeys(e, f) # {}
    BY <1>1, HeardIs
  <2>3. g # f /\ LiveKeys(e, g) # {} => LiveKeys(d, g) # {}
    BY <1>1, HeardIs
  <2> QED BY <2>1, <2>2, <2>3
<1> QED BY <1>1, <1>2, <1>3 DEF OnWatch, Heard, Removed

\* A revocation can only end that,
LEMMA RevokeKeyView ==
    ASSUME NEW d \in Tables, NEW j \in DOMAIN d.keys, NEW e, e = RevokeKey(d, j)
    PROVE  /\ Heard(e) \in {Heard(d), Heard(d) \ {d.keys[j].flow}}
           /\ OnWatch(e) = OnWatch(d) /\ Removed(e) = Removed(d)
<1>1. /\ e.flow = d.flow /\ e.contracts = d.contracts
      /\ DOMAIN e.keys = DOMAIN d.keys
      /\ \A i \in DOMAIN d.keys : i # j => e.keys[i] = d.keys[i]
      /\ e.keys[j].flow = d.keys[j].flow /\ ~e.keys[j].live
  BY RevokeKeyDoes
<1>2. \A g \in Flows : Watched(e, g) <=> Watched(d, g)
  BY <1>1, WatchedIs
<1>3. \A g \in Flows :
         /\ LiveKeys(e, g) # {} => LiveKeys(d, g) # {}
         /\ g # d.keys[j].flow => (LiveKeys(e, g) # {} <=> LiveKeys(d, g) # {})
  BY <1>1, HeardIs
<1> QED BY <1>1, <1>2, <1>3 DEF OnWatch, Heard, Removed

\* and a deactivation can only end the watch.
LEMMA DeactivateView ==
    ASSUME NEW d \in Tables, NEW i \in DOMAIN d.contracts, NEW e, e = Deactivated(d, i)
    PROVE  /\ OnWatch(e) \in {OnWatch(d), OnWatch(d) \ {d.contracts[i].flow}}
           /\ Heard(e) = Heard(d) /\ Removed(e) = Removed(d)
<1>1. /\ e.flow = d.flow /\ e.keys = d.keys
      /\ DOMAIN e.contracts = DOMAIN d.contracts
      /\ \A j \in DOMAIN d.contracts : j # i => e.contracts[j] = d.contracts[j]
      /\ e.contracts[i].flow = d.contracts[i].flow /\ ~e.contracts[i].active
  BY DeactivateDoes
<1>2. \A g \in Flows :
         /\ Watched(e, g) => Watched(d, g)
         /\ g # d.contracts[i].flow => (Watched(e, g) <=> Watched(d, g))
  BY <1>1, WatchedIs
<1>3. \A g \in Flows : LiveKeys(e, g) # {} <=> LiveKeys(d, g) # {}
  BY <1>1, HeardIs
<1> QED BY <1>1, <1>2, <1>3 DEF OnWatch, Heard, Removed

\* A removal takes workflows from the watch and from those heard.
LEMMA RemovalView ==
    ASSUME NEW d \in Tables, NEW S \in SUBSET Flows, NEW gone, gone = Left(d, S),
           NEW e, e = RemoveFlows(d, S)
    PROVE  /\ OnWatch(e) = OnWatch(d) \ gone
           /\ Heard(e) = Heard(d) \ gone
           /\ Removed(e) = Removed(d) \cup gone
<1>1. /\ DOMAIN e.contracts = DOMAIN d.contracts
      /\ \A i \in DOMAIN d.contracts :
            /\ e.contracts[i].flow = d.contracts[i].flow
            /\ e.contracts[i].active <=>
                   d.contracts[i].active /\ d.contracts[i].flow \notin gone
      /\ DOMAIN e.keys = DOMAIN d.keys
      /\ \A j \in DOMAIN d.keys :
            /\ e.keys[j].flow = d.keys[j].flow
            /\ e.keys[j].live <=> d.keys[j].live /\ d.keys[j].flow \notin gone
      /\ \A f \in Flows \ gone : e.flow[f] = d.flow[f]
      /\ \A f \in gone : e.flow[f].removed /\ ~e.flow[f].active
  BY RemoveFlowsDoes
<1>2. gone \subseteq Flows
  BY DEF Left
<1>3. \A f \in Flows : Watched(e, f) <=> Watched(d, f) /\ f \notin gone
  BY <1>1, WatchedIs
<1>4. \A f \in Flows : LiveKeys(e, f) # {} <=> LiveKeys(d, f) # {} /\ f \notin gone
  BY <1>1, HeardIs
<1> QED BY <1>1, <1>2, <1>3, <1>4 DEF OnWatch, Heard, Removed

-----------------------------------------------------------------------------
(* The pages implement Roster                                              *)

\* What a step does to the tables, in the words of Roster.
Shown == <<OnWatch(db), Heard(db), Removed(db) \ revived>>

\* What does not show is a stutter of the roster.
LEMMA ShownStutters ==
    ASSUME SameView(db, db'), revived' = revived
    PROVE  Shown' = Shown
BY DEF SameView, Shown, OnWatch, Heard, Removed

\* A touched workflow no longer counts as removed.
LEMMA ShownTouched ==
    ASSUME NEW f \in Flows, SameView(db, db'), Touch(f, None)
    PROVE  Shown' = <<OnWatch(db), Heard(db), (Removed(db) \ revived) \ {f}>>
BY DEF SameView, Shown, OnWatch, Heard, Removed, Touch, TakenUp

\* The moves the roster has: switching workflows on, removing them, and
\* ending one watch or key.
LEMMA RosterMoves ==
    ASSUME NEW S \in SUBSET Flows
    PROVE  /\ \A W, H \in SUBSET S :
                 Shown' = <<OnWatch(db) \cup W, Heard(db) \cup H, (Removed(db) \ revived) \ S>>
                     => AbsRoster!Next
           /\ Shown' = <<OnWatch(db) \ S, Heard(db) \ S, (Removed(db) \ revived) \cup S>>
                     => AbsRoster!Next
           /\ \A f \in Flows :
                 /\ Shown' = <<OnWatch(db) \ {f}, Heard(db), Removed(db) \ revived>>
                        => AbsRoster!Next
                 /\ Shown' = <<OnWatch(db), Heard(db) \ {f}, Removed(db) \ revived>>
                        => AbsRoster!Next
           /\ Shown' = Shown => UNCHANGED AbsRoster!vars
<1>1. ASSUME NEW W \in SUBSET S, NEW H \in SUBSET S,
             Shown' = <<OnWatch(db) \cup W, Heard(db) \cup H, (Removed(db) \ revived) \ S>>
      PROVE  AbsRoster!TakeUp(S, W, H)
  BY <1>1 DEF Shown, OnWatch, Heard, Removed, AbsRoster!TakeUp
<1>2. ASSUME Shown' = <<OnWatch(db) \ S, Heard(db) \ S, (Removed(db) \ revived) \cup S>>
      PROVE  AbsRoster!Remove(S)
  BY <1>2 DEF Shown, OnWatch, Heard, Removed, AbsRoster!Remove
<1>3. ASSUME NEW f \in Flows,
             Shown' = <<OnWatch(db) \ {f}, Heard(db), Removed(db) \ revived>>
      PROVE  AbsRoster!Leave(f)
  BY <1>3 DEF Shown, OnWatch, Heard, Removed, AbsRoster!Leave
<1>4. ASSUME NEW f \in Flows,
             Shown' = <<OnWatch(db), Heard(db) \ {f}, Removed(db) \ revived>>
      PROVE  AbsRoster!Silence(f)
  BY <1>4 DEF Shown, OnWatch, Heard, Removed, AbsRoster!Silence
<1>5. ASSUME Shown' = Shown PROVE UNCHANGED AbsRoster!vars
  BY <1>5 DEF Shown, OnWatch, Heard, Removed, AbsRoster!vars
<1> QED BY <1>1, <1>2, <1>3, <1>4, <1>5 DEF AbsRoster!Next

\* Taking a workflow up again is a move of the roster.
LEMMA TouchRoster ==
    ASSUME NEW f \in Flows, SameView(db, db'), Touch(f, None)
    PROVE  AbsRoster!Next
<1>1. Shown' = <<OnWatch(db) \cup {}, Heard(db) \cup {}, (Removed(db) \ revived) \ {f}>>
  BY ShownTouched
<1>2. {f} \in SUBSET Flows /\ {} \in SUBSET {f}
  OBVIOUS
<1> QED BY <1>1, <1>2, RosterMoves

RosterStep == AbsRoster!Next \/ UNCHANGED AbsRoster!vars

\* Every page of the fleet is a move of the roster, or does not show,
LEMMA FleetStepRoster ==
    ASSUME Inv, FleetStep
    PROVE  RosterStep
<1>0. db \in Tables /\ UnknownBlank(db) /\ revived \subseteq Flows
  BY DEF Inv, Sound
<1> SUFFICES ASSUME Shown' # Shown PROVE AbsRoster!Next
  BY RosterMoves DEF RosterStep
<1>1. ASSUME NEW f \in Flows, NEW m \in Methods, RegisterWorkflow(f, m) PROVE FALSE
  <2>1. SameView(db, db')
    BY <1>0, <1>1, AddFlowView DEF RegisterWorkflow
  <2> QED BY <1>1, <2>1, ShownStutters DEF RegisterWorkflow
<1>2. ASSUME NEW f \in Flows, DeleteWorkflow(f) PROVE AbsRoster!Next
  <2> DEFINE gone == Left(db, {f})
  <2>1. db' = RemoveFlows(db, {f}) /\ revived' = revived \ gone /\ {f} \in SUBSET Flows
    BY <1>2 DEF DeleteWorkflow, Left
  <2>2. /\ OnWatch(db') = OnWatch(db) \ gone /\ Heard(db') = Heard(db) \ gone
        /\ Removed(db') = Removed(db) \cup gone
    BY <1>0, <2>1, RemovalView
  <2>3. gone \in SUBSET Flows
    BY DEF Left
  <2> HIDE DEF gone
  <2>4. Shown' = <<OnWatch(db) \ gone, Heard(db) \ gone, (Removed(db) \ revived) \cup gone>>
    BY <2>1, <2>2 DEF Shown
  <2> QED BY <2>3, <2>4, RosterMoves
<1>3. ASSUME NEW f \in Flows, IssueKey(f) PROVE AbsRoster!Next
  <2>1. /\ Heard(db') = Heard(db) \cup {f}
        /\ OnWatch(db') = OnWatch(db) /\ Removed(db') = Removed(db)
    BY <1>0, <1>3, AddKeyView DEF IssueKey
  <2>2. Shown' = <<OnWatch(db) \cup {}, Heard(db) \cup {f}, (Removed(db) \ revived) \ {f}>>
    BY <1>3, <2>1 DEF Shown, IssueKey, Touch, TakenUp, Removed
  <2>3. {f} \in SUBSET Flows /\ {} \in SUBSET {f} /\ {f} \in SUBSET {f}
    OBVIOUS
  <2> QED BY <2>2, <2>3, RosterMoves
<1>4. ASSUME NEW f \in Flows, NEW k \in Connectors, BindConnector(f, k) PROVE AbsRoster!Next
  <2>1. SameView(db, db')
    BY <1>0, <1>4, QuietStatements DEF BindConnector
  <2> QED BY <1>4, <2>1, TouchRoster DEF BindConnector
<1>5. ASSUME NEW f \in Flows, NEW i \in Contracts(db), NEW s \in Setups, EditContract(f, i, s)
      PROVE  FALSE
  <2> DEFINE e == SetSetup(db, i, s)
  <2>1. SameView(db, e) /\ e \in Tables
    BY <1>0, QuietStatements, SetSetupDoes DEF Contracts
  <2>2. \E n \in News : db' = [e EXCEPT !.news[f] = n]
    BY <1>0, <1>5, EditedNews
  <2> HIDE DEF e
  <2>4. SameView(e, db')
    BY <2>1, <2>2, OthersAside, QuietStatements
  <2>5. SameView(db, db')
    BY <2>1, <2>4 DEF SameView
  <2> QED BY <1>5, <2>5, ShownStutters DEF EditContract
<1>6. ASSUME NEW f \in Flows, NEW n \in Tidings, Observe(f, n) PROVE FALSE
  <2>1. n \in News
    BY FleetAssumption
  <2>2. SameView(db, db')
    BY <1>0, <1>6, <2>1, OthersAside, QuietStatements DEF Observe
  <2> QED BY <1>6, <2>2, ShownStutters DEF Observe
<1>7. ASSUME NEW j \in DOMAIN db.keys, RotateCredential(j) PROVE FALSE
  <2> DEFINE e == RevokeKey(db, j)
             f == db.keys[j].flow
  <2>1. /\ Heard(e) \in {Heard(db), Heard(db) \ {f}}
        /\ OnWatch(e) = OnWatch(db) /\ Removed(e) = Removed(db)
        /\ e \in Tables
    BY <1>0, RevokeKeyView, RevokeKeyDoes
  <2>2. f \in Flows /\ f \in Heard(db)
    BY <1>0, <1>7, KeyFlow, HeardIs DEF Heard, RotateCredential
  <2>3. db' = AddKey(e, f) /\ revived' = revived
    BY <1>7 DEF RotateCredential, RotateKey
  <2> HIDE DEF e, f
  <2>4. /\ Heard(db') = Heard(e) \cup {f}
        /\ OnWatch(db') = OnWatch(e) /\ Removed(db') = Removed(e)
    BY <2>1, <2>2, <2>3, AddKeyView
  <2> QED BY <2>1, <2>2, <2>3, <2>4 DEF Shown
<1>8. ASSUME NEW j \in DOMAIN db.keys, RevokeCredential(j) PROVE AbsRoster!Next
  <2> DEFINE f == db.keys[j].flow
  <2>1. /\ Heard(db') \in {Heard(db), Heard(db) \ {f}}
        /\ OnWatch(db') = OnWatch(db) /\ Removed(db') = Removed(db)
        /\ f \in Flows /\ revived' = revived
    BY <1>0, <1>8, RevokeKeyView, KeyFlow DEF RevokeCredential
  <2> HIDE DEF f
  <2>2. Shown' = <<OnWatch(db), Heard(db) \ {f}, Removed(db) \ revived>>
    BY <2>1 DEF Shown
  <2> QED BY <2>1, <2>2, RosterMoves
<1>9. ASSUME NEW i \in Contracts(db), DeactivateContract(i) PROVE AbsRoster!Next
  <2> DEFINE f == db.contracts[i].flow
  <2>1. db' = Deactivated(db, i) /\ revived' = revived
    BY <1>9 DEF DeactivateContract, Deactivated
  <2>2. /\ OnWatch(db') \in {OnWatch(db), OnWatch(db) \ {f}}
        /\ Heard(db') = Heard(db) /\ Removed(db') = Removed(db)
        /\ f \in Flows
    BY <1>0, <2>1, DeactivateView, ContractFlow DEF Contracts
  <2> HIDE DEF f
  <2>3. Shown' = <<OnWatch(db) \ {f}, Heard(db), Removed(db) \ revived>>
    BY <2>1, <2>2 DEF Shown
  <2> QED BY <2>2, <2>3, RosterMoves
<1>10. ASSUME NEW i \in Contracts(db), NEW s \in Setups, EditCadence(i, s) PROVE FALSE
  <2>1. SameView(db, db')
    BY <1>0, <1>10, QuietStatements DEF EditCadence, Contracts
  <2> QED BY <1>10, <2>1, ShownStutters DEF EditCadence
<1>11. ASSUME CreateChannel PROVE FALSE
  <2>1. SameView(db, db')
    BY <1>0, <1>11, AddChannelAside, QuietStatements DEF CreateChannel
  <2> QED BY <1>11, <2>1, ShownStutters DEF CreateChannel
<1>12. ASSUME NEW ch \in DOMAIN db.channels, DisableChannel(ch) PROVE FALSE
  <2>1. SameView(db, db')
    BY <1>0, <1>12, ChannelAside, QuietStatements DEF DisableChannel
  <2> QED BY <1>12, <2>1, ShownStutters DEF DisableChannel
<1>13. ASSUME NEW ch \in DOMAIN db.channels, NEW h \in {"healthy", "degraded", "failing"},
              ChannelAnswers(ch, h)
       PROVE  FALSE
  <2>1. SameView(db, db')
    BY <1>0, <1>13, ChannelAside, QuietStatements DEF ChannelAnswers
  <2> QED BY <1>13, <2>1, ShownStutters DEF ChannelAnswers
<1>14. ASSUME NEW c \in Clients, RemoveClient(c) PROVE AbsRoster!Next
  <2> DEFINE gone == Left(db, Belongings(db, c))
             e == RemoveFlows(db, Belongings(db, c))
  <2>1. /\ revived' = revived \ gone /\ gone \in SUBSET Flows
        /\ Belongings(db, c) \in SUBSET Flows
    BY <1>14, RevivedAfterRemoval DEF RemoveClient, Inv, Left, Belongings
  <2>2. /\ OnWatch(e) = OnWatch(db) \ gone /\ Heard(e) = Heard(db) \ gone
        /\ Removed(e) = Removed(db) \cup gone
        /\ e \in Tables
    BY <1>0, <2>1, RemovalView, RemoveFlowsDoes
  <2>3. db' = SetClient(e, c, "archived") /\ "archived" \in Standings
    BY <1>14 DEF RemoveClient, ArchiveClient, Belongings, Standings
  <2> HIDE DEF e, gone
  <2>4. SameView(e, db')
    BY <2>2, <2>3, QuietStatements
  <2>5. OnWatch(db') = OnWatch(e) /\ Heard(db') = Heard(e) /\ Removed(db') = Removed(e)
    BY <2>4 DEF SameView, OnWatch, Heard, Removed
  <2>6. Shown' = <<OnWatch(db) \ gone, Heard(db) \ gone, (Removed(db) \ revived) \cup gone>>
    BY <2>1, <2>2, <2>5 DEF Shown
  <2> QED BY <2>1, <2>6, RosterMoves
<1>15. ASSUME NEW k \in Connectors, CreateConnector(k) PROVE FALSE
  <2>1. SameView(db, db')
    BY <1>0, <1>15, OthersAside, QuietStatements DEF CreateConnector
  <2> QED BY <1>15, <2>1, ShownStutters DEF CreateConnector
<1>16. ASSUME NEW k \in Connectors, DisableConnector(k) PROVE FALSE
  <2>1. SameView(db, db')
    BY <1>0, <1>16, OthersAside, QuietStatements DEF DisableConnector
  <2> QED BY <1>16, <2>1, ShownStutters DEF DisableConnector
<1>17. ASSUME NEW k \in Connectors, DeleteConnector(k) PROVE FALSE
  <2>1. SameView(db, db')
    BY <1>0, <1>17, QuietStatements DEF DeleteConnector
  <2> QED BY <1>17, <2>1, ShownStutters DEF DeleteConnector
<1>18. ASSUME NEW k \in Connectors, NEW h \in {"healthy", "unreachable"}, ConnectorAnswers(k, h)
       PROVE  FALSE
  <2>1. SameView(db, db')
    BY <1>0, <1>18, OthersAside, QuietStatements DEF ConnectorAnswers
  <2> QED BY <1>18, <2>1, ShownStutters DEF ConnectorAnswers
<1> QED BY <1>1, <1>2, <1>3, <1>4, <1>5, <1>6, <1>7, <1>8, <1>9, <1>10, <1>11, <1>12, <1>13,
           <1>14, <1>15, <1>16, <1>17, <1>18 DEF FleetStep

\* and so is every step of the protection of a workflow.
LEMMA ProtectStepRoster ==
    ASSUME Inv, ProtectStep
    PROVE  RosterStep
<1>0. db \in Tables /\ UnknownBlank(db)
  BY DEF Inv, Sound
<1> SUFFICES ASSUME Shown' # Shown PROVE AbsRoster!Next
  BY RosterMoves DEF RosterStep
<1>1. ASSUME NEW c \in Clients, ProtectClient(c) PROVE FALSE
  <2>1. SameView(db, db')
    BY <1>0, <1>1, QuietStatements DEF ProtectClient, Standings
  <2> QED BY <1>1, <2>1, ShownStutters DEF ProtectClient
<1>2. ASSUME NEW f \in Flows, NEW c \in Clients, NEW m \in Methods, ProtectWorkflow(f, c, m)
      PROVE  FALSE
  <2>1. SameView(db, db')
    BY <1>0, <1>2, AddFlowView DEF ProtectWorkflow
  <2>2. ~db.flow[f].removed
    BY <1>0, <1>2 DEF UnknownBlank, NoFlow, ProtectWorkflow
  <2> QED BY <1>2, <2>1, <2>2
      DEF ProtectWorkflow, Touch, SameView, Shown, OnWatch, Heard, Removed
<1>3. ASSUME NEW f \in Flows, NEW s \in Setups, ProtectContract(f, s) PROVE FALSE
  <2>1. SameView(db, db')
    BY <1>0, <1>3, QuietStatements DEF ProtectContract
  <2> QED BY <1>3, <2>1, ShownStutters DEF ProtectContract
<1>4. ASSUME NEW i \in Contracts(db), ProtectAlerts(i) PROVE AbsRoster!Next
  <2> DEFINE e == AddChannel(db)
             f == db.contracts[i].flow
             ch == Len(db.channels) + 1
  <2>1. f \in Flows
    BY <1>0, ContractFlow DEF Contracts
  <2>2. SameView(db, e) /\ ch \in DOMAIN e.channels /\ e.contracts = db.contracts /\ e \in Tables
    BY <1>0, AddChannelAside, QuietStatements DEF Aside
  <2>3. db' = AddRoute(e, i, ch) /\ i \in DOMAIN e.contracts /\ Touch(f, None)
    BY <1>4, <2>2 DEF ProtectAlerts, Contracts
  <2> HIDE DEF e, f, ch
  <2>4. SameView(e, db')
    BY <2>2, <2>3, QuietStatements
  <2>5. SameView(db, db')
    BY <2>2, <2>4 DEF SameView
  <2> QED BY <2>1, <2>3, <2>5, TouchRoster
<1>5. ASSUME NEW i \in Contracts(db), NEW c \in Clients \cup {None}, NEW a \in BOOLEAN,
             ProtectActivate(i, c, a)
      PROVE  AbsRoster!Next
  <2> DEFINE f == db.contracts[i].flow
             m == db.flow[f].method
             n == calls'
             d1 == ActivateContract(db, i, n)
             d2 == ActivateFlow(d1, f, m)
             d3 == Seed(d2, f)
  <2>1. f \in Flows /\ m \in Methods /\ n \in Nat
    BY <1>0, <1>5, ContractFlow, FlowMethod DEF Inv, Contracts, ProtectActivate, Request
  <2> HIDE DEF n, m
  <2>2. /\ OnWatch(d2) = OnWatch(db) \cup {f}
        /\ Heard(d2) = Heard(db) /\ Removed(d2) = Removed(db)
    BY <1>0, <2>1, ActivationView DEF Contracts
  <2>3. d1 \in Tables
    BY <1>0, <2>1, ActivateContractDoes DEF Contracts
  <2>4. /\ db' = IF c = None THEN d3 ELSE SetClient(d3, c, "protected")
        /\ Touch(f, None)
    BY <1>5 DEF ProtectActivate, n, m
  <2>5. "protected" \in Standings
    BY DEF Standings
  <2> HIDE DEF f, d1
  <2>6. d2 \in Tables
    BY <2>1, <2>3, ActivateFlowDoes
  <2> HIDE DEF d2
  <2>7. SameView(d2, d3) /\ d3 \in Tables
    BY <2>1, <2>6, OthersAside, QuietStatements DEF Aside
  <2> HIDE DEF d3
  <2>8. SameView(d3, db')
    <3>1. SameView(d3, d3)
      BY DEF SameView
    <3> QED BY <2>4, <2>5, <2>7, <3>1, QuietStatements
  <2>9. /\ OnWatch(db') = OnWatch(d2) /\ Heard(db') = Heard(d2)
        /\ Removed(db') = Removed(d2)
    BY <2>7, <2>8 DEF SameView, OnWatch, Heard, Removed
  <2>10. Shown' = <<OnWatch(db) \cup {f}, Heard(db) \cup {}, (Removed(db) \ revived) \ {f}>>
    BY <2>1, <2>2, <2>4, <2>9 DEF Shown, Touch, TakenUp, Removed
  <2>11. {f} \in SUBSET Flows /\ {} \in SUBSET {f} /\ {f} \in SUBSET {f}
    BY <2>1
  <2> QED BY <2>10, <2>11, RosterMoves
<1> QED BY <1>1, <1>2, <1>3, <1>4, <1>5 DEF ProtectStep

\* The pages implement the roster: workflows are switched on, removed, and
\* taken up again, and nothing else happens to them.
THEOREM PagesKeepRoster == FleetSpec => RosterSpec
<1>1. InitFleet => AbsRoster!Init
  BY DEF InitFleet, AbsRoster!Init, NoFlow, Watched, LiveKeys, KeysOf
<1>2. Inv /\ [FleetNext]_fleetVars => [AbsRoster!Next]_(AbsRoster!vars)
  <2>1. ASSUME Inv, FleetNext PROVE [AbsRoster!Next]_(AbsRoster!vars)
    BY <2>1, FleetStepRoster, ProtectStepRoster DEF FleetNext, RosterStep
  <2>2. ASSUME UNCHANGED fleetVars PROVE UNCHANGED AbsRoster!vars
    BY <2>2 DEF fleetVars, AbsRoster!vars
  <2> QED BY <2>1, <2>2
<1> QED BY <1>1, <1>2, FleetInv, PTL DEF FleetSpec, RosterSpec, AbsRoster!Spec

-----------------------------------------------------------------------------
(* The board                                                               *)

\* The ranks of the buckets of the board,
LEMMA BucketRanks ==
    /\ RankIn(Buckets, "critical_incident") = 1
    /\ RankIn(Buckets, "alert_channel_failing") = 2
    /\ RankIn(Buckets, "monitor_unknown") = 3
    /\ RankIn(Buckets, "overdue") = 4
    /\ RankIn(Buckets, "warning") = 5
    /\ RankIn(Buckets, "healthy") = 7
<1>1. DOMAIN Buckets = 1 .. 8
  BY DEF Buckets
<1>2. \A k \in 1 .. 8 : k = 1 \/ k = 2 \/ k = 3 \/ k = 4 \/ k = 5 \/ k = 6 \/ k = 7 \/ k = 8
  OBVIOUS
<1>3. /\ \A k \in 1 .. 8 : Buckets[k] = "critical_incident" <=> k = 1
      /\ \A k \in 1 .. 8 : Buckets[k] = "alert_channel_failing" <=> k = 2
      /\ \A k \in 1 .. 8 : Buckets[k] = "monitor_unknown" <=> k = 3
      /\ \A k \in 1 .. 8 : Buckets[k] = "overdue" <=> k = 4
      /\ \A k \in 1 .. 8 : Buckets[k] = "warning" <=> k = 5
      /\ \A k \in 1 .. 8 : Buckets[k] = "healthy" <=> k = 7
  BY <1>2 DEF Buckets
<1>4. ASSUME NEW x, NEW n \in 1 .. 8, \A k \in 1 .. 8 : Buckets[k] = x <=> k = n
      PROVE  RankIn(Buckets, x) = n
  BY <1>1, <1>4 DEF RankIn
<1> HIDE DEF Buckets
<1> QED BY <1>3, <1>4

\* and of the health of channels.
LEMMA ChannelRanksAre ==
    /\ RankIn(ChannelRanks, "failing") = 1 /\ RankIn(ChannelRanks, "degraded") = 2
    /\ RankIn(ChannelRanks, "unknown") = 3 /\ RankIn(ChannelRanks, "healthy") = 4
<1>1. DOMAIN ChannelRanks = 1 .. 4
  BY DEF ChannelRanks
<1>2. \A k \in 1 .. 4 : k = 1 \/ k = 2 \/ k = 3 \/ k = 4
  OBVIOUS
<1>3. /\ \A k \in 1 .. 4 : ChannelRanks[k] = "failing" <=> k = 1
      /\ \A k \in 1 .. 4 : ChannelRanks[k] = "degraded" <=> k = 2
      /\ \A k \in 1 .. 4 : ChannelRanks[k] = "unknown" <=> k = 3
      /\ \A k \in 1 .. 4 : ChannelRanks[k] = "healthy" <=> k = 4
  BY <1>2 DEF ChannelRanks
<1>4. ASSUME NEW x, NEW n \in 1 .. 4, \A k \in 1 .. 4 : ChannelRanks[k] = x <=> k = n
      PROVE  RankIn(ChannelRanks, x) = n
  BY <1>1, <1>4 DEF RankIn
<1> QED BY <1>3, <1>4

\* One channel in trouble is enough for the worst of them to be.
LEMMA WorstIsWorst ==
    ASSUME NEW healths \in SUBSET {"failing", "degraded", "unknown", "healthy"},
           "failing" \in healths \/ "degraded" \in healths
    PROVE  WorstChannel(healths) \in {"failing", "degraded"}
<1> DEFINE Worst(h) == \A g \in healths : RankIn(ChannelRanks, h) <= RankIn(ChannelRanks, g)
<1>1. \E h \in healths : Worst(h)
  <2>1. CASE "failing" \in healths
    BY <2>1, ChannelRanksAre
  <2>2. CASE "failing" \notin healths
    BY <2>2, ChannelRanksAre
  <2> QED BY <2>1, <2>2
<1>2. WorstChannel(healths) = CHOOSE h \in healths : Worst(h)
  BY DEF WorstChannel
<1>3. WorstChannel(healths) \in healths /\ Worst(WorstChannel(healths))
  BY <1>1, <1>2
<1> DEFINE w == WorstChannel(healths)
<1>5. /\ w \in {"failing", "degraded", "unknown", "healthy"}
      /\ \A g \in healths : RankIn(ChannelRanks, w) <= RankIn(ChannelRanks, g)
  BY <1>3
<1> HIDE DEF w, Worst
<1>4. RankIn(ChannelRanks, w) <= 2
  <2>1. CASE "failing" \in healths
    BY <1>5, <2>1, ChannelRanksAre
  <2>2. CASE "degraded" \in healths
    BY <1>5, <2>2, ChannelRanksAre
  <2> QED BY <2>1, <2>2
<1>6. w \in {"failing", "degraded"}
  BY <1>4, <1>5, ChannelRanksAre
<1> QED BY <1>6 DEF w

\* What an active row of the catalog shows of its contract.
LEMMA ActiveRow ==
    ASSUME NEW d \in Tables, NEW i \in Contracts(d), NEW r, r = Row(d, i), r.active,
           NEW f, f = d.contracts[i].flow
    PROVE  /\ r.flow = f /\ r.contract = i
           /\ d.contracts[i].active /\ d.flow[f].active
           /\ r.schedule \in {"unknown", "warning", "overdue", "healthy"}
           /\ d.news[f].open # {} => r.incident # "none"
           /\ r.channel = ChannelOf(d, i)
<1>1. /\ r.flow = f /\ r.contract = i
      /\ r.active = (d.contracts[i].active /\ d.flow[f].active)
      /\ r.schedule = ScheduleHealth(d, i)
      /\ r.incident = IncidentOf(d, f)
      /\ r.channel = ChannelOf(d, i)
  BY DEF Row
<1>2. d.contracts[i].active /\ d.flow[f].active
  BY <1>1
<1>3. r.schedule \in {"unknown", "warning", "overdue", "healthy"}
  <2>1. d.contracts[i] \in ContractTyped
    BY DEF Tables, Contracts
  <2>2. d.news[f] \in News
    BY <2>1 DEF Tables, ContractTyped
  <2> QED BY <1>1, <1>2, <2>2 DEF ScheduleHealth, News
<1>4. d.news[f].open # {} => r.incident # "none"
  BY <1>1 DEF IncidentOf
<1> QED BY <1>1, <1>2, <1>3, <1>4

\* Trouble, like an open incident, asks for attention, and it puts the row in one
\* of the first buckets.
LEMMA TroubleShows ==
    ASSUME NEW d \in Tables, NEW i \in Contracts(d), NEW r, r = Row(d, i), r.active
    PROVE  /\ Trouble(r) \/ d.news[r.flow].open # {} => NeedsAttention(r)
           /\ Trouble(r) =>
                 Bucket(r) \in {"critical_incident", "alert_channel_failing",
                               "monitor_unknown", "overdue", "warning"}
<1>1. /\ r.schedule \in {"unknown", "warning", "overdue", "healthy"}
      /\ d.news[r.flow].open # {} => r.incident # "none"
  BY ActiveRow
<1>2. Trouble(r) => \/ r.incident = "critical"
                    \/ r.channel = "failing"
                    \/ Badge(r) \in {"monitor_unknown", "overdue", "warning"}
  BY <1>1 DEF Trouble, Badge, ScheduleDimension
<1>3. Trouble(r) \/ d.news[r.flow].open # {} => NeedsAttention(r)
  BY <1>1, <1>2 DEF NeedsAttention
<1> QED BY <1>2, <1>3 DEF Bucket

\* A row of the catalog is of a contract whose workflow is not removed.
LEMMA RowsAre ==
    ASSUME NEW d, NEW r \in CatalogRows(d)
    PROVE  \E i \in Contracts(d) : /\ r = Row(d, i)
                                   /\ ~d.flow[d.contracts[i].flow].removed
BY DEF CatalogRows, InCatalog

\* The board shows an active row for exactly the workflows that are watched.
LEMMA WatchedShows ==
    ASSUME NEW d, NEW R, Sound(d, R), NEW f \in Flows \ R
    PROVE  Watched(d, f) <=> \E r \in CatalogRows(d) : r.flow = f /\ r.active
<1>1. ASSUME Watched(d, f) PROVE \E r \in CatalogRows(d) : r.flow = f /\ r.active
  <2>1. PICK i \in DOMAIN d.contracts : d.contracts[i].flow = f /\ d.contracts[i].active
    BY <1>1, WatchedIs
  <2>2. ~d.flow[f].removed /\ d.flow[f].active
    BY <1>1, <2>1, WatchedIs DEF Sound, RemovedQuiet, Quiet
  <2>3. Row(d, i) \in CatalogRows(d)
    BY <2>1, <2>2 DEF CatalogRows, InCatalog, Contracts
  <2>4. Row(d, i).flow = f /\ Row(d, i).active
    BY <2>1, <2>2 DEF Row
  <2> QED BY <2>3, <2>4
<1>2. ASSUME NEW r \in CatalogRows(d), r.flow = f, r.active PROVE Watched(d, f)
  <2>1. PICK i \in Contracts(d) : r = Row(d, i)
    BY RowsAre
  <2>2. d.contracts[i].flow = f /\ d.contracts[i].active /\ d.flow[f].active
    BY <1>2, <2>1 DEF Row
  <2> QED BY <2>2, WatchedIs DEF Contracts
<1> QED BY <1>1, <1>2

\* In sound tables the board is honest.
LEMMA InvBoard ==
    ASSUME Inv
    PROVE  BoardIsHonest
<1>0. Sound(db, revived) /\ db \in Tables
  BY DEF Inv, Sound
<1>1. \A f \in Flows : f \notin revived =>
         (Watched(db, f) <=> \E r \in CatalogRows(db) : r.flow = f /\ r.active)
  BY <1>0, WatchedShows
<1>2. ASSUME NEW r \in CatalogRows(db), r.active,
             \/ Trouble(r)
             \/ db.news[r.flow].open # {}
             \/ RoutesOf(db, r.contract) \cap Banner(db) # {}
      PROVE  NeedsAttention(r)
  <2>1. PICK i \in Contracts(db) : r = Row(db, i)
    BY RowsAre
  <2>2. CASE Trouble(r) \/ db.news[r.flow].open # {}
    BY <1>0, <1>2, <2>1, <2>2, TroubleShows
  <2>3. CASE RoutesOf(db, r.contract) \cap Banner(db) # {}
    <3> DEFINE healths == {db.channels[c].health : c \in RoutesOf(db, i)}
    <3>1. /\ r.contract = i /\ r.channel = ChannelOf(db, i)
          /\ ChannelOf(db, i) = WorstChannel(healths)
      BY <2>1 DEF Row, ChannelOf
    <3>2. PICK ch \in RoutesOf(db, i) : ch \in Banner(db)
      BY <2>3, <3>1
    <3>3. "failing" \in healths \/ "degraded" \in healths
      BY <3>2 DEF Banner
    <3>4. healths \in SUBSET {"failing", "degraded", "unknown", "healthy"}
      <4>1. \A c \in DOMAIN db.channels : db.channels[c] \in ChannelRow
        BY <1>0 DEF Tables
      <4> QED BY <4>1 DEF RoutesOf, ChannelRow
    <3> HIDE DEF healths
    <3>5. r.channel \in {"failing", "degraded"}
      BY <3>1, <3>3, <3>4, WorstIsWorst
    <3> QED BY <1>2, <3>5 DEF NeedsAttention
  <2> QED BY <1>2, <2>2, <2>3
<1>3. ASSUME NEW r \in CatalogRows(db), r.active, Trouble(r),
             NEW s \in CatalogRows(db), Badge(s) = "healthy", ~Trouble(s)
      PROVE  Before(r, s)
  <2>1. PICK i \in Contracts(db) : r = Row(db, i)
    BY RowsAre
  <2>2. Bucket(r) \in {"critical_incident", "alert_channel_failing", "monitor_unknown",
                       "overdue", "warning"}
    BY <1>0, <1>3, <2>1, TroubleShows
  <2>3. Bucket(s) = "healthy"
    BY <1>3 DEF Bucket, Trouble
  <2> QED BY <2>2, <2>3, BucketRanks DEF Before
<1>4. ASSUME NEW c \in Clients, ClientStatus(db, c) \in {"archived", "paused"},
             NEW f \in Flows \ revived, db.flow[f].owner = c, Watched(db, f)
      PROVE  FALSE
  <2>1. PICK r \in CatalogRows(db) : r.flow = f /\ r.active
    BY <1>1, <1>4
  <2>2. r \in RowsOf(db, c)
    BY <1>4, <2>1 DEF RowsOf
  <2>3. db.client[c] = "archived"
    BY <1>4, <2>1, <2>2 DEF ClientStatus, PageStatus
  <2>4. Quiet(db, f)
    BY <1>0, <1>4, <2>3 DEF Sound, ArchivedRemoved, RemovedQuiet
  <2> QED BY <1>4, <2>4, WatchedIs DEF Quiet
<1> QED BY <1>1, <1>2, <1>3, <1>4 DEF BoardIsHonest

\* The board shows every watched workflow, and what is wrong with it before
\* what is well.
THEOREM BoardHonest == FleetSpec => []BoardIsHonest
<1>1. Inv => BoardIsHonest
  BY InvBoard
<1> QED BY <1>1, FleetInv, PTL

-----------------------------------------------------------------------------
(* What belongs to a workflow in watch                                     *)

\* Workflow f has all that belongs to a workflow in watch.
Complete(d, f) ==
    /\ d.flow[f].active
    /\ f \in d.stated
    /\ d.flow[f].method = "push" => KeysOf(d, f) # {}

\* The unique index: a workflow has one active contract at most.
Sole(d) ==
    \A i, j \in DOMAIN d.contracts :
        /\ d.contracts[i].active /\ d.contracts[j].active
        /\ d.contracts[i].flow = d.contracts[j].flow
        => i = j

\* What was activated at one of the times T is complete.
Spared(d, T) ==
    \A i \in DOMAIN d.contracts :
        d.contracts[i].active /\ d.contracts[i].at \in T => Complete(d, d.contracts[i].flow)

\* No contract was activated after the request n.
Dated(d, n) == \A i \in DOMAIN d.contracts : d.contracts[i].at <= n

Kept(d, T, n) == Sole(d) /\ Spared(d, T) /\ Dated(d, n)

\* Between d and e nothing is activated, and workflows with an active contract
\* lose nothing, but for those of X.
Lasting(d, e, X) ==
    /\ DOMAIN d.contracts \subseteq DOMAIN e.contracts
    /\ \A i \in DOMAIN d.contracts :
          /\ e.contracts[i].flow = d.contracts[i].flow
          /\ e.contracts[i].at = d.contracts[i].at
          /\ e.contracts[i].active => /\ d.contracts[i].active
                                      /\ \/ d.contracts[i].flow \in X
                                         \/ ~Complete(d, d.contracts[i].flow)
                                         \/ Complete(e, d.contracts[i].flow)
    /\ \A i \in DOMAIN e.contracts \ DOMAIN d.contracts :
          ~e.contracts[i].active /\ e.contracts[i].at = 0

\* That keeps what is kept, unless a contract of X counts.
LEMMA LastingKept ==
    ASSUME NEW d, NEW T, NEW n \in Nat, Kept(d, T, n), NEW X, NEW e, Lasting(d, e, X),
           \A i \in DOMAIN d.contracts :
               d.contracts[i].active /\ d.contracts[i].flow \in X => d.contracts[i].at \notin T
    PROVE  Kept(e, T, n)
<1>1. \A i \in DOMAIN e.contracts : e.contracts[i].active =>
         /\ i \in DOMAIN d.contracts /\ d.contracts[i].active
         /\ e.contracts[i].flow = d.contracts[i].flow
         /\ e.contracts[i].at = d.contracts[i].at
  BY DEF Lasting
<1>2. Sole(e)
  BY <1>1 DEF Kept, Sole
<1>3. Spared(e, T)
  BY <1>1 DEF Kept, Spared, Lasting
<1>4. Dated(e, n)
  BY DEF Kept, Dated, Lasting
<1> QED BY <1>2, <1>3, <1>4 DEF Kept

\* With nothing but X set aside, the rest need only keep its rows and keys.
LEMMA Complements ==
    ASSUME NEW d, NEW e, NEW X, d.stated \subseteq e.stated,
           DOMAIN d.keys \subseteq DOMAIN e.keys,
           \A j \in DOMAIN d.keys : e.keys[j].flow = d.keys[j].flow,
           NEW f, f \notin X => /\ e.flow[f].active = d.flow[f].active
                                /\ e.flow[f].method = d.flow[f].method
    PROVE  f \in X \/ ~Complete(d, f) \/ Complete(e, f)
<1>1. KeysOf(d, f) \subseteq KeysOf(e, f)
  BY DEF KeysOf
<1> QED BY <1>1 DEF Complete

\* With the same contracts, all that is kept is kept, whatever became of X.
LEMMA SameContracts ==
    ASSUME NEW d \in Tables, NEW e, NEW X, d.stated \subseteq e.stated,
           DOMAIN d.keys \subseteq DOMAIN e.keys,
           \A j \in DOMAIN d.keys : e.keys[j].flow = d.keys[j].flow,
           \A f \in Flows \ X : /\ e.flow[f].active = d.flow[f].active
                                /\ e.flow[f].method = d.flow[f].method,
           DOMAIN d.contracts \subseteq DOMAIN e.contracts,
           \A i \in DOMAIN d.contracts :
              /\ e.contracts[i].flow = d.contracts[i].flow
              /\ e.contracts[i].at = d.contracts[i].at
              /\ e.contracts[i].active => d.contracts[i].active,
           \A i \in DOMAIN e.contracts \ DOMAIN d.contracts :
              ~e.contracts[i].active /\ e.contracts[i].at = 0
    PROVE  Lasting(d, e, X)
<1>1. \A i \in DOMAIN d.contracts : d.contracts[i].flow \in Flows
  BY ContractFlow
<1>2. ASSUME NEW i \in DOMAIN d.contracts
      PROVE  LET f == d.contracts[i].flow IN f \in X \/ ~Complete(d, f) \/ Complete(e, f)
  <2> DEFINE f == d.contracts[i].flow
  <2>1. f \in Flows
    BY <1>1
  <2> HIDE DEF f
  <2>2. f \in X \/ ~Complete(d, f) \/ Complete(e, f)
    BY <2>1, Complements
  <2> QED BY <2>2 DEF f
<1> QED BY <1>2 DEF Lasting

\* The statements that activate nothing last,
LEMMA StatementsLast ==
    ASSUME NEW d \in Tables
    PROVE  /\ \A f \in Flows, s \in Setups : Lasting(d, AddContract(d, f, s), {})
           /\ \A i \in DOMAIN d.contracts, s \in Setups : Lasting(d, SetSetup(d, i, s), {})
           /\ \A i \in DOMAIN d.contracts : Lasting(d, Deactivated(d, i), {})
           /\ \A j \in DOMAIN d.keys : Lasting(d, RevokeKey(d, j), {})
           /\ \A f \in Flows : Lasting(d, AddKey(d, f), {})
           /\ \A f \in Flows, k \in Connectors : Lasting(d, BindFlow(d, f, k), {})
           /\ \A k \in Connectors : Lasting(d, DropConnector(d, k), {})
           /\ \A c \in Clients, s \in Standings : Lasting(d, SetClient(d, c, s), {})
           /\ \A i \in DOMAIN d.contracts, ch \in DOMAIN d.channels :
                 Lasting(d, AddRoute(d, i, ch), {})
           /\ \A f \in Flows, m \in Methods : Lasting(d, ActivateFlow(d, f, m), {f})
           /\ \A e : Aside(d, e) => Lasting(d, e, {})
<1>1. ASSUME NEW f \in Flows, NEW s \in Setups PROVE Lasting(d, AddContract(d, f, s), {})
  <2> DEFINE e == AddContract(d, f, s)
  <2>1. /\ e.flow = d.flow /\ e.keys = d.keys /\ e.stated = d.stated
        /\ DOMAIN e.contracts = DOMAIN d.contracts \cup {Len(d.contracts) + 1}
        /\ \A i \in DOMAIN d.contracts : e.contracts[i] = d.contracts[i]
        /\ ~e.contracts[Len(d.contracts) + 1].active
        /\ e.contracts[Len(d.contracts) + 1].at = 0
    BY AddContractDoes
  <2> HIDE DEF e
  <2>2. Lasting(d, e, {})
    BY <2>1, SameContracts
  <2> QED BY <2>2 DEF e
<1>2. ASSUME NEW i \in DOMAIN d.contracts, NEW s \in Setups PROVE Lasting(d, SetSetup(d, i, s), {})
  BY SetSetupDoes, SameContracts
<1>3. ASSUME NEW i \in DOMAIN d.contracts PROVE Lasting(d, Deactivated(d, i), {})
  <2> DEFINE e == Deactivated(d, i)
  <2>1. /\ e.flow = d.flow /\ e.keys = d.keys /\ e.stated = d.stated
        /\ DOMAIN e.contracts = DOMAIN d.contracts
        /\ \A j \in DOMAIN d.contracts : j # i => e.contracts[j] = d.contracts[j]
        /\ e.contracts[i].flow = d.contracts[i].flow /\ ~e.contracts[i].active
        /\ e.contracts[i].at = d.contracts[i].at
    BY DeactivateDoes
  <2> HIDE DEF e
  <2>2. Lasting(d, e, {})
    BY <2>1, SameContracts
  <2> QED BY <2>2 DEF e
<1>4. ASSUME NEW j \in DOMAIN d.keys PROVE Lasting(d, RevokeKey(d, j), {})
  <2> DEFINE e == RevokeKey(d, j)
  <2>1. /\ e.flow = d.flow /\ e.contracts = d.contracts /\ e.stated = d.stated
        /\ DOMAIN e.keys = DOMAIN d.keys
        /\ \A i \in DOMAIN d.keys : i # j => e.keys[i] = d.keys[i]
        /\ e.keys[j].flow = d.keys[j].flow
    BY RevokeKeyDoes
  <2> HIDE DEF e
  <2>2. Lasting(d, e, {})
    BY <2>1, SameContracts
  <2> QED BY <2>2 DEF e
<1>5. ASSUME NEW f \in Flows PROVE Lasting(d, AddKey(d, f), {})
  BY AddKeyDoes, SameContracts
<1>6. ASSUME NEW f \in Flows, NEW k \in Connectors PROVE Lasting(d, BindFlow(d, f, k), {})
  BY BindFlowDoes, SameContracts
<1>7. ASSUME NEW k \in Connectors PROVE Lasting(d, DropConnector(d, k), {})
  BY DropConnectorDoes, SameContracts
<1>8. ASSUME NEW c \in Clients, NEW s \in Standings PROVE Lasting(d, SetClient(d, c, s), {})
  BY SetClientDoes, SameContracts
<1>9. ASSUME NEW i \in DOMAIN d.contracts, NEW ch \in DOMAIN d.channels
      PROVE  Lasting(d, AddRoute(d, i, ch), {})
  BY AddRouteDoes, SameContracts
<1>10. ASSUME NEW f \in Flows, NEW m \in Methods PROVE Lasting(d, ActivateFlow(d, f, m), {f})
  BY ActivateFlowDoes, SameContracts
<1>11. ASSUME NEW e, Aside(d, e) PROVE Lasting(d, e, {})
  BY <1>11, SameContracts DEF Aside
<1> QED BY <1>1, <1>2, <1>3, <1>4, <1>5, <1>6, <1>7, <1>8, <1>9, <1>10, <1>11

\* a new workflow, which has no contract, too,
LEMMA AddFlowLasts ==
    ASSUME NEW d \in Tables, ContractsKnown(d), NEW f \in Flows, ~d.flow[f].known,
           NEW c \in Clients \cup {None}, NEW m \in Methods, NEW e, e = AddFlow(d, f, c, m)
    PROVE  Lasting(d, e, {})
<1>1. /\ e.contracts = d.contracts /\ e.keys = d.keys /\ e.stated = d.stated
      /\ \A g \in Flows : g # f => e.flow[g] = d.flow[g]
  BY AddFlowDoes
<1>2. Lasting(d, e, {f})
  BY <1>1, SameContracts
<1>3. \A i \in DOMAIN d.contracts : d.contracts[i].flow # f
  BY DEF ContractsKnown
<1> QED BY <1>2, <1>3 DEF Lasting

\* and a removal, which takes the contracts of the workflow with it.
LEMMA RemoveFlowsLasts ==
    ASSUME NEW d \in Tables, NEW S \in SUBSET Flows, NEW e, e = RemoveFlows(d, S)
    PROVE  Lasting(d, e, {})
<1> DEFINE gone == Left(d, S)
<1>1. /\ e.stated = d.stated
      /\ DOMAIN e.contracts = DOMAIN d.contracts
      /\ \A i \in DOMAIN d.contracts :
            /\ e.contracts[i].flow = d.contracts[i].flow
            /\ e.contracts[i].at = d.contracts[i].at
            /\ e.contracts[i].active <=>
                   d.contracts[i].active /\ d.contracts[i].flow \notin gone
      /\ DOMAIN e.keys = DOMAIN d.keys
      /\ \A j \in DOMAIN d.keys : e.keys[j].flow = d.keys[j].flow
      /\ \A f \in Flows \ gone : e.flow[f] = d.flow[f]
  BY RemoveFlowsDoes
<1> HIDE DEF gone
<1>2. Lasting(d, e, gone)
  BY <1>1, SameContracts
<1> QED BY <1>1, <1>2 DEF Lasting

-----------------------------------------------------------------------------
(* The statements of an activation                                         *)

\* A set of natural numbers that is not empty has a least one.
LEMMA LeastOf ==
    ASSUME NEW T, T \subseteq Nat, T # {}
    PROVE  \E n \in T : \A m \in T : n <= m
<1> DEFINE R == OpToRel(<, Nat)
<1>1. IsWellFoundedOn(R, Nat)
  BY NatLessThanWellFounded
<1> HIDE DEF R
<1>2. \E x \in T : \A y \in T : ~(<<y, x>> \in R)
  BY <1>1, WFMin
<1>3. \A x \in T, y \in T : <<y, x>> \in R <=> y < x
  BY DEF R, OpToRel
<1>4. PICK x \in T : \A y \in T : ~(y < x)
  BY <1>2, <1>3
<1>5. \A m \in T : x <= m
  BY <1>4
<1> QED BY <1>4, <1>5

\* The contract created last is one of the workflow's.
LEMMA LatestIs ==
    ASSUME NEW d \in Tables, NEW f
    PROVE  /\ ContractsOf(d, f) = {} <=> Latest(d, f) = 0
           /\ ContractsOf(d, f) # {} => Latest(d, f) \in ContractsOf(d, f)
<1> DEFINE C == ContractsOf(d, f)
           len == Len(d.contracts)
<1>1. len \in Nat /\ C \subseteq 1 .. len
  BY DEF Tables, ContractsOf, Contracts
<1>2. ASSUME C # {} PROVE \E i \in C : \A j \in C : j <= i
  <2> DEFINE T == {len - i : i \in C}
  <2>1. T \subseteq Nat /\ T # {}
    BY <1>1, <1>2
  <2>2. PICK n \in T : \A m \in T : n <= m
    BY <2>1, LeastOf
  <2>3. PICK i \in C : n = len - i
    BY <2>2
  <2>4. ASSUME NEW j \in C PROVE j <= i
    <3>1. len - i <= len - j
      BY <2>2, <2>3
    <3> QED BY <1>1, <3>1
  <2> QED BY <2>4
<1>3. C # {} => Latest(d, f) \in C
  BY <1>2 DEF Latest
<1>4. C = {} => Latest(d, f) = 0
  BY DEF Latest
<1> QED BY <1>1, <1>3, <1>4

\* What an activation of workflows X may do, stage by stage: put them in watch,
\* and give them credentials.
Moves(d, e, X) ==
    /\ e.client = d.client
    /\ DOMAIN d.contracts \subseteq DOMAIN e.contracts
    /\ DOMAIN d.channels \subseteq DOMAIN e.channels
    /\ \A g \in Flows : d.flow[g].known => e.flow[g].known
    /\ OnWatch(d) \subseteq OnWatch(e) /\ OnWatch(e) \subseteq OnWatch(d) \cup X
    /\ Heard(d) \subseteq Heard(e) /\ Heard(e) \subseteq Heard(d) \cup X
    /\ Removed(e) = Removed(d)

\* Two moves after one another are one,
LEMMA MovesOn ==
    ASSUME NEW d, NEW e, NEW g, NEW X, NEW Y, X \subseteq Y, Moves(d, e, X), Moves(e, g, Y)
    PROVE  Moves(d, g, Y)
BY DEF Moves

\* and no statement at all is one.
LEMMA Unmoved ==
    ASSUME NEW d, NEW X
    PROVE  Moves(d, d, X)
BY DEF Moves

\* A statement that does not show moves nobody.
LEMMA ViewMoves ==
    ASSUME NEW d, NEW e, NEW X, SameView(d, e), e.client = d.client,
           DOMAIN d.contracts \subseteq DOMAIN e.contracts,
           DOMAIN d.channels \subseteq DOMAIN e.channels,
           \A g \in Flows : d.flow[g].known => e.flow[g].known
    PROVE  Moves(d, e, X)
BY DEF Moves, SameView, OnWatch, Heard, Removed

\* Tables in which the activation of f can go on.
Willing(d, R, f) == Sound(d, R) /\ Free(d, R, f) /\ d.flow[f].known

\* An activation that could go on can go on after a move of its own workflow.
LEMMA ReadyOn ==
    ASSUME NEW d, NEW e, NEW R, NEW f \in Flows, Free(d, R, f), d.flow[f].known,
           Sound(e, R), Moves(d, e, {f})
    PROVE  Willing(e, R, f)
BY DEF Willing, Free, Moves, Removed

\* The workflow is there,
LEMMA RegisteredDoes ==
    ASSUME NEW d, NEW R, Sound(d, R), NEW f \in Flows, Free(d, R, f),
           NEW c \in Clients \cup {None},
           d.flow[f].known \/ c = None \/ d.client[c] # "archived" \/ f \in R,
           NEW cfg, cfg.method \in Methods, NEW e, e = Registered(d, f, c, cfg)
    PROVE  Willing(e, R, f) /\ Moves(d, e, {f}) /\ Lasting(d, e, {})
<1>1. CASE d.flow[f].known
  <2>1. e = d
    BY <1>1 DEF Registered
  <2> QED BY <1>1, <2>1, Unmoved DEF Willing, Lasting
<1>2. CASE ~d.flow[f].known
  <2> DEFINE m == cfg.method
  <2>0. d \in Tables /\ UnknownBlank(d) /\ ContractsKnown(d) /\ m \in Methods
    BY DEF Sound
  <2>1. e = AddFlow(d, f, c, m)
    BY <1>2 DEF Registered
  <2> HIDE DEF m
  <2>2. Sound(e, R)
    <3>1. ~d.flow[f].known /\ (c = None \/ d.client[c] # "archived" \/ f \in R)
      BY <1>2
    <3> QED BY <2>0, <2>1, <3>1, AddFlowSound
  <2>3. /\ e.client = d.client /\ e.contracts = d.contracts /\ e.channels = d.channels
        /\ \A g \in Flows : g # f => e.flow[g] = d.flow[g]
        /\ e.flow[f].known /\ ~e.flow[f].removed
    BY <2>0, <2>1, AddFlowDoes
  <2>4. SameView(d, e)
    BY <1>2, <2>0, <2>1, AddFlowView
  <2>5. Moves(d, e, {f})
    BY <2>3, <2>4, ViewMoves
  <2>6. Lasting(d, e, {})
    BY <1>2, <2>0, <2>1, AddFlowLasts
  <2> QED BY <2>2, <2>3, <2>5, <2>6 DEF Willing, Free
<1> QED BY <1>1, <1>2

\* bound,
LEMMA AttachedDoes ==
    ASSUME NEW d, NEW R, NEW f \in Flows, Willing(d, R, f), NEW k \in Connectors \cup {None},
           NEW cfg, NEW e, e = Attached(d, f, k, cfg)
    PROVE  Willing(e, R, f) /\ Moves(d, e, {f}) /\ Lasting(d, e, {})
<1>0. d \in Tables /\ Sound(d, R) /\ Free(d, R, f) /\ d.flow[f].known
  BY DEF Willing, Sound
<1>1. CASE cfg.method = "poll" /\ k # None
  <2>1. e = BindFlow(d, f, k) /\ k \in Connectors
    BY <1>1 DEF Attached
  <2>2. Sound(e, R)
    BY <1>0, <2>1, BindFlowWithin, WithinSound
  <2>3. /\ e.client = d.client /\ e.contracts = d.contracts /\ e.channels = d.channels
        /\ \A g \in Flows : e.flow[g].known = d.flow[g].known
    BY <1>0, <2>1, BindFlowDoes
  <2>4. SameView(d, e) /\ Lasting(d, e, {})
    BY <1>0, <2>1, QuietStatements, StatementsLast
  <2>5. Moves(d, e, {f})
    BY <2>3, <2>4, ViewMoves
  <2> QED BY <1>0, <2>2, <2>4, <2>5, ReadyOn
<1>2. CASE ~(cfg.method = "poll" /\ k # None)
  <2>1. e = d
    BY <1>2 DEF Attached
  <2> QED BY <2>1, Unmoved DEF Lasting
<1> QED BY <1>1, <1>2

\* has a contract,
LEMMA DrawnDoes ==
    ASSUME NEW d, NEW R, NEW f \in Flows, Willing(d, R, f),
           NEW cfg, cfg.setup \in Setups, NEW e, e = Drawn(d, f, cfg)
    PROVE  /\ Willing(e, R, f) /\ Moves(d, e, {f}) /\ Lasting(d, e, {})
           /\ ContractsOf(e, f) # {}
<1>0. d \in Tables /\ Sound(d, R) /\ Free(d, R, f) /\ d.flow[f].known
  BY DEF Willing, Sound
<1>1. CASE Latest(d, f) = 0
  <2>1. e = AddContract(d, f, cfg.setup)
    BY <1>1 DEF Drawn
  <2>2. Sound(e, R)
    BY <1>0, <2>1, AddContractWithin, WithinSound
  <2>3. /\ e.client = d.client /\ e.flow = d.flow /\ e.channels = d.channels
        /\ DOMAIN e.contracts = DOMAIN d.contracts \cup {Len(d.contracts) + 1}
        /\ e.contracts[Len(d.contracts) + 1].flow = f
    BY <1>0, <2>1, AddContractDoes
  <2>4. SameView(d, e) /\ Lasting(d, e, {})
    BY <1>0, <2>1, QuietStatements, StatementsLast
  <2>5. Moves(d, e, {f})
    BY <2>3, <2>4, ViewMoves
  <2>6. Len(d.contracts) + 1 \in ContractsOf(e, f)
    BY <2>3 DEF ContractsOf, Contracts
  <2> QED BY <1>0, <2>2, <2>4, <2>5, <2>6, ReadyOn
<1>2. CASE Latest(d, f) # 0
  <2> DEFINE i == Latest(d, f)
  <2>1. i \in ContractsOf(d, f)
    BY <1>0, <1>2, LatestIs
  <2>2. i \in DOMAIN d.contracts /\ d.contracts[i].flow = f /\ e = SetSetup(d, i, cfg.setup)
    BY <1>2, <2>1 DEF Drawn, ContractsOf, Contracts
  <2> HIDE DEF i
  <2>3. Sound(e, R)
    BY <1>0, <2>2, SetSetupWithin, WithinSound
  <2>4. /\ e.client = d.client /\ e.flow = d.flow /\ e.channels = d.channels
        /\ DOMAIN e.contracts = DOMAIN d.contracts
        /\ e.contracts[i].flow = d.contracts[i].flow
    BY <1>0, <2>2, SetSetupDoes
  <2>5. SameView(d, e) /\ Lasting(d, e, {})
    BY <1>0, <2>2, QuietStatements, StatementsLast
  <2>6. Moves(d, e, {f})
    BY <2>4, <2>5, ViewMoves
  <2>7. i \in ContractsOf(e, f)
    BY <2>2, <2>4 DEF ContractsOf, Contracts
  <2> QED BY <1>0, <2>3, <2>5, <2>6, <2>7, ReadyOn
<1> QED BY <1>1, <1>2

\* that is routed,
LEMMA RoutedDoes ==
    ASSUME NEW d, NEW R, NEW f \in Flows, Willing(d, R, f), ContractsOf(d, f) # {},
           NEW ch \in {0} \cup DOMAIN d.channels, NEW e, e = Routed(d, f, ch)
    PROVE  /\ Willing(e, R, f) /\ Moves(d, e, {f}) /\ Lasting(d, e, {})
           /\ e.contracts = d.contracts
<1>0. d \in Tables /\ Sound(d, R) /\ Free(d, R, f) /\ d.flow[f].known
  BY DEF Willing, Sound
<1>1. CASE ch = 0
  <2>1. e = d
    BY <1>1 DEF Routed
  <2> QED BY <2>1, Unmoved DEF Lasting
<1>2. CASE ch # 0
  <2> DEFINE i == Latest(d, f)
  <2>1. i \in ContractsOf(d, f)
    BY <1>0, LatestIs
  <2>2. /\ i \in DOMAIN d.contracts /\ d.contracts[i].flow = f
        /\ ch \in DOMAIN d.channels /\ e = AddRoute(d, i, ch)
    BY <1>2, <2>1 DEF Routed, ContractsOf, Contracts
  <2> HIDE DEF i
  <2>3. Sound(e, R)
    BY <1>0, <2>2, AddRouteWithin, WithinSound
  <2>4. /\ e.client = d.client /\ e.flow = d.flow /\ e.channels = d.channels
        /\ e.contracts = d.contracts
    BY <1>0, <2>2, AddRouteDoes
  <2>5. SameView(d, e) /\ Lasting(d, e, {})
    BY <1>0, <2>2, QuietStatements, StatementsLast
  <2>6. Moves(d, e, {f})
    BY <2>4, <2>5, ViewMoves
  <2> QED BY <1>0, <2>3, <2>4, <2>5, <2>6, ReadyOn
<1> QED BY <1>1, <1>2

-----------------------------------------------------------------------------
(* The contract, and what is kept while it is signed                       *)

\* Meanwhile the one active contract of f may be that of the time `now`.
Signing(d, T, f, now, k) ==
    /\ Sole(d) /\ Dated(d, k)
    /\ \A i \in DOMAIN d.contracts : d.contracts[i].active =>
          /\ d.contracts[i].flow = f => d.contracts[i].at = now
          /\ d.contracts[i].flow # f /\ d.contracts[i].at \in T =>
                 Complete(d, d.contracts[i].flow)

\* A statement that lasts leaves open which contract is being signed.
LEMMA LastingSigning ==
    ASSUME NEW d, NEW T, NEW f, NEW now, NEW k \in Nat, Signing(d, T, f, now, k),
           NEW e, Lasting(d, e, {f})
    PROVE  Signing(e, T, f, now, k)
<1>1. \A i \in DOMAIN e.contracts : e.contracts[i].active =>
         /\ i \in DOMAIN d.contracts /\ d.contracts[i].active
         /\ e.contracts[i].flow = d.contracts[i].flow
         /\ e.contracts[i].at = d.contracts[i].at
         /\ d.contracts[i].flow # f /\ Complete(d, d.contracts[i].flow) =>
               Complete(e, d.contracts[i].flow)
  BY DEF Lasting
<1>2. Sole(e)
  BY <1>1 DEF Signing, Sole
<1>3. Dated(e, k)
  BY DEF Signing, Dated, Lasting
<1> QED BY <1>1, <1>2, <1>3 DEF Signing

\* That keeps what is kept as long as the time does not count, or the workflow
\* is complete.
LEMMA SigningKept ==
    ASSUME NEW d, NEW T, NEW f, NEW now, NEW k, Signing(d, T, f, now, k),
           now \notin T \/ Complete(d, f)
    PROVE  Kept(d, T, k)
BY DEF Signing, Kept, Spared

\* The contract is activated where the index does not refuse it,
LEMMA ActivationSigns ==
    ASSUME NEW d \in Tables, NEW T, NEW k \in Nat, Kept(d, T, k),
           NEW i \in DOMAIN d.contracts, ~Refuses(d, i), NEW now \in Nat, now <= k,
           NEW f, f = d.contracts[i].flow, NEW e, e = ActivateContract(d, i, now)
    PROVE  Signing(e, T, f, now, k)
<1>1. /\ e.flow = d.flow /\ e.keys = d.keys /\ e.stated = d.stated
      /\ DOMAIN e.contracts = DOMAIN d.contracts
      /\ \A j \in DOMAIN d.contracts : j # i => e.contracts[j] = d.contracts[j]
      /\ e.contracts[i].flow = f /\ e.contracts[i].active
      /\ e.contracts[i].at = now
  BY ActivateContractDoes
<1>2. \A j \in DOMAIN d.contracts : d.contracts[j].flow = f /\ d.contracts[j].active => j = i
  BY DEF Refuses, ActiveOf, ContractsOf, Contracts
<1>3. \A g : Complete(d, g) => Complete(e, g)
  BY <1>1 DEF Complete, KeysOf
<1>4. Sole(e)
  BY <1>1, <1>2 DEF Kept, Sole
<1>5. Dated(e, k)
  <2> SUFFICES ASSUME NEW j \in DOMAIN e.contracts PROVE e.contracts[j].at <= k
    BY DEF Dated
  <2>1. CASE j = i
    BY <1>1, <2>1
  <2>2. CASE j # i
    BY <1>1, <2>2 DEF Kept, Dated
  <2> QED BY <2>1, <2>2
<1>6. ASSUME NEW j \in DOMAIN e.contracts, e.contracts[j].active
      PROVE  /\ e.contracts[j].flow = f => e.contracts[j].at = now
             /\ e.contracts[j].flow # f /\ e.contracts[j].at \in T =>
                    Complete(e, e.contracts[j].flow)
  <2>1. CASE j = i
    BY <1>1, <2>1
  <2>2. CASE j # i
    <3>1. e.contracts[j] = d.contracts[j] /\ j \in DOMAIN d.contracts
      BY <1>1, <2>2
    <3>2. d.contracts[j].active /\ d.contracts[j].flow # f
      BY <1>2, <1>6, <2>2, <3>1
    <3> QED BY <1>3, <3>1, <3>2 DEF Kept, Spared
  <2> QED BY <2>1, <2>2
<1> QED BY <1>4, <1>5, <1>6 DEF Signing

\* and may put its workflow in watch.
LEMMA ActivateContractMoves ==
    ASSUME NEW d \in Tables, NEW i \in DOMAIN d.contracts, NEW now \in Nat,
           NEW f, f = d.contracts[i].flow, NEW e, e = ActivateContract(d, i, now)
    PROVE  Moves(d, e, {f})
<1>1. /\ e.client = d.client /\ e.channels = d.channels /\ e.flow = d.flow /\ e.keys = d.keys
      /\ DOMAIN e.contracts = DOMAIN d.contracts
      /\ \A j \in DOMAIN d.contracts : j # i => e.contracts[j] = d.contracts[j]
      /\ e.contracts[i].flow = f /\ e.contracts[i].active
  BY ActivateContractDoes
<1>2. \A g \in Flows : /\ Watched(d, g) => Watched(e, g)
                       /\ Watched(e, g) => Watched(d, g) \/ g = f
  BY <1>1, WatchedIs
<1>3. \A g \in Flows : LiveKeys(e, g) # {} <=> LiveKeys(d, g) # {}
  BY <1>1, HeardIs
<1> QED BY <1>1, <1>2, <1>3 DEF Moves, OnWatch, Heard, Removed

\* Putting f in watch moves nobody but f.
LEMMA ActivateFlowMoves ==
    ASSUME NEW d \in Tables, NEW f \in Flows, NEW m \in Methods,
           NEW e, e = ActivateFlow(d, f, m)
    PROVE  Moves(d, e, {f})
<1>1. /\ e.client = d.client /\ e.contracts = d.contracts /\ e.keys = d.keys
      /\ e.channels = d.channels
      /\ \A g \in Flows : g # f => e.flow[g] = d.flow[g]
      /\ e.flow[f].known = d.flow[f].known /\ e.flow[f].removed = d.flow[f].removed
      /\ e.flow[f].active
  BY ActivateFlowDoes
<1>2. \A g \in Flows : /\ Watched(d, g) => Watched(e, g)
                       /\ Watched(e, g) => Watched(d, g) \/ g = f
  BY <1>1, WatchedIs
<1>3. \A g \in Flows : LiveKeys(e, g) # {} <=> LiveKeys(d, g) # {}
  BY <1>1, HeardIs
<1>4. \A g \in Flows : e.flow[g].removed = d.flow[g].removed /\ e.flow[g].known = d.flow[g].known
  BY <1>1
<1> QED BY <1>1, <1>2, <1>3, <1>4 DEF Moves, OnWatch, Heard, Removed

\* The contract is active,
LEMMA SignedDoes ==
    ASSUME NEW d, NEW R, NEW f \in Flows, Willing(d, R, f), ContractsOf(d, f) # {},
           ~Refuses(d, Latest(d, f)), NEW now \in Nat, NEW k \in Nat, now <= k,
           NEW T, Kept(d, T, k), NEW e, e = Signed(d, f, now)
    PROVE  /\ Willing(e, R, f) /\ Moves(d, e, {f}) /\ Signing(e, T, f, now, k)
           /\ ContractsOf(e, f) # {}
<1>0. d \in Tables /\ Sound(d, R) /\ Free(d, R, f) /\ d.flow[f].known
  BY DEF Willing, Sound
<1> DEFINE i == Latest(d, f)
<1>1. i \in ContractsOf(d, f)
  BY <1>0, LatestIs
<1>2. /\ i \in DOMAIN d.contracts /\ d.contracts[i].flow = f
      /\ e = ActivateContract(d, i, now) /\ ~Refuses(d, i)
  BY <1>1 DEF Signed, ContractsOf, Contracts
<1> HIDE DEF i
<1>3. Sound(e, R)
  BY <1>0, <1>2, ActivateContractWithin, WithinSound
<1>4. Moves(d, e, {f})
  BY <1>0, <1>2, ActivateContractMoves
<1>5. Signing(e, T, f, now, k)
  BY <1>0, <1>2, ActivationSigns
<1>6. i \in ContractsOf(e, f)
  BY <1>0, <1>2, ActivateContractDoes DEF ContractsOf, Contracts
<1> QED BY <1>0, <1>3, <1>4, <1>5, <1>6, ReadyOn

\* the workflow too,
LEMMA StartedDoes ==
    ASSUME NEW d, NEW R, NEW f \in Flows, Willing(d, R, f), NEW m \in Methods,
           NEW e, e = ActivateFlow(d, f, m)
    PROVE  /\ Willing(e, R, f) /\ Moves(d, e, {f}) /\ Lasting(d, e, {f})
           /\ e.flow[f].active /\ e.flow[f].method = m
<1>0. d \in Tables /\ Sound(d, R) /\ Free(d, R, f) /\ d.flow[f].known
  BY DEF Willing, Sound
<1>1. Sound(e, R)
  BY <1>0, ActivateFlowWithin, WithinSound
<1>2. Moves(d, e, {f}) /\ Lasting(d, e, {f})
  BY <1>0, ActivateFlowMoves, StatementsLast
<1>3. e.flow[f].active /\ e.flow[f].method = m
  BY <1>0, ActivateFlowDoes
<1> QED BY <1>0, <1>1, <1>2, <1>3, ReadyOn

\* one that reports has a credential,
LEMMA KeyedDoes ==
    ASSUME NEW d, NEW R, NEW f \in Flows, Willing(d, R, f), NEW cfg, NEW e, e = Keyed(d, f, cfg)
    PROVE  /\ Willing(e, R, f) /\ Moves(d, e, {f}) /\ Lasting(d, e, {f})
           /\ e.flow = d.flow
           /\ cfg.method = "push" => KeysOf(e, f) # {}
<1>0. d \in Tables /\ Sound(d, R) /\ Free(d, R, f) /\ d.flow[f].known
  BY DEF Willing, Sound
<1>1. CASE cfg.method = "push" /\ LiveKeys(d, f) = {}
  <2>1. e = AddKey(d, f)
    BY <1>1 DEF Keyed
  <2>2. Sound(e, R)
    BY <1>0, <2>1, AddKeyWithin, WithinSound
  <2>3. /\ e.client = d.client /\ e.flow = d.flow /\ e.contracts = d.contracts
        /\ e.channels = d.channels
        /\ Len(d.keys) + 1 \in DOMAIN e.keys /\ e.keys[Len(d.keys) + 1].flow = f
    BY <1>0, <2>1, AddKeyDoes
  <2>4. /\ Heard(e) = Heard(d) \cup {f}
        /\ OnWatch(e) = OnWatch(d) /\ Removed(e) = Removed(d)
    BY <1>0, <2>1, AddKeyView
  <2>5. Moves(d, e, {f})
    BY <2>3, <2>4 DEF Moves
  <2>6. Lasting(d, e, {f})
    <3>1. Lasting(d, e, {})
      BY <1>0, <2>1, StatementsLast
    <3> QED BY <3>1 DEF Lasting
  <2>7. KeysOf(e, f) # {}
    BY <2>3 DEF KeysOf
  <2> QED BY <1>0, <2>2, <2>3, <2>5, <2>6, <2>7, ReadyOn
<1>2. CASE ~(cfg.method = "push" /\ LiveKeys(d, f) = {})
  <2>1. e = d
    BY <1>2 DEF Keyed
  <2>2. cfg.method = "push" => KeysOf(d, f) # {}
    BY <1>2 DEF LiveKeys
  <2> QED BY <2>1, <2>2, Unmoved DEF Lasting
<1> QED BY <1>1, <1>2

\* and its state row is there.
LEMMA SeededDoes ==
    ASSUME NEW d, NEW R, NEW f \in Flows, Willing(d, R, f), NEW e, e = Seed(d, f)
    PROVE  /\ Willing(e, R, f) /\ Moves(d, e, {f}) /\ Lasting(d, e, {f})
           /\ e.flow = d.flow /\ e.keys = d.keys /\ f \in e.stated
<1>0. d \in Tables /\ Sound(d, R) /\ Free(d, R, f) /\ d.flow[f].known
  BY DEF Willing, Sound
<1>1. Aside(d, e)
  BY <1>0, OthersAside
<1>2. Sound(e, R)
  BY <1>0, <1>1, AsideWithin, WithinSound
<1>3. SameView(d, e)
  BY <1>0, <1>1, QuietStatements
<1>4. Moves(d, e, {f})
  BY <1>1, <1>3, ViewMoves DEF Aside
<1>5. Lasting(d, e, {f})
  <2>1. Lasting(d, e, {})
    BY <1>0, <1>1, StatementsLast
  <2> QED BY <2>1 DEF Lasting
<1>6. f \in e.stated
  BY <1>0 DEF Seed, Tables
<1> QED BY <1>0, <1>1, <1>2, <1>4, <1>5, <1>6, ReadyOn DEF Aside

-----------------------------------------------------------------------------
(* What a draft says is in the tables                                      *)

\* Drafts and what they say.
ConfigTyped == [setup : Setups \cup {None}, method : Methods, contract : Nat]
DraftTyped ==
    [client : Clients \cup {None}, connector : Connectors \cup {None},
     selected : SUBSET Flows, configs : [Flows -> ConfigTyped], channel : Nat,
     accepted : SUBSET Flows, activatedAt : Nat]

\* A draft speaks of contracts there are.
DraftSound(x, d) ==
    /\ x \in DraftTyped
    /\ \A f \in Flows :
          /\ x.configs[f] # NoConfig => x.configs[f].setup \in Setups
          /\ x.configs[f].contract \in {0} \cup DOMAIN d.contracts

\* So each stage of an activation leaves the tables sound, moves f only and
\* keeps what is kept; but where the last stage is not reached the time must not
\* count.
LEMMA StagesDo ==
    ASSUME NEW d, NEW R, Sound(d, R), NEW f \in Flows, Free(d, R, f),
           NEW x \in DraftTyped, x.configs[f].setup \in Setups,
           d.flow[f].known \/ x.client = None \/ d.client[x.client] # "archived" \/ f \in R,
           NEW ch \in {0} \cup DOMAIN d.channels,
           NEW now \in Nat, NEW k \in Nat, now <= k, NEW T, Kept(d, T, k),
           NEW st, st = Stages(d, f, x, ch, now)
    PROVE  /\ \A n \in 1 .. 4 : Sound(st[n], R) /\ Moves(d, st[n], {f}) /\ Kept(st[n], T, k)
           /\ ~Refuses(st[4], Latest(st[4], f)) =>
                 /\ \A n \in 5 .. 8 : /\ Sound(st[n], R) /\ Moves(d, st[n], {f})
                                      /\ now \notin T \/ n = 8 => Kept(st[n], T, k)
                 /\ Latest(st[8], f) \in DOMAIN st[8].contracts
<1> DEFINE cfg == x.configs[f]
           known == Registered(d, f, x.client, cfg)
           bound == Attached(known, f, x.connector, cfg)
           drawn == Drawn(bound, f, cfg)
           routed == Routed(drawn, f, ch)
           signed == Signed(routed, f, now)
           started == ActivateFlow(signed, f, cfg.method)
           keyed == Keyed(started, f, cfg)
           seeded == Seed(keyed, f)
<1>1. /\ st[1] = known /\ st[2] = bound /\ st[3] = drawn /\ st[4] = routed
      /\ st[5] = signed /\ st[6] = started /\ st[7] = keyed /\ st[8] = seeded
  BY DEF Stages
<1>2. /\ cfg.method \in Methods /\ cfg.setup \in Setups
      /\ x.client \in Clients \cup {None} /\ x.connector \in Connectors \cup {None}
  BY DEF DraftTyped, ConfigTyped
<1> HIDE DEF cfg
<1>3. Willing(known, R, f) /\ Moves(d, known, {f}) /\ Lasting(d, known, {})
  BY <1>2, RegisteredDoes
<1> HIDE DEF known
<1>4. Willing(bound, R, f) /\ Moves(known, bound, {f}) /\ Lasting(known, bound, {})
  BY <1>2, <1>3, AttachedDoes
<1> HIDE DEF bound
<1>5. /\ Willing(drawn, R, f) /\ Moves(bound, drawn, {f}) /\ Lasting(bound, drawn, {})
      /\ ContractsOf(drawn, f) # {}
  BY <1>2, <1>4, DrawnDoes
<1> HIDE DEF drawn
<1>6. Moves(d, bound, {f}) /\ Moves(d, drawn, {f})
  BY <1>3, <1>4, <1>5, MovesOn
<1>7. ch \in {0} \cup DOMAIN drawn.channels
  BY <1>6 DEF Moves
<1>8. /\ Willing(routed, R, f) /\ Moves(drawn, routed, {f}) /\ Lasting(drawn, routed, {})
      /\ routed.contracts = drawn.contracts
  BY <1>5, <1>7, RoutedDoes
<1> HIDE DEF routed
<1>9. Moves(d, routed, {f})
  BY <1>6, <1>8, MovesOn
<1>10. Kept(known, T, k)
  BY <1>3, LastingKept
<1>11. Kept(bound, T, k)
  BY <1>4, <1>10, LastingKept
<1>12. Kept(drawn, T, k)
  BY <1>5, <1>11, LastingKept
<1>13. Kept(routed, T, k)
  BY <1>8, <1>12, LastingKept
<1>14. \A n \in 1 .. 4 : Sound(st[n], R) /\ Moves(d, st[n], {f}) /\ Kept(st[n], T, k)
  BY <1>1, <1>3, <1>4, <1>5, <1>6, <1>8, <1>9, <1>10, <1>11, <1>12, <1>13 DEF Willing
<1>15. ContractsOf(routed, f) # {}
  BY <1>5, <1>8 DEF ContractsOf, Contracts
<1>16. ASSUME ~Refuses(routed, Latest(routed, f))
       PROVE  /\ \A n \in 5 .. 8 : /\ Sound(st[n], R) /\ Moves(d, st[n], {f})
                                   /\ now \notin T \/ n = 8 => Kept(st[n], T, k)
              /\ Latest(st[8], f) \in DOMAIN st[8].contracts
  <2>1. Willing(signed, R, f) /\ Moves(routed, signed, {f}) /\ Signing(signed, T, f, now, k)
        /\ ContractsOf(signed, f) # {}
    BY <1>8, <1>13, <1>15, <1>16, SignedDoes
  <2> HIDE DEF signed
  <2>2. /\ Willing(started, R, f) /\ Moves(signed, started, {f}) /\ Lasting(signed, started, {f})
        /\ started.flow[f].active /\ started.flow[f].method = cfg.method
    <3>1. cfg.method \in Methods /\ Willing(signed, R, f)
      BY <1>2, <2>1
    <3>2. \A e : e = ActivateFlow(signed, f, cfg.method) =>
              /\ Willing(e, R, f) /\ Moves(signed, e, {f}) /\ Lasting(signed, e, {f})
              /\ e.flow[f].active /\ e.flow[f].method = cfg.method
      BY <3>1, StartedDoes
    <3> QED BY <3>2
  <2> HIDE DEF started
  <2>3. /\ Willing(keyed, R, f) /\ Moves(started, keyed, {f}) /\ Lasting(started, keyed, {f})
        /\ keyed.flow = started.flow
        /\ cfg.method = "push" => KeysOf(keyed, f) # {}
    BY <2>2, KeyedDoes
  <2> HIDE DEF keyed
  <2>4. /\ Willing(seeded, R, f) /\ Moves(keyed, seeded, {f}) /\ Lasting(keyed, seeded, {f})
        /\ seeded.flow = keyed.flow /\ seeded.keys = keyed.keys /\ f \in seeded.stated
    BY <2>3, SeededDoes
  <2> HIDE DEF seeded
  <2>5. /\ Moves(d, signed, {f}) /\ Moves(d, started, {f}) /\ Moves(d, keyed, {f})
        /\ Moves(d, seeded, {f})
    BY <1>9, <2>1, <2>2, <2>3, <2>4, MovesOn
  <2>6. /\ Signing(started, T, f, now, k) /\ Signing(keyed, T, f, now, k)
        /\ Signing(seeded, T, f, now, k)
    BY <2>1, <2>2, <2>3, <2>4, LastingSigning
  <2>7. Complete(seeded, f)
    BY <2>2, <2>3, <2>4 DEF Complete, KeysOf
  <2>8. Kept(seeded, T, k)
    BY <2>6, <2>7, SigningKept
  <2>9. now \notin T => Kept(signed, T, k) /\ Kept(started, T, k) /\ Kept(keyed, T, k)
    BY <2>1, <2>6, SigningKept
  <2>10. ContractsOf(seeded, f) # {}
    BY <2>1, <2>2, <2>3, <2>4 DEF ContractsOf, Contracts, Lasting
  <2>11. Latest(seeded, f) \in DOMAIN seeded.contracts
    <3>1. seeded \in Tables
      BY <2>4 DEF Willing, Sound
    <3> QED BY <2>10, <3>1, LatestIs DEF ContractsOf, Contracts
  <2> QED BY <1>1, <2>1, <2>2, <2>3, <2>4, <2>5, <2>8, <2>9, <2>11 DEF Willing
<1> QED BY <1>1, <1>14, <1>16

-----------------------------------------------------------------------------
(* One round of the loop                                                   *)

\* How far the loop may have come: db with some of X activated, and the draft x
\* noting it.
Looped(acc, x, R, T, k, X) ==
    /\ Sound(acc.tables, R) /\ Kept(acc.tables, T, k) /\ Moves(db, acc.tables, X)
    /\ DraftSound(acc.draft, acc.tables) /\ acc.draft.activatedAt = x.activatedAt
    /\ \A f \in X : acc.draft.configs[f] # NoConfig

\* What the loop is given: workflows X of the draft x, those that were removed
\* being in R, and a channel there is.
Given(x, ch, R, X) ==
    /\ DraftSound(x, db) /\ ch \in {0} \cup DOMAIN db.channels
    /\ X \subseteq Configured(x)
    /\ \A f \in X : TakenUp(db, f, x.client) => f \in R

\* A draft stays sound where contracts are added,
LEMMA DraftKeeps ==
    ASSUME NEW x, NEW d, DraftSound(x, d), NEW e, DOMAIN d.contracts \subseteq DOMAIN e.contracts
    PROVE  DraftSound(x, e)
BY DEF DraftSound

\* and where a contract there is is noted.
LEMMA NotedSound ==
    ASSUME NEW x, NEW d, d \in Tables, DraftSound(x, d), NEW f \in Flows, x.configs[f] # NoConfig,
           NEW reach, NEW i, reach = Whole => i \in DOMAIN d.contracts
    PROVE  /\ DraftSound(Noted(x, f, i, reach), d)
           /\ Noted(x, f, i, reach).activatedAt = x.activatedAt
           /\ \A g \in Flows : x.configs[g] # NoConfig =>
                                  Noted(x, f, i, reach).configs[g] # NoConfig
<1>1. CASE reach # Whole
  BY <1>1 DEF Noted
<1>2. CASE reach = Whole
  <2> DEFINE cfg == [x.configs[f] EXCEPT !.contract = i]
             cs == [x.configs EXCEPT ![f] = cfg]
             y == [x EXCEPT !.configs = cs]
  <2>1. i \in DOMAIN d.contracts /\ i \in Nat /\ i # 0
    BY <1>2 DEF Tables
  <2>2. x \in DraftTyped /\ x.configs \in [Flows -> ConfigTyped] /\ x.configs[f] \in ConfigTyped
    BY DEF DraftSound, DraftTyped
  <2>3. /\ cfg \in ConfigTyped /\ cfg.setup = x.configs[f].setup /\ cfg.contract = i
        /\ cfg # NoConfig
    BY <2>1, <2>2 DEF ConfigTyped, NoConfig
  <2>4. x.configs[f].setup \in Setups
    BY DEF DraftSound
  <2>5. Noted(x, f, i, reach) = y
    BY <1>2, <2>2 DEF Noted, DraftTyped, ConfigTyped
  <2> HIDE DEF cfg
  <2>6. /\ cs \in [Flows -> ConfigTyped] /\ cs[f] = cfg
        /\ \A g \in Flows : g # f => cs[g] = x.configs[g]
    BY <2>2, <2>3
  <2> HIDE DEF cs
  <2>7. y \in DraftTyped /\ y.configs = cs /\ y.activatedAt = x.activatedAt
    BY <2>2, <2>6 DEF DraftTyped
  <2> HIDE DEF y
  <2> QED BY <2>1, <2>3, <2>4, <2>5, <2>6, <2>7 DEF DraftSound
<1> QED BY <1>1, <1>2

\* A workflow gets to one of three stages, past the fourth where the index does
\* not refuse it.
LEMMA ReachIs ==
    ASSUME NEW st, NEW f, NEW x, NEW a
    PROVE  /\ Reach(st, f, x, a) \in {1, 4, 8}
           /\ Reach(st, f, x, a) = 8 => ~Refuses(st[4], Latest(st[4], f))
BY DEF Reach, Whole

\* In the loop, too, a workflow of X that was removed is in R.
LEMMA GivenOn ==
    ASSUME Inv, NEW x, NEW ch, NEW R, NEW X, Given(x, ch, R, X), NEW f \in X,
           NEW d, Moves(db, d, X)
    PROVE  /\ f \in Flows /\ x \in DraftTyped /\ x.configs[f].setup \in Setups
           /\ Free(d, R, f) /\ ch \in {0} \cup DOMAIN d.channels
           /\ d.flow[f].known \/ x.client = None \/ d.client[x.client] # "archived" \/ f \in R
<1>1. f \in Flows /\ x.configs[f] # NoConfig /\ x \in DraftTyped
  BY DEF Given, Configured, DraftSound, DraftTyped
<1>2. x.configs[f].setup \in Setups
  BY <1>1 DEF Given, DraftSound
<1>3. TakenUp(db, f, x.client) => f \in R
  BY DEF Given
<1> QED BY <1>1, <1>2, <1>3 DEF Given, TakenUp, Free, Moves, Removed

\* One round of the loop.
LEMMA AdvancedDoes ==
    ASSUME Inv, NEW x, NEW ch, NEW R, NEW X, Given(x, ch, R, X), NEW f \in X,
           NEW T, NEW k \in Nat, NEW now \in Nat, now <= k,
           NEW acc, Looped(acc, x, R, T, k, X), NEW a
    PROVE  Looped(Advanced(acc, f, x, ch, a, now), x, R, T, k, X)
<1> DEFINE d == acc.tables
           st == Stages(d, f, x, ch, now)
           reach == Reach(st, f, x, a)
           i == Latest(st[reach], f)
           next == [tables |-> st[reach], draft |-> Noted(acc.draft, f, i, reach)]
<1>1. Advanced(acc, f, x, ch, a, now) = next
  BY DEF Advanced
<1>2. Sound(d, R) /\ Kept(d, T, k) /\ Moves(db, d, X)
  BY DEF Looped
<1>3. /\ f \in Flows /\ x \in DraftTyped /\ x.configs[f].setup \in Setups
      /\ Free(d, R, f) /\ ch \in {0} \cup DOMAIN d.channels
      /\ d.flow[f].known \/ x.client = None \/ d.client[x.client] # "archived" \/ f \in R
  BY <1>2, GivenOn
<1>4. DraftSound(acc.draft, d) /\ acc.draft.activatedAt = x.activatedAt
  BY DEF Looped
<1> HIDE DEF d
<1>5. /\ \A n \in 1 .. 4 : Sound(st[n], R) /\ Moves(d, st[n], {f}) /\ Kept(st[n], T, k)
      /\ ~Refuses(st[4], Latest(st[4], f)) =>
            /\ \A n \in 5 .. 8 : /\ Sound(st[n], R) /\ Moves(d, st[n], {f})
                                 /\ now \notin T \/ n = 8 => Kept(st[n], T, k)
            /\ Latest(st[8], f) \in DOMAIN st[8].contracts
  BY <1>2, <1>3, StagesDo
<1> HIDE DEF st
<1>6. reach \in {1, 4, 8} /\ (reach = 8 => ~Refuses(st[4], Latest(st[4], f)))
  BY ReachIs
<1> HIDE DEF reach
<1>7. /\ Sound(st[reach], R) /\ Moves(d, st[reach], {f}) /\ Kept(st[reach], T, k)
      /\ reach = Whole => i \in DOMAIN st[reach].contracts
  BY <1>5, <1>6 DEF Whole
<1>8. Moves(db, st[reach], X)
  <2>1. Moves(d, st[reach], X)
    BY <1>7 DEF Moves
  <2> QED BY <1>2, <2>1, MovesOn
<1>9. DraftSound(acc.draft, st[reach]) /\ st[reach] \in Tables
  BY <1>4, <1>7, DraftKeeps DEF Moves, Sound
<1> HIDE DEF i
<1>10. \A g \in X : g \in Flows /\ acc.draft.configs[g] # NoConfig
  BY DEF Looped, Given, Configured, DraftSound, DraftTyped
<1>11. /\ DraftSound(Noted(acc.draft, f, i, reach), st[reach])
       /\ Noted(acc.draft, f, i, reach).activatedAt = x.activatedAt
       /\ \A g \in X : Noted(acc.draft, f, i, reach).configs[g] # NoConfig
  BY <1>4, <1>7, <1>9, <1>10, NotedSound
<1> QED BY <1>1, <1>7, <1>8, <1>11 DEF Looped

-----------------------------------------------------------------------------
(* The whole loop                                                          *)

\* Induction, for a set of numbers.
LEMMA Induction ==
    ASSUME NEW T, T \subseteq Nat, 0 \in T, \A n \in T : n + 1 \in T
    PROVE  T = Nat
<1> SUFFICES ASSUME Nat \ T # {} PROVE FALSE
  OBVIOUS
<1>1. PICK n \in Nat \ T : \A m \in Nat \ T : n <= m
  BY LeastOf
<1>2. n # 0 /\ n - 1 \in Nat
  BY <1>1
<1>3. n - 1 \in T
  BY <1>1, <1>2
<1> QED BY <1>1, <1>2, <1>3

\* The rounds of a loop over `order`, the m first of them.
Rounds(g, m, order, x, ch, a, now) ==
    /\ g = [n \in 0 .. m |-> g[n]]
    /\ g[0] = [tables |-> db, draft |-> x]
    /\ \A n \in 1 .. m : g[n] = Advanced(g[n - 1], order[n], x, ch, a, now)

\* There are such rounds.
LEMMA RoundsExist ==
    ASSUME NEW order, NEW x, NEW ch, NEW a, NEW now, NEW m \in Nat
    PROVE  \E g : Rounds(g, m, order, x, ch, a, now)
<1> DEFINE T == {k \in Nat : \E g : Rounds(g, k, order, x, ch, a, now)}
<1>1. 0 \in T
  <2> DEFINE g == [n \in 0 .. 0 |-> [tables |-> db, draft |-> x]]
  <2>1. Rounds(g, 0, order, x, ch, a, now)
    BY DEF Rounds
  <2> QED BY <2>1
<1>2. ASSUME NEW k \in T PROVE k + 1 \in T
  <2>1. PICK g : Rounds(g, k, order, x, ch, a, now)
    BY <1>2
  <2> DEFINE h == [n \in 0 .. k + 1 |->
                     IF n = k + 1 THEN Advanced(g[k], order[k + 1], x, ch, a, now) ELSE g[n]]
  <2>2. k \in Nat
    OBVIOUS
  <2>3. h = [n \in 0 .. k + 1 |-> h[n]] /\ h[0] = [tables |-> db, draft |-> x]
    BY <2>1, <2>2 DEF Rounds
  <2>4. ASSUME NEW n \in 1 .. k + 1
        PROVE  h[n] = Advanced(h[n - 1], order[n], x, ch, a, now)
    <3>1. CASE n = k + 1
      BY <2>2, <3>1
    <3>2. CASE n # k + 1
      <4>1. n \in 1 .. k /\ n - 1 \in 0 .. k + 1 /\ n - 1 # k + 1
        BY <2>2, <3>2
      <4>2. g[n] = Advanced(g[n - 1], order[n], x, ch, a, now)
        BY <2>1, <4>1 DEF Rounds
      <4> QED BY <3>2, <4>1, <4>2
    <3> QED BY <3>1, <3>2
  <2>5. Rounds(h, k + 1, order, x, ch, a, now)
    BY <2>3, <2>4 DEF Rounds
  <2> QED BY <2>2, <2>5
<1> HIDE DEF T
<1>3. T \subseteq Nat
  BY DEF T
<1>4. T = Nat
  BY <1>1, <1>2, <1>3, Induction
<1> QED BY <1>4 DEF T

\* A finite set can be put in order.
LEMMA Ordered ==
    ASSUME NEW S, IsFiniteSet(S)
    PROVE  Len(SetToSeq(S)) \in Nat /\ \A n \in 1 .. Len(SetToSeq(S)) : SetToSeq(S)[n] \in S
<1> DEFINE n == Cardinality(S)
<1>1. n \in Nat /\ ExistsBijection(1 .. n, S)
  BY FS_CardinalityType
<1>2. PICK g : g \in [1 .. n -> S] /\ IsInjective(g)
  BY <1>1 DEF ExistsBijection, Bijection, Injection, IsInjective
<1>3. SetToSeq(S) \in [1 .. n -> S]
  BY <1>2 DEF SetToSeq
<1> HIDE DEF n
<1>4. ASSUME NEW s, s \in [1 .. n -> S] PROVE Len(s) = n /\ \A k \in 1 .. n : s[k] \in S
  BY <1>1, <1>4
<1> QED BY <1>1, <1>3, <1>4

\* And the loop ends with the last of its rounds.
LEMMA ActivatedIs ==
    ASSUME NEW S, IsFiniteSet(S), NEW x, NEW ch, NEW a, NEW now
    PROVE  \E g : /\ Rounds(g, Len(SetToSeq(S)), SetToSeq(S), x, ch, a, now)
                  /\ Activated(S, x, ch, a, now) = g[Len(SetToSeq(S))]
<1> DEFINE order == SetToSeq(S)
           Loop(f) == f = [n \in 0 .. Len(order) |->
                             IF n = 0 THEN [tables |-> db, draft |-> x]
                             ELSE Advanced(f[n - 1], order[n], x, ch, a, now)]
           through == CHOOSE f : Loop(f)
<1>0. Len(order) \in Nat
  BY Ordered
<1>1. PICK g : Rounds(g, Len(order), order, x, ch, a, now)
  BY <1>0, RoundsExist
<1>2. Loop(g)
  <2>1. ASSUME NEW n \in 0 .. Len(order)
        PROVE  g[n] = IF n = 0 THEN [tables |-> db, draft |-> x]
                      ELSE Advanced(g[n - 1], order[n], x, ch, a, now)
    <3>1. CASE n = 0
      BY <1>1, <3>1 DEF Rounds
    <3>2. CASE n # 0
      <4>1. n \in 1 .. Len(order)
        BY <1>0, <3>2
      <4>2. g[n] = Advanced(g[n - 1], order[n], x, ch, a, now)
        BY <1>1, <4>1 DEF Rounds
      <4> QED BY <3>2, <4>2
    <3> QED BY <3>1, <3>2
  <2>2. g = [n \in 0 .. Len(order) |-> g[n]]
    BY <1>1 DEF Rounds
  <2> QED BY <2>1, <2>2
<1>3. Loop(through)
  BY <1>2
<1>4. Activated(S, x, ch, a, now) = through[Len(order)]
  BY DEF Activated
<1> HIDE DEF through
<1>5. Rounds(through, Len(order), order, x, ch, a, now)
  <2>1. through = [n \in 0 .. Len(order) |-> through[n]]
    BY <1>3
  <2>2. through[0] = [tables |-> db, draft |-> x]
    BY <1>0, <1>3
  <2>3. \A n \in 1 .. Len(order) : through[n] = Advanced(through[n - 1], order[n], x, ch, a, now)
    BY <1>0, <1>3
  <2> QED BY <2>1, <2>2, <2>3 DEF Rounds
<1> QED BY <1>4, <1>5

\* So the loop keeps what each round keeps.
LEMMA ActivatedDoes ==
    ASSUME Inv, NEW x, NEW ch, NEW R, NEW X, Given(x, ch, R, X), Sound(db, R),
           NEW T, NEW k \in Nat, NEW now \in Nat, now <= k, Kept(db, T, k), NEW a
    PROVE  Looped(Activated(X, x, ch, a, now), x, R, T, k, X)
<1> DEFINE order == SetToSeq(X)
           len == Len(order)
<1>1. IsFiniteSet(X)
  <2>1. X \subseteq Flows
    BY DEF Given, Configured, DraftSound, DraftTyped
  <2> QED BY <2>1, FleetAssumption, FS_Subset
<1>2. len \in Nat /\ \A n \in 1 .. len : order[n] \in X
  BY <1>1, Ordered
<1>3. PICK g : Rounds(g, len, order, x, ch, a, now) /\ Activated(X, x, ch, a, now) = g[len]
  BY <1>1, ActivatedIs
<1> HIDE DEF order, len
<1>4. Looped(g[0], x, R, T, k, X)
  <2>1. g[0] = [tables |-> db, draft |-> x]
    BY <1>3 DEF Rounds
  <2>2. \A f \in X : x.configs[f] # NoConfig
    BY DEF Given, Configured
  <2> QED BY <2>1, <2>2, Unmoved DEF Looped, Given
<1> DEFINE N == {n \in Nat : n <= len => Looped(g[n], x, R, T, k, X)}
<1>5. 0 \in N
  BY <1>4
<1>6. ASSUME NEW n \in N PROVE n + 1 \in N
  <2> SUFFICES ASSUME n + 1 <= len PROVE Looped(g[n + 1], x, R, T, k, X)
    OBVIOUS
  <2>1. n \in Nat /\ Looped(g[n], x, R, T, k, X)
    BY <1>2
  <2>2. g[n + 1] = Advanced(g[n], order[n + 1], x, ch, a, now) /\ order[n + 1] \in X
    <3>1. n + 1 \in 1 .. len /\ (n + 1) - 1 = n
      BY <1>2, <2>1
    <3> QED BY <1>2, <1>3, <3>1 DEF Rounds
  <2> QED BY <2>1, <2>2, AdvancedDoes
<1>7. N \subseteq Nat
  OBVIOUS
<1> HIDE DEF N
<1>8. N = Nat
  BY <1>5, <1>6, <1>7, Induction
<1> QED BY <1>2, <1>3, <1>8 DEF N

-----------------------------------------------------------------------------
(* The pages keep what is kept                                             *)

\* Time goes on, and contracts and channels are only added.
Onward ==
    /\ DOMAIN db.contracts \subseteq DOMAIN db'.contracts
    /\ DOMAIN db.channels \subseteq DOMAIN db'.channels
    /\ calls' \in Nat /\ calls <= calls'

\* What is kept is kept for fewer times, and later on.
LEMMA KeptLater ==
    ASSUME NEW d \in Tables, NEW T, NEW n \in Nat, Kept(d, T, n), NEW S, S \subseteq T,
           NEW m \in Nat, n <= m
    PROVE  Kept(d, S, m)
<1>1. \A i \in DOMAIN d.contracts : d.contracts[i].at \in Nat
  <2>1. \A i \in DOMAIN d.contracts : d.contracts[i] \in ContractTyped
    BY DEF Tables
  <2> QED BY <2>1 DEF ContractTyped
<1> QED BY <1>1 DEF Kept, Spared, Dated

\* A time that is yet to come may be kept as well.
LEMMA KeptAhead ==
    ASSUME NEW d \in Tables, NEW T, NEW n \in Nat, Kept(d, T, n)
    PROVE  Kept(d, T \cup {n + 1}, n + 1)
<1>1. \A i \in DOMAIN d.contracts : d.contracts[i].at \in Nat
  <2>1. \A i \in DOMAIN d.contracts : d.contracts[i] \in ContractTyped
    BY DEF Tables
  <2> QED BY <2>1 DEF ContractTyped
<1> QED BY <1>1 DEF Kept, Spared, Dated

\* Two statements that activate nothing are as good as one.
LEMMA LastingOn ==
    ASSUME NEW d, NEW e, NEW g, Lasting(d, e, {}), Lasting(e, g, {})
    PROVE  Lasting(d, g, {})
<1>1. ASSUME NEW i \in DOMAIN d.contracts
      PROVE  /\ g.contracts[i].flow = d.contracts[i].flow
             /\ g.contracts[i].at = d.contracts[i].at
             /\ g.contracts[i].active => /\ d.contracts[i].active
                                         /\ \/ ~Complete(d, d.contracts[i].flow)
                                            \/ Complete(g, d.contracts[i].flow)
  BY DEF Lasting
<1>2. ASSUME NEW i \in DOMAIN g.contracts \ DOMAIN d.contracts
      PROVE  ~g.contracts[i].active /\ g.contracts[i].at = 0
  BY DEF Lasting
<1>3. DOMAIN d.contracts \subseteq DOMAIN g.contracts
  BY DEF Lasting
<1> QED BY <1>1, <1>2, <1>3 DEF Lasting

\* A request that activates nothing keeps what is kept.
LEMMA LastingStep ==
    ASSUME Inv, Inv', Request, Lasting(db, db', {}),
           DOMAIN db.channels \subseteq DOMAIN db'.channels,
           NEW T, Kept(db, T, calls)
    PROVE  Kept(db', T, calls') /\ Onward
<1>1. calls \in Nat /\ calls' = calls + 1 /\ db' \in Tables
  BY DEF Inv, Sound, Request
<1>2. Kept(db', T, calls)
  BY <1>1, LastingKept
<1>3. Kept(db', T, calls')
  BY <1>1, <1>2, KeptLater
<1> QED BY <1>1, <1>3 DEF Onward, Lasting

\* None of the pages of the fleet activates a contract,
LEMMA FleetStepKeeps ==
    ASSUME Inv, FleetStep, NEW T, Kept(db, T, calls)
    PROVE  Kept(db', T, calls') /\ Onward
<1>0. db \in Tables /\ Sound(db, revived) /\ ContractsKnown(db)
  BY DEF Inv, Sound
<1>i. Inv'
  BY FleetStepInv
<1> SUFFICES /\ Request /\ Lasting(db, db', {})
             /\ DOMAIN db.channels \subseteq DOMAIN db'.channels
  BY <1>i, LastingStep
<1> DEFINE Goal == /\ Request /\ Lasting(db, db', {})
                   /\ DOMAIN db.channels \subseteq DOMAIN db'.channels
<1>1. ASSUME NEW f \in Flows, NEW m \in Methods, RegisterWorkflow(f, m) PROVE Goal
  <2>1. db' = AddFlow(db, f, None, m) /\ ~db.flow[f].known /\ Request
    BY <1>1 DEF RegisterWorkflow
  <2>2. Lasting(db, db', {})
    BY <1>0, <2>1, AddFlowLasts
  <2> QED BY <1>0, <2>1, <2>2, AddFlowDoes
<1>2. ASSUME NEW f \in Flows, DeleteWorkflow(f) PROVE Goal
  <2>1. db' = RemoveFlows(db, {f}) /\ {f} \in SUBSET Flows /\ Request
    BY <1>2 DEF DeleteWorkflow
  <2> QED BY <1>0, <2>1, RemoveFlowsLasts, RemoveFlowsDoes
<1>3. ASSUME NEW f \in Flows, IssueKey(f) PROVE Goal
  BY <1>0, <1>3, StatementsLast, AddKeyDoes DEF IssueKey
<1>4. ASSUME NEW f \in Flows, NEW k \in Connectors, BindConnector(f, k) PROVE Goal
  BY <1>0, <1>4, StatementsLast, BindFlowDoes DEF BindConnector
<1>5. ASSUME NEW f \in Flows, NEW i \in Contracts(db), NEW s \in Setups, EditContract(f, i, s)
      PROVE  Goal
  <2> DEFINE e == SetSetup(db, i, s)
  <2>1. Lasting(db, e, {}) /\ e \in Tables /\ e.channels = db.channels
    BY <1>0, StatementsLast, SetSetupDoes DEF Contracts
  <2>2. \E n \in News : db' = [e EXCEPT !.news[f] = n]
    BY <1>0, <1>5, EditedNews
  <2> HIDE DEF e
  <2>4. Aside(e, db')
    BY <2>1, <2>2, OthersAside
  <2>5. Lasting(e, db', {})
    BY <2>1, <2>4, StatementsLast
  <2> QED BY <1>5, <2>1, <2>4, <2>5, LastingOn DEF EditContract, Aside
<1>6. ASSUME NEW f \in Flows, NEW n \in Tidings, Observe(f, n) PROVE Goal
  <2>1. n \in News
    BY FleetAssumption
  <2>2. Aside(db, db')
    BY <1>0, <1>6, <2>1, OthersAside DEF Observe
  <2> QED BY <1>0, <1>6, <2>2, StatementsLast DEF Observe, Aside
<1>7. ASSUME NEW j \in DOMAIN db.keys, RotateCredential(j) PROVE Goal
  <2> DEFINE e == RevokeKey(db, j)
             f == db.keys[j].flow
  <2>1. f \in Flows
    BY <1>0, KeyFlow
  <2>2. Lasting(db, e, {}) /\ e \in Tables /\ e.channels = db.channels
    BY <1>0, StatementsLast, RevokeKeyDoes
  <2>3. db' = AddKey(e, f) /\ Request
    BY <1>7 DEF RotateCredential, RotateKey
  <2> HIDE DEF e, f
  <2>4. Lasting(e, db', {}) /\ db'.channels = e.channels
    BY <2>1, <2>2, <2>3, StatementsLast, AddKeyDoes
  <2> QED BY <2>2, <2>3, <2>4, LastingOn
<1>8. ASSUME NEW j \in DOMAIN db.keys, RevokeCredential(j) PROVE Goal
  BY <1>0, <1>8, StatementsLast, RevokeKeyDoes DEF RevokeCredential
<1>9. ASSUME NEW i \in Contracts(db), DeactivateContract(i) PROVE Goal
  <2>1. db' = Deactivated(db, i) /\ i \in DOMAIN db.contracts /\ Request
    BY <1>9 DEF DeactivateContract, Deactivated, Contracts
  <2> QED BY <1>0, <2>1, StatementsLast, DeactivateDoes
<1>10. ASSUME NEW i \in Contracts(db), NEW s \in Setups, EditCadence(i, s) PROVE Goal
  <2>1. db' = SetSetup(db, i, s) /\ i \in DOMAIN db.contracts /\ Request
    BY <1>10 DEF EditCadence, Contracts
  <2> QED BY <1>0, <2>1, StatementsLast, SetSetupDoes
<1>11. ASSUME Aside(db, db'), Request PROVE Goal
  BY <1>0, <1>11, StatementsLast DEF Aside
<1>12. ASSUME CreateChannel PROVE Goal
  BY <1>0, <1>11, <1>12, AddChannelAside DEF CreateChannel
<1>13. ASSUME NEW ch \in DOMAIN db.channels, DisableChannel(ch) PROVE Goal
  BY <1>0, <1>11, <1>13, ChannelAside DEF DisableChannel
<1>14. ASSUME NEW ch \in DOMAIN db.channels, NEW h \in {"healthy", "degraded", "failing"},
              ChannelAnswers(ch, h)
       PROVE  Goal
  BY <1>0, <1>11, <1>14, ChannelAside DEF ChannelAnswers
<1>15. ASSUME NEW c \in Clients, RemoveClient(c) PROVE Goal
  <2> DEFINE e == RemoveFlows(db, Belongings(db, c))
  <2>1. Belongings(db, c) \in SUBSET Flows
    BY DEF Belongings
  <2>2. Lasting(db, e, {}) /\ e \in Tables /\ e.channels = db.channels
    BY <1>0, <2>1, RemoveFlowsLasts, RemoveFlowsDoes
  <2>3. db' = SetClient(e, c, "archived") /\ Request
    BY <1>15 DEF RemoveClient, ArchiveClient, Belongings
  <2>4. "archived" \in Standings
    BY DEF Standings
  <2> HIDE DEF e
  <2>5. Lasting(e, db', {}) /\ db'.channels = e.channels
    BY <2>2, <2>3, <2>4, StatementsLast, SetClientDoes
  <2> QED BY <2>2, <2>3, <2>5, LastingOn
<1>16. ASSUME NEW k \in Connectors, CreateConnector(k) PROVE Goal
  BY <1>0, <1>11, <1>16, OthersAside DEF CreateConnector
<1>17. ASSUME NEW k \in Connectors, DisableConnector(k) PROVE Goal
  BY <1>0, <1>11, <1>17, OthersAside DEF DisableConnector
<1>18. ASSUME NEW k \in Connectors, DeleteConnector(k) PROVE Goal
  <2>1. db' = DropConnector(db, k) /\ Request
    BY <1>18 DEF DeleteConnector
  <2> QED BY <1>0, <2>1, StatementsLast, DropConnectorDoes
<1>19. ASSUME NEW k \in Connectors, NEW h \in {"healthy", "unreachable"}, ConnectorAnswers(k, h)
       PROVE  Goal
  BY <1>0, <1>11, <1>19, OthersAside DEF ConnectorAnswers
<1> QED BY <1>1, <1>2, <1>3, <1>4, <1>5, <1>6, <1>7, <1>8, <1>9, <1>10, <1>12, <1>13,
           <1>14, <1>15, <1>16, <1>17, <1>18, <1>19 DEF FleetStep

\* and the older forms activate one at a time that does not count.
LEMMA ProtectStepKeeps ==
    ASSUME Inv, ProtectStep, NEW T, T \subseteq 0 .. calls, Kept(db, T, calls)
    PROVE  Kept(db', T, calls') /\ Onward
<1>0. db \in Tables /\ Sound(db, revived) /\ ContractsKnown(db) /\ calls \in Nat
  BY DEF Inv, Sound
<1>i. Inv'
  BY ProtectStepInv
<1> DEFINE Goal == Kept(db', T, calls') /\ Onward
<1>1. ASSUME NEW c \in Clients, ProtectClient(c) PROVE Goal
  <2>1. db' = SetClient(db, c, "onboarding") /\ "onboarding" \in Standings /\ Request
    BY <1>1 DEF ProtectClient, Standings
  <2>2. Lasting(db, db', {}) /\ db'.channels = db.channels
    BY <1>0, <2>1, StatementsLast, SetClientDoes
  <2> QED BY <1>i, <2>1, <2>2, LastingStep
<1>2. ASSUME NEW f \in Flows, NEW c \in Clients, NEW m \in Methods, ProtectWorkflow(f, c, m)
      PROVE  Goal
  <2>1. db' = AddFlow(db, f, c, m) /\ ~db.flow[f].known /\ Request
    BY <1>2 DEF ProtectWorkflow
  <2>2. Lasting(db, db', {}) /\ db'.channels = db.channels
    BY <1>0, <2>1, AddFlowLasts, AddFlowDoes
  <2> QED BY <1>i, <2>1, <2>2, LastingStep
<1>3. ASSUME NEW f \in Flows, NEW s \in Setups, ProtectContract(f, s) PROVE Goal
  <2>1. db' = AddContract(db, f, s) /\ Request
    BY <1>3 DEF ProtectContract
  <2>2. Lasting(db, db', {}) /\ db'.channels = db.channels
    BY <1>0, <2>1, StatementsLast, AddContractDoes
  <2> QED BY <1>i, <2>1, <2>2, LastingStep
<1>4. ASSUME NEW i \in Contracts(db), ProtectAlerts(i) PROVE Goal
  <2> DEFINE e == AddChannel(db)
             ch == Len(db.channels) + 1
  <2>1. Aside(db, e) /\ ch \in DOMAIN e.channels
    BY <1>0, AddChannelAside
  <2>2. Lasting(db, e, {}) /\ e \in Tables
    BY <1>0, <2>1, StatementsLast DEF Aside
  <2>3. db' = AddRoute(e, i, ch) /\ i \in DOMAIN e.contracts /\ Request
    BY <1>4, <2>1 DEF ProtectAlerts, Contracts, Aside
  <2> HIDE DEF e, ch
  <2>4. Lasting(e, db', {}) /\ db'.channels = e.channels
    BY <2>1, <2>2, <2>3, StatementsLast, AddRouteDoes
  <2>5. Lasting(db, db', {}) /\ DOMAIN db.channels \subseteq DOMAIN db'.channels
    BY <2>1, <2>2, <2>4, LastingOn DEF Aside
  <2> QED BY <1>i, <2>3, <2>5, LastingStep
<1>5. ASSUME NEW i \in Contracts(db), NEW c \in Clients \cup {None}, NEW a \in BOOLEAN,
             ProtectActivate(i, c, a)
      PROVE  Goal
  <2> DEFINE f == db.contracts[i].flow
             m == db.flow[f].method
             n == calls'
             d1 == ActivateContract(db, i, n)
             d2 == ActivateFlow(d1, f, m)
             d3 == Seed(d2, f)
  <2>1. /\ f \in Flows /\ m \in Methods /\ i \in DOMAIN db.contracts
        /\ n \in Nat /\ n = calls + 1 /\ n = calls'
    BY <1>0, <1>5, ContractFlow, FlowMethod DEF Contracts, ProtectActivate, Request
  <2>2. ~Refuses(db, i) /\ db' = IF c = None THEN d3 ELSE SetClient(d3, c, "protected")
    BY <1>5 DEF ProtectActivate
  <2> HIDE DEF n, m
  <2>3. Kept(db, T, n)
    BY <1>0, <2>1, KeptLater
  <2>4. d1 \in Tables /\ DOMAIN d1.contracts = DOMAIN db.contracts /\ d1.channels = db.channels
    BY <1>0, <2>1, ActivateContractDoes
  <2>5. Signing(d1, T, f, n, n)
    BY <1>0, <2>1, <2>2, <2>3, ActivationSigns
  <2> HIDE DEF f, d1
  <2>6. d2 \in Tables /\ d2.contracts = d1.contracts /\ d2.channels = d1.channels
    BY <2>1, <2>4, ActivateFlowDoes
  <2>7. Lasting(d1, d2, {f})
    BY <2>1, <2>4, StatementsLast
  <2>8. Signing(d2, T, f, n, n)
    BY <2>1, <2>5, <2>7, LastingSigning
  <2> HIDE DEF d2
  <2>9. Kept(d2, T, n)
    <3>1. n \notin T
      BY <1>0, <2>1
    <3> QED BY <2>8, <3>1, SigningKept
  <2>10. Aside(d2, d3) /\ d3 \in Tables
    BY <2>1, <2>6, OthersAside DEF Aside
  <2>11. Lasting(d2, d3, {})
    BY <2>6, <2>10, StatementsLast
  <2> HIDE DEF d3
  <2>12. Lasting(d3, db', {}) /\ db'.channels = d3.channels /\ db'.contracts = d3.contracts
    <3>1. CASE c = None
      BY <2>2, <3>1 DEF Lasting
    <3>2. CASE c # None
      <4>1. db' = SetClient(d3, c, "protected") /\ c \in Clients /\ "protected" \in Standings
        BY <2>2, <3>2 DEF Standings
      <4> QED BY <2>10, <4>1, StatementsLast, SetClientDoes
    <3> QED BY <3>1, <3>2
  <2>13. Lasting(d2, db', {})
    BY <2>11, <2>12, LastingOn
  <2>14. Kept(db', T, n)
    BY <2>1, <2>9, <2>13, LastingKept
  <2>15. Onward
    BY <1>0, <2>1, <2>4, <2>6, <2>10, <2>12 DEF Onward, Aside
  <2> QED BY <2>1, <2>14, <2>15
<1> QED BY <1>1, <1>2, <1>3, <1>4, <1>5 DEF ProtectStep

-----------------------------------------------------------------------------
(* The end of an activation                                                *)

\* Between d and e some of X come into watch or are heard, and none is removed.
Shows(d, e, X) ==
    /\ OnWatch(d) \subseteq OnWatch(e) /\ OnWatch(e) \subseteq OnWatch(d) \cup X
    /\ Heard(d) \subseteq Heard(e) /\ Heard(e) \subseteq Heard(d) \cup X
    /\ Removed(e) = Removed(d)

\* Rows of contracts and channels are never deleted.
Grows(d, e) ==
    /\ DOMAIN d.contracts \subseteq DOMAIN e.contracts
    /\ DOMAIN d.channels \subseteq DOMAIN e.channels

\* What comes after the loop does not show, nor lose what is kept.
LEMMA AfterLoop ==
    ASSUME NEW d, NEW e, NEW X, Moves(d, e, X), NEW g, SameView(e, g), Grows(e, g)
    PROVE  Shows(d, g, X) /\ Grows(d, g)
BY DEF Moves, SameView, Shows, Grows, OnWatch, Heard, Removed

\* Taking up those of X that were removed is a move of the roster.
LEMMA TakingUpMoves ==
    ASSUME NEW X \in SUBSET Flows, NEW c, Shows(db, db', X),
           revived' = revived \cup {f \in X : TakenUp(db, f, c)}
    PROVE  RosterStep
<1> DEFINE W == OnWatch(db') \ OnWatch(db)
           H == Heard(db') \ Heard(db)
<1>1. W \in SUBSET X /\ H \in SUBSET X
  BY DEF Shows
<1>2. OnWatch(db') = OnWatch(db) \cup W /\ Heard(db') = Heard(db) \cup H
  BY DEF Shows
<1>3. Removed(db') \ revived' = (Removed(db) \ revived) \ X
  BY DEF Shows, Removed, TakenUp
<1> HIDE DEF W, H
<1>4. Shown' = <<OnWatch(db) \cup W, Heard(db) \cup H, (Removed(db) \ revived) \ X>>
  BY <1>2, <1>3 DEF Shown
<1> QED BY <1>1, <1>4, RosterMoves DEF RosterStep

\* To be called protected switches nothing on.
LEMMA PromotedDoes ==
    ASSUME NEW d, NEW R, Sound(d, R), NEW c \in Clients \cup {None},
           NEW e, e = Promoted(d, c)
    PROVE  Sound(e, R) /\ SameView(d, e) /\ Lasting(d, e, {}) /\ Grows(d, e)
<1>1. CASE c = None
  BY <1>1 DEF Promoted, SameView, Lasting, Grows
<1>2. CASE c # None
  <2>1. /\ e = SetClient(d, c, "protected") /\ c \in Clients /\ "protected" \in Standings
        /\ d \in Tables
    BY <1>2 DEF Promoted, Standings, Sound
  <2>2. Sound(e, R)
    <3>1. "protected" # "archived"
      OBVIOUS
    <3> QED BY <2>1, <3>1, SetClientSound
  <2>3. SameView(d, e) /\ Lasting(d, e, {})
    BY <2>1, QuietStatements, StatementsLast
  <2>4. e.contracts = d.contracts /\ e.channels = d.channels
    BY <2>1, SetClientDoes
  <2> QED BY <2>2, <2>3, <2>4 DEF Grows
<1> QED BY <1>1, <1>2

\* Nor does the repair at start, which gives contracts other settings.
LEMMA RepairedDoes ==
    ASSUME NEW d, NEW R, Sound(d, R), NEW x, DraftSound(x, d), NEW over,
           NEW e, e = Repaired(d, x, over)
    PROVE  Sound(e, R) /\ SameView(d, e) /\ Lasting(d, e, {}) /\ Grows(d, e)
<1>1. CASE ~over \/ x.activatedAt = 0
  <2>1. e = d
    BY <1>1 DEF Repaired
  <2> QED BY <2>1 DEF SameView, Lasting, Grows
<1>2. CASE ~(~over \/ x.activatedAt = 0)
  <2> DEFINE S == {f \in Configured(x) : Repairable(d, x, f)}
             cs == [i \in DOMAIN d.contracts |->
                      IF \E f \in S : x.configs[f].contract = i
                      THEN [d.contracts[i] EXCEPT
                              !.setup = x.configs[d.contracts[i].flow].setup]
                      ELSE d.contracts[i]]
  <2>0. d \in Tables /\ d.contracts \in Seq(ContractTyped)
    BY DEF Sound, Tables
  <2>1. e = [d EXCEPT !.contracts = cs]
    BY <1>2 DEF Repaired
  <2>2. ASSUME NEW i \in DOMAIN d.contracts
        PROVE  /\ cs[i] \in ContractTyped
               /\ cs[i].flow = d.contracts[i].flow
               /\ cs[i].active = d.contracts[i].active
               /\ cs[i].at = d.contracts[i].at
    <3>1. d.contracts[i] \in ContractTyped
      BY <2>0
    <3>2. CASE \E f \in S : x.configs[f].contract = i
      <4>1. PICK f \in S : x.configs[f].contract = i
        BY <3>2
      <4>2. f \in Flows /\ x.configs[f] # NoConfig /\ d.contracts[i].flow = f
        BY <4>1 DEF Configured, Repairable, DraftSound, DraftTyped
      <4>3. x.configs[d.contracts[i].flow].setup \in Setups
        BY <4>2 DEF DraftSound
      <4>4. cs[i] = [d.contracts[i] EXCEPT !.setup = x.configs[d.contracts[i].flow].setup]
        BY <3>2
      <4> QED BY <3>1, <4>3, <4>4 DEF ContractTyped
    <3>3. CASE ~\E f \in S : x.configs[f].contract = i
      BY <3>1, <3>3
    <3> QED BY <3>2, <3>3
  <2>3. DOMAIN cs = DOMAIN d.contracts /\ cs = [i \in DOMAIN d.contracts |-> cs[i]]
    OBVIOUS
  <2> HIDE DEF cs, S
  <2>4. cs \in Seq(ContractTyped)
    BY <2>0, <2>2, <2>3, MappedRows
  <2>5. /\ e \in Tables
        /\ e.client = d.client /\ e.flow = d.flow /\ e.keys = d.keys
        /\ e.channels = d.channels /\ e.routes = d.routes /\ e.stated = d.stated
        /\ e.contracts = cs
    BY <2>0, <2>1, <2>4, ContractsTyped DEF Tables
  <2>6. Within(d, e, R)
    BY <2>2, <2>3, <2>5 DEF Within
  <2>7. SameView(d, e)
    BY <2>2, <2>3, <2>5, SameRows
  <2>8. Lasting(d, e, {})
    BY <2>0, <2>2, <2>3, <2>5, SameContracts
  <2> QED BY <2>3, <2>5, <2>6, <2>7, <2>8, WithinSound DEF Grows
<1> QED BY <1>1, <1>2

\* The answers of the form leave the draft sound, and its time.
LEMMA AnsweredSound ==
    ASSUME NEW answer, NEW d, DraftSound(answer.draft, d), answer.channel \in Nat
    PROVE  /\ DraftSound(Answered(answer), d)
           /\ Answered(answer).activatedAt = answer.draft.activatedAt
           /\ Answered(answer).client = answer.draft.client
           /\ Answered(answer).client \in Clients \cup {None}
<1> DEFINE y == answer.draft
           ch == IF answer.channel = 0 THEN y.channel ELSE answer.channel
<1>1. y \in DraftTyped
  BY DEF DraftSound
<1>2. ch \in Nat
  BY <1>1 DEF DraftTyped
<1>3. Answered(answer) = [y EXCEPT !.channel = ch]
  BY <1>1 DEF Answered, DraftTyped
<1> HIDE DEF ch
<1>4. /\ [y EXCEPT !.channel = ch] \in DraftTyped
      /\ [y EXCEPT !.channel = ch].configs = y.configs
      /\ [y EXCEPT !.channel = ch].activatedAt = y.activatedAt
      /\ [y EXCEPT !.channel = ch].client = y.client
      /\ y.client \in Clients \cup {None}
  BY <1>1, <1>2 DEF DraftTyped
<1> QED BY <1>3, <1>4 DEF DraftSound

\* What a form is given that is answered now.
Answerable(answer) ==
    /\ DraftSound(answer.draft, db)
    /\ answer.channel \in {0} \cup DOMAIN db.channels
    /\ answer.now \in Nat

\* The workflows of the form are given to the loop.
LEMMA AnsweredGiven ==
    ASSUME Inv, NEW answer, Answerable(answer), NEW X, X \subseteq Configured(Answered(answer)),
           NEW R, revived \subseteq R,
           \A f \in X : TakenUp(db, f, Answered(answer).client) => f \in R
    PROVE  /\ Given(Answered(answer), answer.channel, R, X) /\ Sound(db, R)
           /\ X \in SUBSET Flows
<1>1. answer.channel \in Nat
  BY DEF Answerable, Inv, Sound, Tables
<1>2. DraftSound(Answered(answer), db)
  BY <1>1, AnsweredSound DEF Answerable
<1>3. Sound(db, R) /\ revived \subseteq Flows
  BY MoreRevived DEF Inv
<1>4. X \in SUBSET Flows
  BY <1>2 DEF DraftSound, DraftTyped, Configured
<1>5. Given(Answered(answer), answer.channel, R, X)
  BY <1>2 DEF Given, Answerable
<1> QED BY <1>3, <1>4, <1>5

\* The end of the form keeps the tables sound and what is kept, and it is a
\* move of the roster.
LEMMA FinishedDoes ==
    ASSUME Inv, NEW t, NEW answer, Answerable(answer), Finished(t, answer),
           NEW T, NEW k \in Nat, answer.now <= k, Kept(db, T, k)
    PROVE  /\ Sound(db', revived') /\ revived' \subseteq Flows
           /\ Kept(db', T, k) /\ Grows(db, db')
           /\ DraftSound(draft', db')
           /\ draft'.activatedAt \in {answer.draft.activatedAt, answer.now}
           /\ tab' = [tab EXCEPT ![t] = Idle]
           /\ RosterStep
<1> DEFINE x == Answered(answer)
           X == Configured(x)
           R == revived \cup {f \in X : TakenUp(db, f, x.client)}
           done == Activated(X, x, answer.channel, answer.acknowledged, answer.now)
<1>0. answer.channel \in Nat
  BY DEF Answerable, Inv, Sound, Tables
<1>1. /\ DraftSound(x, db) /\ x.activatedAt = answer.draft.activatedAt
      /\ x.client \in Clients \cup {None}
  BY <1>0, AnsweredSound DEF Answerable
<1>2. /\ Given(x, answer.channel, R, X) /\ Sound(db, R)
      /\ X \in SUBSET Flows /\ R \subseteq Flows
  <2>1. revived \subseteq R /\ \A f \in X : TakenUp(db, f, x.client) => f \in R
    OBVIOUS
  <2>2. R \subseteq revived \cup X
    OBVIOUS
  <2> HIDE DEF R
  <2>3. /\ Given(x, answer.channel, R, X) /\ Sound(db, R) /\ X \in SUBSET Flows
    BY <2>1, AnsweredGiven
  <2> QED BY <2>2, <2>3 DEF Inv
<1>3. tab' = [tab EXCEPT ![t] = Idle]
  BY DEF Finished, Wait
<1>4. CASE answer.activate /\ X # {}
  <2>1. /\ draft' = [done.draft EXCEPT !.activatedAt = answer.now]
        /\ db' = Promoted(done.tables, x.client)
        /\ revived' = R
    BY <1>4 DEF Finished, SetStep
  <2>2. Looped(done, x, R, T, k, X)
    <3>1. answer.now \in Nat
      BY DEF Answerable
    <3> HIDE DEF x, X, R
    <3> QED BY <1>2, <3>1, ActivatedDoes
  <2> HIDE DEF x, X, done
  <2>3. /\ Sound(done.tables, R) /\ Kept(done.tables, T, k) /\ Moves(db, done.tables, X)
        /\ DraftSound(done.draft, done.tables)
    BY <2>2 DEF Looped
  <2>4. /\ Sound(db', R) /\ SameView(done.tables, db') /\ Lasting(done.tables, db', {})
        /\ Grows(done.tables, db')
    BY <1>1, <2>1, <2>3, PromotedDoes
  <2>5. Kept(db', T, k)
    BY <2>3, <2>4, LastingKept
  <2>6. Shows(db, db', X) /\ Grows(db, db')
    BY <2>3, <2>4, AfterLoop
  <2>7. DraftSound(done.draft, db')
    BY <2>3, <2>4, DraftKeeps DEF Grows
  <2>8. DraftSound(draft', db') /\ draft'.activatedAt = answer.now
    <3>1. done.draft \in DraftTyped /\ answer.now \in Nat
      BY <2>7 DEF DraftSound, Answerable
    <3>2. /\ draft' \in DraftTyped /\ draft'.activatedAt = answer.now
          /\ draft'.configs = done.draft.configs
      BY <2>1, <3>1 DEF DraftTyped
    <3> QED BY <2>7, <3>2 DEF DraftSound
  <2>9. RosterStep
    BY <1>2, <2>1, <2>6, TakingUpMoves
  <2> QED BY <1>2, <1>3, <2>1, <2>4, <2>5, <2>6, <2>8, <2>9
<1>5. CASE ~(answer.activate /\ X # {})
  <2>1. draft' = x /\ db' = db /\ revived' = revived
    BY <1>5 DEF Finished, SetStep
  <2>2. RosterStep
    <3>1. Shown' = Shown
      BY <2>1, ShownStutters DEF SameView
    <3> QED BY <3>1, RosterMoves DEF RosterStep
  <2> QED BY <1>1, <1>3, <2>1, <2>2 DEF Inv, Grows
<1> QED BY <1>4, <1>5

\* And so does a process that is killed in the loop or behind it, as long as the
\* time of the form does not count.
LEMMA KilledDoes ==
    ASSUME Inv, NEW answer, NEW done, NEW f, NEW n \in 1 .. Whole, KilledIn(answer, done, f, n),
           Answerable(answer), NEW T, NEW k \in Nat, answer.now <= k, answer.now \notin T,
           Kept(db, T, k)
    PROVE  /\ Sound(db', revived') /\ revived' \subseteq Flows
           /\ Kept(db', T, k) /\ Grows(db, db')
           /\ DraftSound(draft', db')
           /\ draft'.activatedAt = answer.draft.activatedAt
           /\ tab' = [u \in Tabs |-> Idle]
           /\ RosterStep
<1> DEFINE x == Answered(answer)
           X == done \cup {f}
           R == revived \cup {g \in X : TakenUp(db, g, x.client)}
           before == Activated(done, x, answer.channel, answer.acknowledged, answer.now)
           d == before.tables
           st == Stages(d, f, x, answer.channel, answer.now)
           reach == Reach(st, f, x, answer.acknowledged)
<1>0. answer.channel \in Nat /\ answer.now \in Nat
  BY DEF Answerable, Inv, Sound, Tables
<1>1. /\ DraftSound(x, db) /\ x.activatedAt = answer.draft.activatedAt
      /\ x.client \in Clients \cup {None}
  BY <1>0, AnsweredSound DEF Answerable
<1>2. /\ X \subseteq Configured(x) /\ n <= reach
      /\ draft' = x /\ revived' = R
      /\ \E e \in {st[n], Promoted(st[n], x.client)} : db' = Repaired(e, x, completed)
      /\ tab' = [u \in Tabs |-> Idle]
  BY DEF KilledIn, SetStep, Forgotten
<1>3. /\ Given(x, answer.channel, R, X) /\ Sound(db, R)
      /\ X \in SUBSET Flows /\ R \subseteq Flows
  <2>1. revived \subseteq R /\ \A g \in X : TakenUp(db, g, x.client) => g \in R
    OBVIOUS
  <2>2. R \subseteq revived \cup X
    OBVIOUS
  <2> HIDE DEF R, X
  <2>3. /\ Given(x, answer.channel, R, X) /\ Sound(db, R) /\ X \in SUBSET Flows
    BY <1>2, <2>1, AnsweredGiven
  <2> QED BY <2>2, <2>3 DEF Inv
<1>4. Given(x, answer.channel, R, done)
  BY <1>3 DEF Given
<1> HIDE DEF x, R
<1>5. Looped(before, x, R, T, k, done)
  BY <1>0, <1>3, <1>4, ActivatedDoes
<1> HIDE DEF before
<1>6. Sound(d, R) /\ Kept(d, T, k) /\ Moves(db, d, X)
  <2>1. Moves(db, d, done)
    BY <1>5 DEF Looped
  <2> QED BY <1>5, <2>1 DEF Looped, Moves
<1>7. /\ f \in Flows /\ x \in DraftTyped /\ x.configs[f].setup \in Setups
      /\ Free(d, R, f) /\ answer.channel \in {0} \cup DOMAIN d.channels
      /\ d.flow[f].known \/ x.client = None \/ d.client[x.client] # "archived" \/ f \in R
  <2>1. f \in X
    OBVIOUS
  <2> HIDE DEF X, d
  <2> QED BY <1>3, <1>6, <2>1, GivenOn
<1> HIDE DEF d
<1>8. /\ \A m \in 1 .. 4 : Sound(st[m], R) /\ Moves(d, st[m], {f}) /\ Kept(st[m], T, k)
      /\ ~Refuses(st[4], Latest(st[4], f)) =>
            \A m \in 5 .. 8 : /\ Sound(st[m], R) /\ Moves(d, st[m], {f})
                              /\ answer.now \notin T \/ m = 8 => Kept(st[m], T, k)
  BY <1>0, <1>6, <1>7, StagesDo
<1> HIDE DEF st
<1>9. reach \in {1, 4, 8} /\ (reach = 8 => ~Refuses(st[4], Latest(st[4], f)))
  BY ReachIs
<1> HIDE DEF reach
<1>10. Sound(st[n], R) /\ Moves(d, st[n], {f}) /\ Kept(st[n], T, k)
  <2>1. n \in 1 .. 4 \/ (n \in 5 .. 8 /\ reach = 8)
    BY <1>2, <1>9 DEF Whole
  <2> QED BY <1>8, <1>9, <2>1
<1>11. Moves(db, st[n], X)
  <2>1. Moves(d, st[n], X)
    BY <1>10 DEF Moves
  <2> QED BY <1>6, <2>1, MovesOn
<1>12. PICK e \in {st[n], Promoted(st[n], x.client)} : db' = Repaired(e, x, completed)
  BY <1>2
<1>13. Sound(e, R) /\ SameView(st[n], e) /\ Lasting(st[n], e, {}) /\ Grows(st[n], e)
  <2>1. CASE e = st[n]
    BY <1>10, <2>1 DEF SameView, Lasting, Grows
  <2>2. CASE e = Promoted(st[n], x.client)
    BY <1>1, <1>10, <2>2, PromotedDoes
  <2> QED BY <1>12, <2>1, <2>2
<1>14. Shows(db, e, X) /\ Grows(db, e) /\ Kept(e, T, k)
  BY <1>10, <1>11, <1>13, AfterLoop, LastingKept
<1>15. DraftSound(x, e)
  BY <1>1, <1>14, DraftKeeps DEF Grows
<1>16. /\ Sound(db', R) /\ SameView(e, db') /\ Lasting(e, db', {})
       /\ Grows(e, db')
  BY <1>12, <1>13, <1>15, RepairedDoes
<1>17. Kept(db', T, k)
  BY <1>14, <1>16, LastingKept
<1>18. Shows(db, db', X) /\ Grows(db, db')
  <2>1. SameView(st[n], db') /\ Grows(st[n], db')
    BY <1>13, <1>16 DEF SameView, Grows
  <2> QED BY <1>11, <2>1, AfterLoop
<1>19. DraftSound(draft', db')
  BY <1>2, <1>15, <1>16, DraftKeeps DEF Grows
<1>20. RosterStep
  BY <1>2, <1>3, <1>18, TakingUpMoves DEF R
<1> QED BY <1>1, <1>2, <1>3, <1>16, <1>17, <1>18, <1>19, <1>20

-----------------------------------------------------------------------------
(* Drafts and tabs                                                         *)

\* What a tab holds in each of its states.
Asking == [kind : {"connect", "list"}, draft : DraftTyped, connector : Connectors]
Selecting == [kind : {"select"}, draft : DraftTyped, chosen : SUBSET Flows]
Alerting == [kind : {"alerts"}, draft : DraftTyped, channel : Nat,
             acknowledged : BOOLEAN, activate : BOOLEAN, now : Nat]

\* The tabs that wait for something, and those that are about to activate.
Waiting == {t \in Tabs : tab[t].kind # "idle"}
Activating == {t \in Tabs : tab[t].kind = "alerts"}

TabsTyped ==
    /\ tab = [t \in Tabs |-> tab[t]]
    /\ \A t \in Tabs : tab[t] \in {Idle} \cup Asking \cup Selecting \cup Alerting

\* The draft and those that are waited with.
Drafts == {draft} \cup {tab[t].draft : t \in Waiting}

\* The times of which a draft may come to say that the wizard activated.
Times == {x.activatedAt : x \in Drafts} \cup {tab[t].now : t \in Activating}

\* A tab that activates was asked to at a time of its own.
Own(t) ==
    /\ tab[t].channel \in DOMAIN db.channels
    /\ tab[t].now \in 1 .. calls
    /\ \A x \in Drafts : x.activatedAt # tab[t].now
    /\ \A u \in Activating \ {t} : tab[u].now # tab[t].now

\* The invariant of the wizard with the pages beside it.
WizardInv ==
    /\ Inv
    /\ TabsTyped
    /\ \A x \in Drafts : DraftSound(x, db) /\ x.activatedAt <= calls
    /\ \A t \in Activating : Own(t)
    /\ Kept(db, Times, calls)

\* What a tab may be.
Tab == {Idle} \cup Asking \cup Selecting \cup Alerting

\* The kind of a tab tells what it holds.
LEMMA KindOf ==
    ASSUME TabsTyped, NEW t \in Tabs
    PROVE  /\ tab[t].kind \in {"connect", "list"} => tab[t] \in Asking
           /\ tab[t].kind = "select" => tab[t] \in Selecting
           /\ tab[t].kind = "alerts" => tab[t] \in Alerting
           /\ tab[t].kind # "idle" => tab[t].draft \in Drafts
<1>1. tab[t] \in {Idle} \cup Asking \cup Selecting \cup Alerting
  BY DEF TabsTyped
<1>2. tab[t].kind # "idle" => tab[t].draft \in Drafts
  BY DEF Drafts, Waiting
<1> QED BY <1>1, <1>2 DEF Idle, Asking, Selecting, Alerting

\* One tab changes at a time.
LEMMA WaitDoes ==
    ASSUME TabsTyped, NEW t \in Tabs, NEW r \in Tab, tab' = [tab EXCEPT ![t] = r]
    PROVE  /\ TabsTyped'
           /\ tab'[t] = r /\ \A u \in Tabs \ {t} : tab'[u] = tab[u]
           /\ \A x \in Drafts' : \/ x = draft' \/ x \in Drafts
                                 \/ r.kind # "idle" /\ x = r.draft
           /\ \A u \in Activating' : \/ u \in Activating \ {t} /\ tab'[u] = tab[u]
                                     \/ u = t /\ r.kind = "alerts"
<1>1. tab = [u \in Tabs |-> tab[u]]
  BY DEF TabsTyped
<1>2. tab'[t] = r /\ \A u \in Tabs \ {t} : tab'[u] = tab[u]
  BY <1>1
<1>3. tab' = [u \in Tabs |-> tab'[u]]
  BY <1>1
<1>4. TabsTyped'
  BY <1>2, <1>3 DEF TabsTyped, Tab
<1>5. ASSUME NEW x \in Drafts'
      PROVE  x = draft' \/ x \in Drafts \/ (r.kind # "idle" /\ x = r.draft)
  <2>1. CASE x = draft'
    BY <2>1
  <2>2. CASE x # draft'
    <3>1. PICK u \in Tabs : tab'[u].kind # "idle" /\ x = tab'[u].draft
      BY <2>2 DEF Drafts, Waiting
    <3> QED BY <1>2, <3>1 DEF Drafts, Waiting
  <2> QED BY <2>1, <2>2
<1>6. ASSUME NEW u \in Activating'
      PROVE  (u \in Activating \ {t} /\ tab'[u] = tab[u]) \/ (u = t /\ r.kind = "alerts")
  BY <1>2 DEF Activating
<1> QED BY <1>2, <1>4, <1>5, <1>6

\* A draft whose settings come from another one is as sound.
LEMMA DraftEdited ==
    ASSUME NEW x, NEW d, DraftSound(x, d), NEW y \in DraftTyped,
           \A f \in Flows : \/ y.configs[f] = x.configs[f]
                            \/ y.configs[f] = NoConfig
                            \/ /\ y.configs[f].setup \in Setups
                               /\ y.configs[f].contract \in {0, x.configs[f].contract}
    PROVE  DraftSound(y, d)
BY DEF DraftSound, NoConfig

-----------------------------------------------------------------------------
(* The quiet steps of the wizard                                           *)

\* A step that activates nothing, and does not show.
Quietly ==
    /\ revived' = revived /\ calls' \in {calls, calls + 1}
    /\ Sound(db', revived) /\ Lasting(db, db', {}) /\ Grows(db, db') /\ SameView(db, db')

\* What concerns no workflow is quiet.
LEMMA AsideQuietly ==
    ASSUME Inv, Aside(db, db'), revived' = revived, calls' \in {calls, calls + 1}
    PROVE  Quietly
<1>1. db \in Tables /\ Sound(db, revived)
  BY DEF Inv, Sound
<1>2. Sound(db', revived)
  BY <1>1, AsideWithin, WithinSound
<1>3. Lasting(db, db', {}) /\ SameView(db, db')
  BY <1>1, StatementsLast, QuietStatements
<1> QED BY <1>2, <1>3 DEF Quietly, Grows, Aside

\* So is what does not touch the tables.
LEMMA NothingAside ==
    ASSUME Inv, db' = db
    PROVE  Aside(db, db')
BY DEF Inv, Sound, Aside

\* After such a step the drafts and the tabs may be others, as long as their
\* times are those there were.
LEMMA QuietStep ==
    ASSUME WizardInv, Quietly, TabsTyped',
           \A x \in Drafts' : DraftSound(x, db) /\ \E y \in Drafts : x.activatedAt = y.activatedAt,
           \A t \in Activating' : t \in Activating /\ tab'[t] = tab[t]
    PROVE  WizardInv' /\ RosterStep
<1>1. /\ calls \in Nat /\ calls' \in Nat /\ calls <= calls' /\ db \in Tables /\ db' \in Tables
      /\ DOMAIN db.contracts \subseteq DOMAIN db'.contracts
      /\ DOMAIN db.channels \subseteq DOMAIN db'.channels
  BY DEF WizardInv, Inv, Sound, Quietly, Grows
<1>2. Inv'
  BY <1>1 DEF WizardInv, Inv, Quietly
<1>3. \A x \in Drafts' : DraftSound(x, db') /\ x.activatedAt <= calls'
  <2>1. ASSUME NEW x \in Drafts' PROVE DraftSound(x, db') /\ x.activatedAt <= calls'
    <3>1. PICK y \in Drafts : x.activatedAt = y.activatedAt
      BY <2>1
    <3>2. y.activatedAt \in Nat /\ y.activatedAt <= calls
      BY DEF WizardInv, DraftSound, DraftTyped
    <3>3. DraftSound(x, db')
      BY <1>1, <2>1, DraftKeeps
    <3> QED BY <1>1, <3>1, <3>2, <3>3
  <2> QED BY <2>1
<1>4. ASSUME NEW t \in Activating' PROVE Own(t)'
  <2>1. t \in Activating /\ tab'[t] = tab[t] /\ Own(t)
    BY <1>4 DEF WizardInv
  <2>2. tab'[t].channel \in DOMAIN db'.channels /\ tab'[t].now \in 1 .. calls'
    BY <1>1, <2>1 DEF Own
  <2>3. \A x \in Drafts' : x.activatedAt # tab'[t].now
    BY <2>1 DEF Own
  <2>4. \A u \in Activating' \ {t} : tab'[u].now # tab'[t].now
    BY <2>1 DEF Own
  <2> QED BY <2>2, <2>3, <2>4 DEF Own
<1>5. Times' \subseteq Times
  <2>1. ASSUME NEW n \in Times' PROVE n \in Times
    <3>1. CASE \E x \in Drafts' : n = x.activatedAt
      BY <3>1 DEF Times
    <3>2. CASE \E t \in Activating' : n = tab'[t].now
      BY <3>2 DEF Times
    <3> QED BY <3>1, <3>2 DEF Times
  <2> QED BY <2>1
<1>6. Kept(db', Times', calls')
  <2>1. Kept(db', Times, calls)
    BY <1>1, LastingKept DEF WizardInv, Quietly
  <2> HIDE DEF Times
  <2> QED BY <1>1, <1>5, <2>1, KeptLater
<1>7. RosterStep
  BY ShownStutters, RosterMoves DEF Quietly, RosterStep
<1> QED BY <1>2, <1>3, <1>4, <1>6, <1>7 DEF WizardInv

\* Such a step may write the draft,
LEMMA DraftStep ==
    ASSUME WizardInv, Quietly, UNCHANGED tab, DraftSound(draft', db),
           draft'.activatedAt = draft.activatedAt
    PROVE  WizardInv' /\ RosterStep
<1>1. TabsTyped'
  BY DEF WizardInv, TabsTyped
<1>2. Activating' = Activating
  BY DEF Activating
<1>3. \A x \in Drafts' : x = draft' \/ x \in Drafts
  BY DEF Drafts, Waiting
<1>4. draft \in Drafts
  BY DEF Drafts
<1>5. \A x \in Drafts' : DraftSound(x, db) /\ \E y \in Drafts : x.activatedAt = y.activatedAt
  BY <1>3, <1>4 DEF WizardInv
<1> QED BY <1>1, <1>2, <1>5, QuietStep

\* and let a tab wait, but not for an activation.
LEMMA TabStep ==
    ASSUME WizardInv, Quietly, NEW t \in Tabs, NEW r \in {Idle} \cup Asking \cup Selecting,
           Wait(t, r), r # Idle => r.draft \in Drafts,
           DraftSound(draft', db), \E y \in Drafts : draft'.activatedAt = y.activatedAt
    PROVE  WizardInv' /\ RosterStep
<1>1. r \in Tab /\ r.kind # "alerts" /\ (r.kind # "idle" => r # Idle)
  BY DEF Tab, Idle, Asking, Selecting
<1>2. /\ TabsTyped'
      /\ \A x \in Drafts' : x = draft' \/ x \in Drafts \/ (r.kind # "idle" /\ x = r.draft)
      /\ \A u \in Activating' : u \in Activating \ {t} /\ tab'[u] = tab[u]
  <2>1. TabsTyped /\ tab' = [tab EXCEPT ![t] = r] /\ r \in Tab
    BY <1>1 DEF WizardInv, Wait
  <2>2. /\ TabsTyped'
        /\ \A x \in Drafts' : x = draft' \/ x \in Drafts \/ (r.kind # "idle" /\ x = r.draft)
        /\ \A u \in Activating' : \/ u \in Activating \ {t} /\ tab'[u] = tab[u]
                                  \/ u = t /\ r.kind = "alerts"
    BY <2>1, WaitDoes
  <2> QED BY <1>1, <2>2
<1>3. \A x \in Drafts' : DraftSound(x, db) /\ \E y \in Drafts : x.activatedAt = y.activatedAt
  BY <1>1, <1>2 DEF WizardInv
<1> QED BY <1>2, <1>3, QuietStep

-----------------------------------------------------------------------------
(* Each step of the wizard                                                 *)

\* A client is picked or entered,
LEMMA PickClientKeeps ==
    ASSUME WizardInv, NEW c \in Clients, PickClient(c)
    PROVE  WizardInv' /\ RosterStep
<1>0. Inv /\ Sound(db, revived) /\ db \in Tables /\ draft \in Drafts
  BY DEF WizardInv, Inv, Sound, Drafts
<1>1. Quietly
  <2>1. revived' = revived /\ calls' \in {calls, calls + 1}
    BY DEF PickClient, Request, Besides
  <2>2. CASE db' = db
    BY <1>0, <2>1, <2>2, NothingAside, AsideQuietly
  <2>3. CASE db' # db
    <3>1. db' = SetClient(db, c, "onboarding") /\ "onboarding" \in Standings
      BY <2>3 DEF PickClient, Standings
    <3>2. Sound(db', revived)
      <4>1. "onboarding" # "archived"
        OBVIOUS
      <4> QED BY <1>0, <3>1, <4>1, SetClientSound
    <3>3. Lasting(db, db', {}) /\ SameView(db, db')
      BY <1>0, <3>1, StatementsLast, QuietStatements
    <3>4. Grows(db, db')
      BY <1>0, <3>1, SetClientDoes DEF Grows
    <3> QED BY <2>1, <3>2, <3>3, <3>4 DEF Quietly
  <2> QED BY <2>2, <2>3
<1>2. draft' = [draft EXCEPT !.client = c] /\ UNCHANGED tab
  BY DEF PickClient, SetStep
<1>3. draft \in DraftTyped /\ DraftSound(draft, db)
  BY <1>0 DEF WizardInv, DraftSound
<1>4. /\ draft' \in DraftTyped /\ draft'.configs = draft.configs
      /\ draft'.activatedAt = draft.activatedAt
  BY <1>2, <1>3 DEF DraftTyped
<1>5. DraftSound(draft', db)
  BY <1>3, <1>4, DraftEdited
<1> QED BY <1>1, <1>2, <1>4, <1>5, DraftStep

\* What a connector is chosen for has lost its workflows.
LEMMA UnselectedSound ==
    ASSUME NEW x, NEW d, DraftSound(x, d), NEW k \in Connectors
    PROVE  DraftSound(Unselected(x, k), d) /\ Unselected(x, k).activatedAt = x.activatedAt
<1> DEFINE none == [f \in Flows |-> NoConfig]
           y == [x EXCEPT !.connector = k, !.selected = {}, !.configs = none]
<1>1. x \in DraftTyped
  BY DEF DraftSound
<1>2. none \in [Flows -> ConfigTyped] /\ \A f \in Flows : none[f] = NoConfig
  BY DEF ConfigTyped, NoConfig, Methods
<1>3. Unselected(x, k) = y
  BY DEF Unselected
<1> HIDE DEF none
<1>4. y \in DraftTyped /\ y.configs = none /\ y.activatedAt = x.activatedAt
  BY <1>1, <1>2 DEF DraftTyped
<1> HIDE DEF y
<1> QED BY <1>2, <1>3, <1>4, DraftEdited

\* then a connector there is,
LEMMA SelectConnectorKeeps ==
    ASSUME WizardInv, NEW k \in Connectors, SelectConnector(k)
    PROVE  WizardInv' /\ RosterStep
<1>1. Inv /\ draft \in Drafts /\ DraftSound(draft, db)
  BY DEF WizardInv, Drafts
<1>2. /\ revived' = revived /\ calls' \in {calls, calls + 1} /\ db' = db
      /\ draft' = Unselected(draft, k) /\ UNCHANGED tab
  BY DEF SelectConnector, Request, Besides, SetStep
<1>3. Quietly
  BY <1>1, <1>2, NothingAside, AsideQuietly
<1> QED BY <1>1, <1>2, <1>3, UnselectedSound, DraftStep

\* or another one, that is asked first.
LEMMA ConnectKeeps ==
    ASSUME WizardInv, NEW k \in Connectors, NEW t \in Tabs, Connect(t, k)
    PROVE  WizardInv' /\ RosterStep
<1> DEFINE r == [kind |-> "connect", draft |-> draft, connector |-> k]
<1>1. Inv /\ db \in Tables /\ draft \in Drafts /\ DraftSound(draft, db) /\ draft \in DraftTyped
  BY DEF WizardInv, Drafts, Inv, Sound, DraftSound
<1>2. /\ revived' = revived /\ calls' \in {calls, calls + 1}
      /\ db' = db \/ db' = AddConnector(db, k)
      /\ draft' = draft /\ Wait(t, r)
  BY DEF Connect, Request, Besides
<1>3. Quietly
  BY <1>1, <1>2, NothingAside, OthersAside, AsideQuietly
<1>4. r \in {Idle} \cup Asking \cup Selecting /\ r.draft \in Drafts
  BY <1>1 DEF Asking
<1> HIDE DEF r
<1> QED BY <1>1, <1>2, <1>3, <1>4, TabStep

\* n8n answers to that,
LEMMA ValidatedKeeps ==
    ASSUME WizardInv, NEW t \in Tabs, NEW ok \in BOOLEAN, Validated(t, ok)
    PROVE  WizardInv' /\ RosterStep
<1> DEFINE k == tab[t].connector
           h == IF ok THEN "healthy" ELSE "unreachable"
           r == IF ok THEN [tab[t] EXCEPT !.kind = "list"] ELSE Idle
           x == tab[t].draft
<1>1. Inv /\ db \in Tables /\ draft \in Drafts /\ DraftSound(draft, db) /\ TabsTyped
  BY DEF WizardInv, Drafts, Inv, Sound
<1>2. tab[t] \in Asking /\ x \in Drafts /\ k \in Connectors
  <2>1. tab[t].kind = "connect"
    BY DEF Validated
  <2>2. tab[t] \in Asking /\ x \in Drafts
    BY <1>1, <2>1, KindOf
  <2> QED BY <2>2 DEF Asking
<1>3. /\ revived' = revived /\ calls' \in {calls, calls + 1}
      /\ db' = SetHealth(db, k, h) /\ h \in {"healthy", "unreachable"}
  BY DEF Validated, Besides
<1>4. Quietly
  BY <1>1, <1>2, <1>3, OthersAside, AsideQuietly
<1>5. Wait(t, r)
  BY DEF Validated
<1>6. r \in {Idle} \cup Asking \cup Selecting /\ (r # Idle => r.draft \in Drafts)
  BY <1>2 DEF Asking
<1>7. DraftSound(draft', db) /\ \E y \in Drafts : draft'.activatedAt = y.activatedAt
  <2>1. CASE ok
    BY <1>1, <2>1 DEF Validated
  <2>2. CASE ~ok
    <3>1. draft' = [x EXCEPT !.connector = k]
      BY <2>2 DEF Validated, SetStep
    <3>2. DraftSound(x, db) /\ x \in DraftTyped
      BY <1>2 DEF WizardInv, DraftSound
    <3> HIDE DEF x, k
    <3>3. /\ draft' \in DraftTyped /\ draft'.configs = x.configs
          /\ draft'.activatedAt = x.activatedAt
      BY <1>2, <3>1, <3>2 DEF DraftTyped
    <3> QED BY <1>2, <3>2, <3>3, DraftEdited
  <2> QED BY <2>1, <2>2
<1> HIDE DEF r
<1> QED BY <1>4, <1>5, <1>6, <1>7, TabStep

\* and with its list.
LEMMA ListedKeeps ==
    ASSUME WizardInv, NEW t \in Tabs, Listed(t)
    PROVE  WizardInv' /\ RosterStep
<1> DEFINE k == tab[t].connector
           x == tab[t].draft
<1>1. Inv /\ TabsTyped
  BY DEF WizardInv
<1>2. tab[t] \in Asking /\ x \in Drafts /\ k \in Connectors
  <2>1. tab[t].kind = "list"
    BY DEF Listed
  <2>2. tab[t] \in Asking /\ x \in Drafts
    BY <1>1, <2>1, KindOf
  <2> QED BY <2>2 DEF Asking
<1>3. /\ revived' = revived /\ calls' \in {calls, calls + 1} /\ db' = db
      /\ draft' = Unselected(x, k) /\ Wait(t, Idle)
  BY DEF Listed, Besides, SetStep
<1>4. Quietly
  BY <1>1, <1>3, NothingAside, AsideQuietly
<1>5. DraftSound(x, db)
  BY <1>2 DEF WizardInv
<1> HIDE DEF x, k
<1>6. DraftSound(draft', db) /\ draft'.activatedAt = x.activatedAt
  BY <1>2, <1>3, <1>5, UnselectedSound
<1> QED BY <1>2, <1>3, <1>4, <1>6, TabStep

\* Workflows are entered by hand,
LEMMA AddManuallyKeeps ==
    ASSUME WizardInv, NEW f \in Flows, AddManually(f)
    PROVE  WizardInv' /\ RosterStep
<1> DEFINE cfg == [setup |-> Inferred, method |-> "poll", contract |-> 0]
           cs == [draft.configs EXCEPT ![f] = cfg]
           sel == draft.selected \cup {f}
<1>1. Inv /\ draft \in Drafts /\ DraftSound(draft, db) /\ draft \in DraftTyped
  BY DEF WizardInv, Drafts, DraftSound
<1>2. /\ revived' = revived /\ calls' \in {calls, calls + 1} /\ db' = db /\ UNCHANGED tab
      /\ draft' = [draft EXCEPT !.selected = sel, !.configs = cs]
  BY <1>1 DEF AddManually, Request, Besides, SetStep, DraftTyped
<1>3. Quietly
  BY <1>1, <1>2, NothingAside, AsideQuietly
<1>4. cfg \in ConfigTyped /\ cfg.setup \in Setups /\ cfg.contract = 0
  BY WizardAssumption DEF ConfigTyped, Methods
<1> HIDE DEF cfg
<1>5. /\ sel \in SUBSET Flows /\ cs \in [Flows -> ConfigTyped] /\ cs[f] = cfg
      /\ \A g \in Flows : g # f => cs[g] = draft.configs[g]
  BY <1>1, <1>4 DEF DraftTyped
<1> HIDE DEF cs, sel
<1>6. /\ draft' \in DraftTyped /\ draft'.configs = cs
      /\ draft'.activatedAt = draft.activatedAt
  BY <1>1, <1>2, <1>5 DEF DraftTyped
<1>7. DraftSound(draft', db)
  BY <1>1, <1>4, <1>5, <1>6, DraftEdited
<1> QED BY <1>2, <1>3, <1>6, <1>7, DraftStep

\* or selected, which is awaited.
LEMMA SelectKeeps ==
    ASSUME WizardInv, NEW t \in Tabs, NEW S \in SUBSET Flows, Select(t, S)
    PROVE  WizardInv' /\ RosterStep
<1> DEFINE r == [kind |-> "select", draft |-> draft, chosen |-> S]
<1>1. Inv /\ draft \in Drafts /\ DraftSound(draft, db) /\ draft \in DraftTyped
  BY DEF WizardInv, Drafts, DraftSound
<1>2. /\ revived' = revived /\ calls' \in {calls, calls + 1} /\ db' = db
      /\ draft' = draft /\ Wait(t, r)
  BY DEF Select, Request, Besides
<1>3. Quietly
  BY <1>1, <1>2, NothingAside, AsideQuietly
<1>4. r \in {Idle} \cup Asking \cup Selecting /\ r.draft \in Drafts
  BY <1>1 DEF Selecting
<1> HIDE DEF r
<1> QED BY <1>1, <1>2, <1>3, <1>4, TabStep

\* The draft that was read comes back with what was found,
LEMMA DiscoveredKeeps ==
    ASSUME WizardInv, NEW t \in Tabs, NEW found, Discovered(t, found)
    PROVE  WizardInv' /\ RosterStep
<1> DEFINE x == tab[t].draft
           all == SelectedOf(x, tab[t].chosen, found)
           config(f) == IF f \in found
                        THEN [setup |-> Inferred, method |-> "poll",
                              contract |-> x.configs[f].contract]
                        ELSE x.configs[f]
           cs == [f \in Flows |-> IF f \in all THEN config(f) ELSE NoConfig]
<1>1. Inv /\ TabsTyped /\ draft \in Drafts /\ DraftSound(draft, db)
  BY DEF WizardInv, Drafts
<1>2. tab[t] \in Selecting /\ x \in Drafts
  <2>1. tab[t].kind = "select"
    BY DEF Discovered
  <2> QED BY <1>1, <2>1, KindOf
<1>3. /\ revived' = revived /\ calls' \in {calls, calls + 1} /\ db' = db /\ Wait(t, Idle)
      /\ draft' = draft \/ draft' = [x EXCEPT !.selected = all, !.configs = cs]
  BY DEF Discovered, Besides, SetStep
<1>4. Quietly
  BY <1>1, <1>3, NothingAside, AsideQuietly
<1>5. DraftSound(x, db) /\ x \in DraftTyped /\ tab[t].chosen \in SUBSET Flows
  BY <1>2 DEF WizardInv, DraftSound, Selecting
<1>6. all \in SUBSET Flows
  BY <1>5 DEF SelectedOf, DraftTyped
<1> HIDE DEF x, all
<1>7. ASSUME NEW f \in Flows
      PROVE  /\ cs[f] \in ConfigTyped
             /\ \/ cs[f] = x.configs[f] \/ cs[f] = NoConfig
                \/ cs[f].setup \in Setups /\ cs[f].contract = x.configs[f].contract
  <2>1. x.configs[f] \in ConfigTyped /\ NoConfig \in ConfigTyped
    BY <1>5 DEF DraftTyped, ConfigTyped, NoConfig, Methods
  <2> QED BY <2>1, WizardAssumption DEF ConfigTyped, Methods
<1>8. cs \in [Flows -> ConfigTyped]
  BY <1>7
<1> HIDE DEF cs
<1>9. DraftSound(draft', db) /\ \E y \in Drafts : draft'.activatedAt = y.activatedAt
  <2>1. CASE draft' = draft
    BY <1>1, <2>1
  <2>2. CASE draft' = [x EXCEPT !.selected = all, !.configs = cs]
    <3>1. /\ draft' \in DraftTyped /\ draft'.configs = cs
          /\ draft'.activatedAt = x.activatedAt
      BY <1>5, <1>6, <1>8, <2>2 DEF DraftTyped
    <3>2. DraftSound(draft', db)
      BY <1>5, <1>7, <3>1, DraftEdited
    <3> QED BY <1>2, <3>1, <3>2
  <2> QED BY <1>3, <2>1, <2>2
<1> QED BY <1>3, <1>4, <1>9, TabStep

\* is given other settings,
LEMMA ConfigureKeeps ==
    ASSUME WizardInv, NEW S \in SUBSET Flows, NEW s \in Setups, NEW m \in Methods,
           Configure(S, s, m)
    PROVE  WizardInv' /\ RosterStep
<1> DEFINE cs == [f \in Flows |->
                    IF f \in S THEN [draft.configs[f] EXCEPT !.setup = s, !.method = m]
                    ELSE IF f \in draft.selected THEN draft.configs[f] ELSE NoConfig]
<1>1. Inv /\ draft \in Drafts /\ DraftSound(draft, db) /\ draft \in DraftTyped
  BY DEF WizardInv, Drafts, DraftSound
<1>2. /\ revived' = revived /\ calls' \in {calls, calls + 1} /\ db' = db /\ UNCHANGED tab
      /\ draft' = [draft EXCEPT !.configs = cs]
  BY <1>1 DEF Configure, Request, Besides, SetStep, DraftTyped
<1>3. Quietly
  BY <1>1, <1>2, NothingAside, AsideQuietly
<1>4. ASSUME NEW f \in Flows
      PROVE  /\ cs[f] \in ConfigTyped
             /\ \/ cs[f] = draft.configs[f] \/ cs[f] = NoConfig
                \/ cs[f].setup \in Setups /\ cs[f].contract = draft.configs[f].contract
  <2>1. draft.configs[f] \in ConfigTyped /\ NoConfig \in ConfigTyped
    BY <1>1 DEF DraftTyped, ConfigTyped, NoConfig, Methods
  <2> QED BY <2>1 DEF ConfigTyped
<1>5. cs \in [Flows -> ConfigTyped]
  BY <1>4
<1> HIDE DEF cs
<1>6. /\ draft' \in DraftTyped /\ draft'.configs = cs
      /\ draft'.activatedAt = draft.activatedAt
  BY <1>1, <1>2, <1>5 DEF DraftTyped
<1>7. DraftSound(draft', db)
  BY <1>1, <1>4, <1>6, DraftEdited
<1> QED BY <1>2, <1>3, <1>6, <1>7, DraftStep

\* or notes a heartbeat.
LEMMA HeartbeatTestKeeps ==
    ASSUME WizardInv, NEW f \in Flows, HeartbeatTest(f)
    PROVE  WizardInv' /\ RosterStep
<1> DEFINE acc == draft.accepted \cup {f}
<1>1. Inv /\ draft \in Drafts /\ DraftSound(draft, db) /\ draft \in DraftTyped
  BY DEF WizardInv, Drafts, DraftSound
<1>2. /\ revived' = revived /\ calls' \in {calls, calls + 1} /\ db' = db /\ UNCHANGED tab
      /\ draft' = [draft EXCEPT !.accepted = acc]
  BY <1>1 DEF HeartbeatTest, Request, Besides, DraftTyped
<1>3. Quietly
  BY <1>1, <1>2, NothingAside, AsideQuietly
<1>4. acc \in SUBSET Flows
  BY <1>1 DEF DraftTyped
<1> HIDE DEF acc
<1>5. /\ draft' \in DraftTyped /\ draft'.configs = draft.configs
      /\ draft'.activatedAt = draft.activatedAt
  BY <1>1, <1>2, <1>4 DEF DraftTyped
<1>6. DraftSound(draft', db)
  BY <1>1, <1>5, DraftEdited
<1> QED BY <1>2, <1>3, <1>5, <1>6, DraftStep

\* Only the step changes.
LEMMA PlaceKeeps ==
    ASSUME WizardInv, Request, UNCHANGED <<db, revived, draft, tab>>
    PROVE  WizardInv' /\ RosterStep
<1>1. Inv /\ draft \in Drafts /\ DraftSound(draft, db)
  BY DEF WizardInv, Drafts
<1>2. Quietly
  BY <1>1, NothingAside, AsideQuietly DEF Request
<1> QED BY <1>1, <1>2, DraftStep

\* A process that starts again has lost what was awaited, and repairs.
LEMMA RestartKeeps ==
    ASSUME WizardInv, Restart
    PROVE  WizardInv' /\ RosterStep
<1>1. Inv /\ Sound(db, revived) /\ draft \in Drafts /\ DraftSound(draft, db)
  BY DEF WizardInv, Inv, Drafts
<1>2. /\ revived' = revived /\ calls' = calls /\ draft' = draft
      /\ db' = Repaired(db, draft, completed \/ step = "complete")
      /\ tab' = [t \in Tabs |-> Idle]
  BY DEF Restart, Forgotten
<1>3. Quietly
  BY <1>1, <1>2, RepairedDoes DEF Quietly
<1>4. TabsTyped' /\ Activating' = {} /\ Waiting' = {}
  BY <1>2 DEF TabsTyped, Activating, Waiting, Idle
<1>5. \A x \in Drafts' : x = draft
  BY <1>2, <1>4 DEF Drafts
<1> QED BY <1>1, <1>3, <1>4, <1>5, QuietStep

-----------------------------------------------------------------------------
(* The forms of the activation                                             *)

\* A form that is answered keeps the invariant, at a time of its own.
LEMMA FormKeeps ==
    ASSUME WizardInv, NEW t \in Tabs, NEW answer, Answerable(answer), answer.draft \in Drafts,
           Finished(t, answer), calls' \in Nat, calls <= calls', answer.now <= calls',
           Kept(db, Times \cup {answer.now}, calls'),
           \A u \in Activating \ {t} : tab[u].now # answer.now
    PROVE  WizardInv' /\ RosterStep
<1> DEFINE T == Times \cup {answer.now}
<1>1. Inv /\ TabsTyped /\ calls \in Nat /\ answer.now \in Nat
  BY DEF WizardInv, Inv, Answerable
<1>2. /\ Sound(db', revived') /\ revived' \subseteq Flows
      /\ Kept(db', T, calls') /\ Grows(db, db')
      /\ DraftSound(draft', db')
      /\ draft'.activatedAt \in {answer.draft.activatedAt, answer.now}
      /\ tab' = [tab EXCEPT ![t] = Idle]
      /\ RosterStep
  <2> HIDE DEF T
  <2>1. Kept(db, T, calls')
    BY DEF T
  <2> QED BY <1>1, <2>1, FinishedDoes
<1>3. Inv' /\ db' \in Tables
  BY <1>2 DEF Inv, Sound
<1>4. /\ TabsTyped'
      /\ \A x \in Drafts' : x = draft' \/ x \in Drafts
      /\ \A u \in Activating' : u \in Activating \ {t} /\ tab'[u] = tab[u]
  <2>1. Idle \in Tab /\ Idle.kind = "idle"
    BY DEF Tab, Idle
  <2>2. /\ TabsTyped'
        /\ \A x \in Drafts' : x = draft' \/ x \in Drafts \/ (Idle.kind # "idle" /\ x = Idle.draft)
        /\ \A u \in Activating' : \/ u \in Activating \ {t} /\ tab'[u] = tab[u]
                                  \/ u = t /\ Idle.kind = "alerts"
    BY <1>1, <1>2, <2>1, WaitDoes
  <2> QED BY <2>1, <2>2
<1>5. ASSUME NEW x \in Drafts
      PROVE  DraftSound(x, db') /\ x.activatedAt <= calls'
  <2>1. DraftSound(x, db) /\ x.activatedAt <= calls
    BY DEF WizardInv
  <2>2. x.activatedAt \in Nat
    BY <2>1 DEF DraftSound, DraftTyped
  <2> QED BY <1>1, <1>2, <2>1, <2>2, DraftKeeps DEF Grows
<1>6. \A x \in Drafts' : DraftSound(x, db') /\ x.activatedAt <= calls'
  <2>1. draft'.activatedAt <= calls'
    BY <1>2, <1>5
  <2> QED BY <1>2, <1>4, <1>5, <2>1
<1>7. ASSUME NEW u \in Activating' PROVE Own(u)'
  <2>1. u \in Activating \ {t} /\ tab'[u] = tab[u] /\ Own(u)
    BY <1>4 DEF WizardInv
  <2>2. tab'[u].channel \in DOMAIN db'.channels /\ tab'[u].now \in 1 .. calls'
    BY <1>1, <1>2, <2>1 DEF Own, Grows
  <2>3. \A x \in Drafts' : x.activatedAt # tab'[u].now
    BY <1>2, <1>4, <2>1 DEF Own
  <2>4. \A v \in Activating' \ {u} : tab'[v].now # tab'[u].now
    BY <1>4, <2>1 DEF Own
  <2> QED BY <2>2, <2>3, <2>4 DEF Own
<1>8. Times' \subseteq T
  <2>1. ASSUME NEW n \in Times' PROVE n \in T
    <3>1. CASE \E x \in Drafts' : n = x.activatedAt
      BY <1>2, <1>4, <3>1 DEF Times
    <3>2. CASE \E u \in Activating' : n = tab'[u].now
      BY <1>4, <3>2 DEF Times
    <3> QED BY <3>1, <3>2 DEF Times
  <2> QED BY <2>1
<1>9. Kept(db', Times', calls')
  <2> HIDE DEF Times, T
  <2> QED BY <1>2, <1>3, <1>8, KeptLater
<1> QED BY <1>2, <1>3, <1>4, <1>6, <1>7, <1>9 DEF WizardInv

\* Either at the time of the request,
LEMMA AlertsAcknowledgedKeeps ==
    ASSUME WizardInv, NEW t \in Tabs, NEW ch \in Nat, ch <= Len(db.channels),
           NEW a, AlertsAcknowledged(t, ch, a)
    PROVE  WizardInv' /\ RosterStep
<1> DEFINE answer == [draft |-> draft, channel |-> ch, acknowledged |-> TRUE,
                      activate |-> a, now |-> calls']
<1>1. Inv /\ db \in Tables /\ draft \in Drafts /\ DraftSound(draft, db) /\ calls \in Nat
  BY DEF WizardInv, Inv, Sound, Drafts
<1>2. Finished(t, answer) /\ calls' = calls + 1
  BY DEF AlertsAcknowledged, Request
<1>3. ch \in {0} \cup DOMAIN db.channels
  BY <1>1 DEF Tables
<1>4. /\ Answerable(answer) /\ answer.draft \in Drafts /\ answer.now = calls'
  BY <1>1, <1>2, <1>3 DEF Answerable
<1>5. Kept(db, Times \cup {calls'}, calls')
  <2>1. Kept(db, Times, calls)
    BY DEF WizardInv
  <2> HIDE DEF Times
  <2> QED BY <1>1, <1>2, <2>1, KeptAhead
<1>6. \A u \in Activating : tab[u].now # calls'
  BY <1>1, <1>2 DEF WizardInv, Own
<1> HIDE DEF answer
<1> QED BY <1>1, <1>2, <1>4, <1>5, <1>6, FormKeeps

\* What a tab that activates waits with can be answered.
LEMMA OwnAnswerable ==
    ASSUME WizardInv, NEW t \in Tabs, tab[t].kind = "alerts"
    PROVE  /\ Answerable(tab[t]) /\ tab[t].draft \in Drafts /\ Own(t)
           /\ t \in Activating /\ tab[t].now \in Times
<1>1. tab[t] \in Alerting /\ tab[t].draft \in Drafts
  BY KindOf DEF WizardInv
<1>2. t \in Activating /\ Own(t)
  BY DEF Activating, WizardInv
<1>3. DraftSound(tab[t].draft, db)
  BY <1>1 DEF WizardInv
<1> QED BY <1>1, <1>2, <1>3 DEF Answerable, Alerting, Own, Times

\* or at the one it waited with.
LEMMA AlertsSentKeeps ==
    ASSUME WizardInv, NEW t \in Tabs, AlertsSent(t)
    PROVE  WizardInv' /\ RosterStep
<1>1. /\ Answerable(tab[t]) /\ tab[t].draft \in Drafts /\ Own(t)
      /\ t \in Activating /\ tab[t].now \in Times
  BY OwnAnswerable DEF AlertsSent
<1>2. Finished(t, tab[t]) /\ calls' = calls /\ calls \in Nat
  BY DEF AlertsSent, WizardInv, Inv
<1>3. Times \cup {tab[t].now} = Times
  BY <1>1
<1>4. Kept(db, Times \cup {tab[t].now}, calls')
  BY <1>2, <1>3 DEF WizardInv
<1>5. tab[t].now <= calls'
  BY <1>1, <1>2 DEF Own
<1>6. \A u \in Activating \ {t} : tab[u].now # tab[t].now
  BY <1>1 DEF Own
<1> QED BY <1>1, <1>2, <1>4, <1>5, <1>6, FormKeeps

\* Which it is given when it is sent.
LEMMA AlertsKeeps ==
    ASSUME WizardInv, NEW t \in Tabs, NEW ch \in Nat, NEW a \in BOOLEAN, Alerts(t, ch, a)
    PROVE  WizardInv' /\ RosterStep
<1> DEFINE r == [kind |-> "alerts", draft |-> draft, channel |-> ch,
                 acknowledged |-> FALSE, activate |-> a, now |-> calls']
           T == Times \cup {calls'}
<1>1. /\ Inv /\ db \in Tables /\ draft \in Drafts /\ DraftSound(draft, db)
      /\ draft \in DraftTyped /\ calls \in Nat /\ TabsTyped
  BY DEF WizardInv, Inv, Sound, Drafts, DraftSound
<1>2. /\ revived' = revived /\ calls' = calls + 1 /\ draft' = draft
      /\ tab' = [tab EXCEPT ![t] = r]
  BY DEF Alerts, Request, Besides, Wait
<1>3. Aside(db, db') /\ ch \in DOMAIN db'.channels
  <2>1. CASE ch \in DOMAIN db.channels /\ db' = db
    BY <1>1, <2>1, NothingAside
  <2>2. CASE ch = Len(db.channels) + 1 /\ db' = AddChannel(db)
    BY <1>1, <2>2, AddChannelAside
  <2> QED BY <2>1, <2>2 DEF Alerts
<1>4. Quietly
  BY <1>1, <1>2, <1>3, AsideQuietly
<1>5. Inv' /\ db' \in Tables /\ Grows(db, db')
  BY <1>1, <1>2, <1>4 DEF Inv, Quietly, Sound
<1>6. r \in Alerting /\ r.draft = draft /\ r.now = calls' /\ r.channel = ch
  BY <1>1, <1>2 DEF Alerting
<1> HIDE DEF r
<1>7. /\ TabsTyped' /\ tab'[t] = r
      /\ \A x \in Drafts' : x \in Drafts
      /\ \A u \in Activating' : \/ u \in Activating \ {t} /\ tab'[u] = tab[u]
                                \/ u = t
  <2>1. r \in Tab
    BY <1>6 DEF Tab
  <2>2. /\ TabsTyped' /\ tab'[t] = r
        /\ \A x \in Drafts' : x = draft' \/ x \in Drafts \/ (r.kind # "idle" /\ x = r.draft)
        /\ \A u \in Activating' : \/ u \in Activating \ {t} /\ tab'[u] = tab[u]
                                  \/ u = t /\ r.kind = "alerts"
    BY <1>1, <1>2, <2>1, WaitDoes
  <2> QED BY <1>1, <1>2, <1>6, <2>2
<1>8. \A x \in Drafts' : DraftSound(x, db') /\ x.activatedAt <= calls'
  <2>1. ASSUME NEW x \in Drafts' PROVE DraftSound(x, db') /\ x.activatedAt <= calls'
    <3>1. DraftSound(x, db) /\ x.activatedAt <= calls
      BY <1>7, <2>1 DEF WizardInv
    <3>2. x.activatedAt \in Nat
      BY <3>1 DEF DraftSound, DraftTyped
    <3> QED BY <1>1, <1>2, <1>5, <3>1, <3>2, DraftKeeps DEF Grows
  <2> QED BY <2>1
<1>9. ASSUME NEW u \in Activating' PROVE Own(u)'
  <2>1. CASE u = t
    <3>1. tab'[u].channel \in DOMAIN db'.channels /\ tab'[u].now = calls'
      BY <1>3, <1>6, <1>7, <2>1
    <3>2. calls' \in 1 .. calls'
      BY <1>1, <1>2
    <3>3. \A x \in Drafts' : x.activatedAt # calls'
      <4>1. \A x \in Drafts : x.activatedAt \in Nat /\ x.activatedAt <= calls
        BY DEF WizardInv, DraftSound, DraftTyped
      <4> QED BY <1>1, <1>2, <1>7, <4>1
    <3>4. \A v \in Activating' \ {u} : tab'[v].now # calls'
      <4>1. ASSUME NEW v \in Activating' \ {u} PROVE tab'[v].now # calls'
        <5>1. v \in Activating /\ tab'[v] = tab[v] /\ Own(v)
          BY <1>7, <2>1, <4>1 DEF WizardInv
        <5>2. tab[v].now \in 1 .. calls
          BY <5>1 DEF Own
        <5> QED BY <1>1, <1>2, <5>1, <5>2
      <4> QED BY <4>1
    <3> QED BY <3>1, <3>2, <3>3, <3>4 DEF Own
  <2>2. CASE u # t
    <3>1. u \in Activating \ {t} /\ tab'[u] = tab[u] /\ Own(u)
      BY <1>7, <2>2 DEF WizardInv
    <3>2. tab[u].now \in 1 .. calls /\ tab[u].now # calls'
      BY <1>1, <1>2, <3>1 DEF Own
    <3>3. tab'[u].channel \in DOMAIN db'.channels /\ tab'[u].now \in 1 .. calls'
      BY <1>1, <1>2, <1>5, <3>1, <3>2 DEF Own, Grows
    <3>4. \A x \in Drafts' : x.activatedAt # tab'[u].now
      BY <1>7, <3>1 DEF Own
    <3>5. \A v \in Activating' \ {u} : tab'[v].now # tab'[u].now
      BY <1>6, <1>7, <3>1, <3>2 DEF Own
    <3> QED BY <3>3, <3>4, <3>5 DEF Own
  <2> QED BY <2>1, <2>2
<1>10. Times' \subseteq T
  <2>1. ASSUME NEW n \in Times' PROVE n \in T
    <3>1. CASE \E x \in Drafts' : n = x.activatedAt
      BY <1>7, <3>1 DEF Times
    <3>2. CASE \E u \in Activating' : n = tab'[u].now
      BY <1>6, <1>7, <3>2 DEF Times
    <3> QED BY <3>1, <3>2 DEF Times
  <2> QED BY <2>1
<1>11. Kept(db', T, calls')
  <2>1. Kept(db', Times, calls)
    BY <1>1, <1>4, LastingKept DEF WizardInv, Quietly
  <2> HIDE DEF Times
  <2> QED BY <1>1, <1>2, <1>5, <2>1, KeptAhead
<1>12. Kept(db', Times', calls')
  <2> HIDE DEF Times, T
  <2> QED BY <1>1, <1>2, <1>5, <1>10, <1>11, KeptLater
<1>13. RosterStep
  BY <1>4, ShownStutters, RosterMoves DEF Quietly, RosterStep
<1> QED BY <1>5, <1>7, <1>8, <1>9, <1>12, <1>13 DEF WizardInv

\* A process killed in the loop or behind it leaves no tab, and no time but the
\* one before.
LEMMA KilledInKeeps ==
    ASSUME WizardInv, NEW answer, Answerable(answer), answer.draft \in Drafts,
           NEW done, NEW f, NEW n \in 1 .. Whole, KilledIn(answer, done, f, n),
           calls' \in Nat, calls <= calls', answer.now <= calls',
           Kept(db, Times, calls'), answer.now # answer.draft.activatedAt
    PROVE  WizardInv' /\ RosterStep
<1> DEFINE y == answer.draft
           T == {y.activatedAt}
<1>1. Inv /\ db \in Tables /\ calls \in Nat /\ answer.now \notin T
  BY DEF WizardInv, Inv, Sound
<1>2. Kept(db, T, calls')
  <2>1. T \subseteq Times
    BY DEF Times
  <2> HIDE DEF T, Times
  <2> QED BY <1>1, <2>1, KeptLater
<1> HIDE DEF T
<1>3. /\ Sound(db', revived') /\ revived' \subseteq Flows
      /\ Kept(db', T, calls') /\ Grows(db, db')
      /\ DraftSound(draft', db')
      /\ draft'.activatedAt = y.activatedAt
      /\ tab' = [u \in Tabs |-> Idle]
      /\ RosterStep
  BY <1>1, <1>2, KilledDoes
<1>4. Inv'
  BY <1>3 DEF Inv
<1>5. TabsTyped' /\ Activating' = {} /\ Waiting' = {}
  BY <1>3 DEF TabsTyped, Activating, Waiting, Idle
<1>6. Drafts' = {draft'}
  BY <1>5 DEF Drafts
<1>7. Times' = T
  BY <1>3, <1>5, <1>6 DEF Times, T
<1>8. \A x \in Drafts' : DraftSound(x, db') /\ x.activatedAt <= calls'
  <2>1. y.activatedAt <= calls /\ y.activatedAt \in Nat
    BY DEF WizardInv, DraftSound, DraftTyped
  <2> QED BY <1>1, <1>3, <1>6, <2>1
<1> QED BY <1>3, <1>4, <1>5, <1>7, <1>8 DEF WizardInv

\* With a channel,
LEMMA KilledKeeps ==
    ASSUME WizardInv, NEW t \in Tabs, NEW done, NEW f, NEW n \in 1 .. Whole,
           KilledActivating(t, done, f, n)
    PROVE  WizardInv' /\ RosterStep
<1>1. /\ Answerable(tab[t]) /\ tab[t].draft \in Drafts /\ Own(t)
  BY OwnAnswerable DEF KilledActivating
<1>2. calls \in Nat /\ calls' = calls /\ Kept(db, Times, calls)
  BY DEF WizardInv, Inv, KilledActivating
<1>3. KilledIn(tab[t], done, f, n)
  BY DEF KilledActivating
<1>4. tab[t].now <= calls' /\ tab[t].now # tab[t].draft.activatedAt
  BY <1>1, <1>2 DEF Own
<1>5. Kept(db, Times, calls')
  BY <1>2
<1> QED BY <1>1, <1>2, <1>3, <1>4, <1>5, KilledInKeeps

\* and without one.
LEMMA KilledAcknowledgedKeeps ==
    ASSUME WizardInv, NEW t \in Tabs, NEW ch \in Nat, ch <= Len(db.channels),
           NEW done, NEW f, NEW n \in 1 .. Whole, KilledAcknowledged(t, ch, done, f, n)
    PROVE  WizardInv' /\ RosterStep
<1> DEFINE answer == [draft |-> draft, channel |-> ch, acknowledged |-> TRUE,
                      activate |-> TRUE, now |-> calls']
<1>1. Inv /\ db \in Tables /\ draft \in Drafts /\ DraftSound(draft, db) /\ calls \in Nat
      /\ draft.activatedAt <= calls /\ draft.activatedAt \in Nat
  BY DEF WizardInv, Inv, Sound, Drafts, DraftSound, DraftTyped
<1>2. KilledIn(answer, done, f, n) /\ calls' = calls + 1
  BY DEF KilledAcknowledged, Request
<1>3. ch \in {0} \cup DOMAIN db.channels
  BY <1>1 DEF Tables
<1>4. /\ Answerable(answer) /\ answer.draft \in Drafts /\ answer.now = calls'
      /\ answer.now # answer.draft.activatedAt
  BY <1>1, <1>2, <1>3 DEF Answerable
<1>5. Kept(db, Times, calls')
  <2>1. Kept(db, Times, calls)
    BY DEF WizardInv
  <2>2. Times \subseteq Times \cup {calls'}
    OBVIOUS
  <2> HIDE DEF Times
  <2>3. Kept(db, Times \cup {calls'}, calls')
    BY <1>1, <1>2, <2>1, KeptAhead
  <2> QED BY <1>1, <1>2, <2>2, <2>3, KeptLater
<1> HIDE DEF answer
<1>6. calls' \in Nat /\ calls <= calls' /\ answer.now <= calls'
  BY <1>1, <1>2, <1>4
<1> QED BY <1>2, <1>4, <1>5, <1>6, KilledInKeeps

-----------------------------------------------------------------------------
(* The wizard, and the pages beside it                                     *)

\* Every step of the wizard keeps the invariant, and is a move of the roster.
LEMMA WizardStepKeeps ==
    ASSUME WizardInv, WizardStep
    PROVE  WizardInv' /\ RosterStep
<1>1. ASSUME NEW f \in Flows, AddManually(f) \/ HeartbeatTest(f) PROVE WizardInv' /\ RosterStep
  BY <1>1, AddManuallyKeeps, HeartbeatTestKeeps
<1>2. ASSUME NEW s \in Steps \ {"catalog"}, Back(s) PROVE WizardInv' /\ RosterStep
  <2>1. Request /\ UNCHANGED <<db, revived, draft, tab>>
    BY <1>2 DEF Back, SetStep, Besides
  <2> QED BY <2>1, PlaceKeeps
<1>3. ASSUME Finish PROVE WizardInv' /\ RosterStep
  <2>1. Request /\ UNCHANGED <<db, revived, draft, tab>>
    BY <1>3 DEF Finish
  <2> QED BY <2>1, PlaceKeeps
<1>4. ASSUME NEW t \in Tabs, NEW ch \in 0 .. MaxChannels, NEW a \in BOOLEAN,
             \/ ch <= Len(db.channels) /\ AlertsAcknowledged(t, ch, a)
             \/ ch > 0 /\ Alerts(t, ch, a)
      PROVE  WizardInv' /\ RosterStep
  <2>1. ch \in Nat
    BY FleetAssumption
  <2> QED BY <1>4, <2>1, AlertsAcknowledgedKeeps, AlertsKeeps
<1>5. ASSUME NEW t \in Tabs,
             \/ \E ok \in BOOLEAN : Validated(t, ok)
             \/ Listed(t)
             \/ \E S \in SUBSET Flows : Select(t, S)
             \/ \E pages \in Answers : Discovered(t, ListN8nWorkflows(pages))
             \/ AlertsSent(t)
      PROVE  WizardInv' /\ RosterStep
  BY <1>5, ValidatedKeeps, ListedKeeps, SelectKeeps, DiscoveredKeeps, AlertsSentKeeps
<1>6. ASSUME NEW t \in Tabs, NEW done \in SUBSET Flows, NEW f \in Flows, NEW n \in 1 .. Whole,
             \/ KilledActivating(t, done, f, n)
             \/ \E ch \in 0 .. MaxChannels :
                   ch <= Len(db.channels) /\ KilledAcknowledged(t, ch, done, f, n)
      PROVE  WizardInv' /\ RosterStep
  <2>1. 0 .. MaxChannels \subseteq Nat
    BY FleetAssumption
  <2> QED BY <1>6, <2>1, KilledKeeps, KilledAcknowledgedKeeps
<1>7. ASSUME NEW k \in Connectors,
             SelectConnector(k) \/ \E t \in Tabs : Connect(t, k)
      PROVE  WizardInv' /\ RosterStep
  BY <1>7, SelectConnectorKeeps, ConnectKeeps
<1>8. ASSUME NEW c \in Clients, PickClient(c) PROVE WizardInv' /\ RosterStep
  BY <1>8, PickClientKeeps
<1>9. ASSUME NEW S \in SUBSET Flows \ {{}}, NEW s \in Setups, NEW m \in Methods, Configure(S, s, m)
      PROVE  WizardInv' /\ RosterStep
  BY <1>9, ConfigureKeeps
<1> QED BY <1>1, <1>2, <1>3, <1>4, <1>5, <1>6, <1>7, <1>8, <1>9, RestartKeeps DEF WizardStep

\* So does every page.
LEMMA PagesKeep ==
    ASSUME WizardInv, FleetNext, UNCHANGED wizardVars
    PROVE  WizardInv' /\ RosterStep
<1>1. Inv /\ calls \in Nat /\ db \in Tables /\ UNCHANGED <<draft, tab>>
  BY DEF WizardInv, Inv, Sound, wizardVars
<1>2. Inv' /\ RosterStep
  BY <1>1, FleetStepInv, ProtectStepInv, FleetStepRoster, ProtectStepRoster DEF FleetNext
<1>3. Times \subseteq 0 .. calls
  <2>1. \A x \in Drafts : x.activatedAt \in 0 .. calls
    BY <1>1 DEF WizardInv, DraftSound, DraftTyped
  <2>2. \A t \in Activating : tab[t].now \in 0 .. calls
    BY <1>1 DEF WizardInv, Own
  <2> QED BY <2>1, <2>2 DEF Times
<1>4. Kept(db', Times, calls') /\ Onward
  <2>1. Kept(db, Times, calls)
    BY DEF WizardInv
  <2> HIDE DEF Times
  <2> QED BY <1>1, <1>3, <2>1, FleetStepKeeps, ProtectStepKeeps DEF FleetNext
<1>5. Drafts' = Drafts /\ Activating' = Activating
  BY <1>1 DEF Drafts, Waiting, Activating
<1>6. Times' = Times
  BY <1>1, <1>5 DEF Times
<1>7. TabsTyped'
  BY <1>1 DEF WizardInv, TabsTyped
<1>8. \A x \in Drafts' : DraftSound(x, db') /\ x.activatedAt <= calls'
  <2>1. ASSUME NEW x \in Drafts PROVE DraftSound(x, db') /\ x.activatedAt <= calls'
    <3>1. DraftSound(x, db) /\ x.activatedAt <= calls
      BY DEF WizardInv
    <3>2. x.activatedAt \in Nat
      BY <3>1 DEF DraftSound, DraftTyped
    <3> QED BY <1>1, <1>4, <3>1, <3>2, DraftKeeps DEF Onward
  <2> QED BY <1>5, <2>1
<1>9. ASSUME NEW t \in Activating' PROVE Own(t)'
  <2>1. Own(t) /\ t \in Activating
    BY <1>5 DEF WizardInv
  <2>2. tab'[t].channel \in DOMAIN db'.channels /\ tab'[t].now \in 1 .. calls'
    BY <1>1, <1>4, <2>1 DEF Own, Onward
  <2>3. \A x \in Drafts' : x.activatedAt # tab'[t].now
    BY <1>1, <1>5, <2>1 DEF Own
  <2>4. \A u \in Activating' \ {t} : tab'[u].now # tab'[t].now
    BY <1>1, <1>5, <2>1 DEF Own
  <2> QED BY <2>2, <2>3, <2>4 DEF Own
<1> QED BY <1>2, <1>4, <1>6, <1>7, <1>8, <1>9 DEF WizardInv

\* An empty draft and no tab that waits are a beginning.
LEMMA WizardBegins ==
    ASSUME InitFleet, InitWizard
    PROVE  WizardInv
<1>1. Inv /\ db.contracts = <<>>
  <2>1. db.contracts = <<>>
    BY DEF InitFleet
  <2> QED BY <2>1, FleetInit
<1>2. TabsTyped /\ Activating = {} /\ Waiting = {}
  BY DEF InitWizard, TabsTyped, Activating, Waiting, Idle
<1>3. draft = EmptyDraft /\ Drafts = {draft}
  BY <1>2 DEF InitWizard, Drafts
<1>4. DraftSound(draft, db) /\ draft.activatedAt = 0
  <2> DEFINE none == [f \in Flows |-> NoConfig]
  <2>1. none \in [Flows -> ConfigTyped] /\ \A f \in Flows : none[f] = NoConfig
    BY DEF ConfigTyped, NoConfig, Methods
  <2>2. draft.configs = none /\ draft.activatedAt = 0
    BY <1>3 DEF EmptyDraft
  <2>3. EmptyDraft = [client |-> None, connector |-> None, selected |-> {}, configs |-> none,
                      channel |-> 0, accepted |-> {}, activatedAt |-> 0]
    BY DEF EmptyDraft
  <2> HIDE DEF none
  <2>4. draft \in DraftTyped
    BY <1>3, <2>1, <2>3 DEF DraftTyped
  <2>5. \A f \in Flows : draft.configs[f] = NoConfig
    BY <2>1, <2>2
  <2> QED BY <2>2, <2>4, <2>5 DEF DraftSound, NoConfig
<1>5. Kept(db, Times, calls)
  BY <1>1 DEF Kept, Sole, Spared, Dated
<1>6. 0 <= calls
  BY <1>1 DEF Inv
<1> QED BY <1>1, <1>2, <1>3, <1>4, <1>5, <1>6 DEF WizardInv

\* The tables and the drafts stay sound, whatever the wizard and the pages do.
LEMMA WizardHolds == WizardSpec => [](WizardInv /\ Inv)
<1>1. InitFleet /\ InitWizard => WizardInv
  BY WizardBegins
<1>2. WizardInv /\ [WizardNext]_<<fleetVars, wizardVars>> => WizardInv'
  <2>1. ASSUME WizardInv, WizardNext PROVE WizardInv'
    BY <2>1, WizardStepKeeps, PagesKeep DEF WizardNext
  <2>2. ASSUME WizardInv, UNCHANGED <<fleetVars, wizardVars>> PROVE WizardInv'
    <3>1. UNCHANGED <<db, calls, revived, draft, tab>>
      BY <2>2 DEF fleetVars, wizardVars
    <3> QED BY <2>2, <3>1 DEF WizardInv, Inv, TabsTyped, Drafts, Waiting, Activating, Own, Times
  <2> QED BY <2>1, <2>2
<1>3. WizardInv => Inv
  BY DEF WizardInv
<1> QED BY <1>1, <1>2, <1>3, PTL DEF WizardSpec

\* A contract that is active since the last activation of the wizard has all
\* that belongs to it, however the tabs overlap, whatever the pages do beside
\* them and wherever a process was killed.
THEOREM WizardWhole == WizardSpec => []WizardIsWhole
<1>1. WizardInv => WizardIsWhole
  <2> SUFFICES ASSUME WizardInv, NEW f \in Configured(draft), Repairable(db, draft, f),
                      db.contracts[draft.configs[f].contract].active
               PROVE  Complete(db, f)
    BY DEF WizardIsWhole, Complete
  <2> DEFINE i == draft.configs[f].contract
  <2>1. draft \in Drafts /\ DraftSound(draft, db) /\ draft.activatedAt \in Times
    BY DEF WizardInv, Drafts, Times
  <2>2. f \in Flows
    BY <2>1 DEF Configured, DraftSound, DraftTyped
  <2>3. /\ i \in DOMAIN db.contracts /\ db.contracts[i].flow = f
        /\ db.contracts[i].at = draft.activatedAt
    BY <2>1, <2>2 DEF Repairable, DraftSound
  <2>4. Spared(db, Times)
    BY DEF WizardInv, Kept
  <2> QED BY <2>1, <2>3, <2>4 DEF Spared
<1> QED BY <1>1, WizardHolds, PTL

\* With the wizard, too, a workflow that was removed stays silent until it is
\* taken up again,
THEOREM RemovedQuietForAll == WizardSpec => []QuietOnceRemoved
<1>1. Inv => QuietOnceRemoved
  BY DEF Inv, Sound, RemovedQuiet, Quiet, QuietOnceRemoved, Watched, ActiveOf, ContractsOf,
         Contracts, LiveKeys, KeysOf, RoutesOf
<1> QED BY <1>1, WizardHolds, PTL

\* the board shows what is in watch, and what is wrong first,
THEOREM BoardHonestForAll == WizardSpec => []BoardIsHonest
<1>1. Inv => BoardIsHonest
  BY InvBoard
<1> QED BY <1>1, WizardHolds, PTL

\* and the tables implement the roster.
THEOREM AllKeepRoster == WizardSpec => RosterSpec
<1>1. InitFleet => AbsRoster!Init
  BY DEF InitFleet, AbsRoster!Init, NoFlow, Watched, LiveKeys, KeysOf
<1>2. WizardInv /\ [WizardNext]_<<fleetVars, wizardVars>> => [AbsRoster!Next]_(AbsRoster!vars)
  <2>1. ASSUME WizardInv, WizardNext PROVE [AbsRoster!Next]_(AbsRoster!vars)
    BY <2>1, WizardStepKeeps, PagesKeep DEF WizardNext, RosterStep
  <2>2. ASSUME UNCHANGED <<fleetVars, wizardVars>> PROVE UNCHANGED AbsRoster!vars
    BY <2>2 DEF fleetVars, AbsRoster!vars
  <2> QED BY <2>1, <2>2
<1> QED BY <1>1, <1>2, WizardHolds, PTL DEF WizardSpec, RosterSpec, AbsRoster!Spec

-----------------------------------------------------------------------------
(***************************************************************************)
(* III.  The end of a process                                              *)
(***************************************************************************)

(***************************************************************************)
(* Every variable stays within its type.                                   *)
(***************************************************************************)
THEOREM DrainTypes == ShutdownSpec => []ShutdownTypeOK
<1>1. ShutdownInit => ShutdownTypeOK
  <2> SUFFICES ASSUME ShutdownInit PROVE ShutdownTypeOK
    OBVIOUS
  <2>1. left \in [Works -> 0 .. Units] /\ waited \in 0 .. GraceMs
    BY ShutdownAssumption DEF ShutdownInit
  <2>2. signals \in 0 .. MaxSignals /\ failures \in 0 .. MaxFailures
    BY ShutdownAssumption DEF ShutdownInit
  <2>3. /\ shuttingDown \in BOOLEAN /\ timers \in BOOLEAN
        /\ listening \in BOOLEAN /\ database \in BOOLEAN
        /\ pending \in SUBSET Works /\ serving \in SUBSET Requests
    BY Zenon DEF ShutdownInit
  <2> QED
    BY <2>1, <2>2, <2>3 DEF ShutdownInit, ShutdownTypeOK
<1>2. ShutdownTypeOK /\ [ShutdownNext]_shutdownVars => ShutdownTypeOK'
  <2> SUFFICES ASSUME ShutdownTypeOK, [ShutdownNext]_shutdownVars PROVE ShutdownTypeOK'
    OBVIOUS
  <2> USE ShutdownAssumption DEF ShutdownTypeOK, controlVars
  <2>1. ASSUME NEW w \in Works, StartWork(w) PROVE ShutdownTypeOK'
    BY <2>1 DEF StartWork
  <2>2. ASSUME NEW w \in Works, Advance(w) PROVE ShutdownTypeOK'
    BY <2>2 DEF Advance, Rest
  <2>3. ASSUME NEW w \in Works, Fail(w) PROVE ShutdownTypeOK'
    BY <2>3 DEF Fail, Rejection
  <2>4. ASSUME NEW r \in Requests, StartRequest(r) \/ FinishRequest(r) PROVE ShutdownTypeOK'
    BY <2>4 DEF StartRequest, FinishRequest
  <2>5. CASE Signal
    <3>1. CASE shuttingDown
      BY <2>5, <3>1 DEF Signal, Again
    <3>2. CASE ~shuttingDown
      <4>1. /\ pending' \in SUBSET Works /\ signals' \in 0 .. MaxSignals
            /\ left' \in [Works -> 0 .. Units] /\ waited' \in 0 .. GraceMs
            /\ failures' \in 0 .. MaxFailures
        BY <2>5, <3>2 DEF Signal, Running
      <4>2. /\ shuttingDown' \in BOOLEAN /\ timers' \in BOOLEAN
            /\ stage' \in {"up", "waiting", "closing", "draining", "closed"}
        BY <2>5, <3>2 DEF Signal
      <4> QED
        BY <4>1, <4>2, <2>5, <3>2 DEF Signal
    <3> QED
      BY <3>1, <3>2
  <2>6. CASE ShutdownStep
    <3>1. CASE AwaitWork \/ CloseHttp
      BY <2>6, <3>1 DEF AwaitWork, CloseHttp
    <3>2. CASE ForceExit
      BY <2>6, <3>2 DEF ForceExit
    <3>3. CASE CloseAndExit
      BY <2>6, <3>3 DEF CloseAndExit
    <3> QED
      BY <2>6, <3>1, <3>2, <3>3 DEF ShutdownStep
  <2>7. CASE Time
    BY <2>7 DEF Time
  <2>8. CASE UNCHANGED shutdownVars
    BY <2>8 DEF shutdownVars
  <2> QED
    BY <2>1, <2>2, <2>3, <2>4, <2>5, <2>6, <2>7, <2>8 DEF ShutdownNext
<1> QED
  BY <1>1, <1>2, PTL DEF ShutdownSpec

-----------------------------------------------------------------------------

\* What a shutdown in progress relies on: nothing has started since it began,
\* and it goes on either because nothing is left or because the grace is over.
StageInv ==
    /\ shuttingDown => ~timers /\ signals > 0
    /\ stage # "up" => shuttingDown
    /\ ~shuttingDown => result = "completed"
    /\ stage = "waiting" => Running \subseteq pending /\ result = "completed"
    /\ stage \in {"closing", "draining", "closed"} /\ result = "completed" => Running = {}
    /\ result = "forced" => waited = GraceMs

(***************************************************************************)
(* StageInv holds throughout: the step between "no work of those pending   *)
(* is in flight" and "no work is in flight" is that none has started.      *)
(***************************************************************************)
THEOREM StageCorrect == ShutdownSpec => []StageInv
<1>1. ShutdownInit => StageInv
  BY DEF ShutdownInit, StageInv
<1>2. ShutdownTypeOK /\ StageInv /\ [ShutdownNext]_shutdownVars => StageInv'
  <2> SUFFICES ASSUME ShutdownTypeOK, StageInv, [ShutdownNext]_shutdownVars PROVE StageInv'
    OBVIOUS
  <2> USE ShutdownAssumption DEF StageInv, controlVars
  <2>1. ASSUME NEW w \in Works, StartWork(w) PROVE StageInv'
    BY <2>1 DEF StartWork, Accepts, ShutdownTypeOK
  <2>2. ASSUME NEW w \in Works, Advance(w) PROVE StageInv'
    <3>1. Running' \subseteq Running
      BY <2>2 DEF Advance, Rest, Running, ShutdownTypeOK
    <3> QED
      BY <3>1, <2>2 DEF Advance
  <2>3. ASSUME NEW w \in Works, Fail(w) PROVE StageInv'
    <3>1. Running' \subseteq Running
      BY <2>3 DEF Fail, Running, ShutdownTypeOK
    <3> QED
      BY <3>1, <2>3 DEF Fail
  <2>4. ASSUME NEW r \in Requests, StartRequest(r) \/ FinishRequest(r) PROVE StageInv'
    BY <2>4 DEF StartRequest, FinishRequest, Running
  <2>5. CASE Signal
    <3>1. CASE shuttingDown
      BY <2>5, <3>1 DEF Signal, Again, Running, ShutdownTypeOK
    <3>2. CASE ~shuttingDown
      <4>1. /\ shuttingDown' /\ ~timers' /\ signals' > 0 /\ result' = result
            /\ waited' = waited /\ pending' = Running /\ Running' = Running
        BY <2>5, <3>2 DEF Signal, Running, ShutdownTypeOK
      <4>2. result = "completed"
        BY <3>2
      <4> QED
        BY <2>5, <3>2, <4>1, <4>2 DEF Signal
    <3> QED
      BY <3>1, <3>2
  <2>6. CASE ShutdownStep
    <3>1. CASE AwaitWork
      BY <3>1 DEF AwaitWork, Settled, Running
    <3>2. CASE ForceExit
      BY <3>2 DEF ForceExit, GraceOver, Running
    <3>3. CASE CloseHttp \/ CloseAndExit
      BY <3>3 DEF CloseHttp, CloseAndExit, Running
    <3> QED
      BY <2>6, <3>1, <3>2, <3>3 DEF ShutdownStep
  <2>7. CASE Time
    BY <2>7 DEF Time, Running, ShutdownTypeOK
  <2>8. CASE UNCHANGED shutdownVars
    BY <2>8 DEF shutdownVars, Running
  <2> QED
    BY <2>1, <2>2, <2>3, <2>4, <2>5, <2>6, <2>7, <2>8 DEF ShutdownNext
<1> QED
  BY <1>1, <1>2, DrainTypes, PTL DEF ShutdownSpec

(***************************************************************************)
(* Work in flight is cut off only after it had the whole grace.            *)
(***************************************************************************)
THEOREM GraceGranted == ShutdownSpec => []GraceIsGranted
<1>1. ShutdownTypeOK /\ StageInv => GraceIsGranted
  BY DEF ShutdownTypeOK, StageInv, GraceIsGranted
<1> QED
  BY <1>1, DrainTypes, StageCorrect, PTL

-----------------------------------------------------------------------------

\* What an exit with code 0 means, when there is only one signal.
ExitInv ==
    /\ signals > 0 <=> shuttingDown
    /\ exit = "0" => stage = "closed" /\ result = "completed"
    /\ stage = "closed" => serving = {} /\ ~database /\ ~Alive

(***************************************************************************)
(* With a single signal, an exit that claims to be complete has drained    *)
(* the work and the requests and has closed the database.                  *)
(***************************************************************************)
THEOREM ExitClean == ASSUME MaxSignals <= 1 PROVE ShutdownSpec => []ExitIsClean
<1>1. ShutdownInit => ExitInv
  BY DEF ShutdownInit, ExitInv
<1>2. ShutdownTypeOK /\ StageInv /\ ExitInv /\ [ShutdownNext]_shutdownVars => ExitInv'
  <2> SUFFICES ASSUME ShutdownTypeOK, StageInv, ExitInv, [ShutdownNext]_shutdownVars PROVE ExitInv'
    OBVIOUS
  <2> USE ShutdownAssumption DEF ExitInv, Alive, controlVars
  <2>1. ASSUME NEW w \in Works, StartWork(w) \/ Advance(w) PROVE ExitInv'
    BY <2>1 DEF StartWork, Advance
  <2>2. ASSUME NEW w \in Works, Fail(w) PROVE ExitInv'
    BY <2>2 DEF Fail, Rejection
  <2>3. ASSUME NEW r \in Requests, StartRequest(r) \/ FinishRequest(r) PROVE ExitInv'
    BY <2>3 DEF StartRequest, FinishRequest
  <2>4. CASE Signal
    BY <2>4 DEF Signal, ShutdownTypeOK, StageInv
  <2>5. CASE ShutdownStep
    <3>1. CASE AwaitWork \/ CloseHttp
      BY <3>1 DEF AwaitWork, CloseHttp
    <3>2. CASE ForceExit
      BY <3>2 DEF ForceExit
    <3>3. CASE CloseAndExit
      BY <3>3 DEF CloseAndExit, ShutdownTypeOK
    <3> QED
      BY <2>5, <3>1, <3>2, <3>3 DEF ShutdownStep
  <2>6. CASE Time
    BY <2>6 DEF Time
  <2>7. CASE UNCHANGED shutdownVars
    BY <2>7 DEF shutdownVars
  <2> QED
    BY <2>1, <2>2, <2>3, <2>4, <2>5, <2>6, <2>7 DEF ShutdownNext
<1>3. ShutdownTypeOK /\ StageInv /\ ExitInv => ExitIsClean
  BY DEF StageInv, ExitInv, ExitIsClean
<1> QED
  BY <1>1, <1>2, <1>3, DrainTypes, StageCorrect, PTL DEF ShutdownSpec
=============================================================================
