---------------------------- MODULE WatcherProofs ----------------------------
(***************************************************************************)
(* Proofs about Watcher for every set of processes and contracts, every    *)
(* lease and every suspension.                                             *)
(***************************************************************************)
EXTENDS Watcher, SequenceTheorems, TLAPS

\* The part of the type invariant that the claims need.
LeaseTyped ==
    /\ pc \in [Processes -> {"idle"} \cup TickPlace \cup HandlerPlace]
    /\ todo \in [Processes -> SUBSET Contracts]
    /\ cur \in [Processes -> Contracts \cup {NoContract}]
    /\ stall \in [Processes -> Nat]
    /\ monitored \in [Contracts -> BOOLEAN]
    /\ owner \in [Contracts -> Processes \cup {Nobody, NoClaim}]
    /\ left \in [Contracts -> Int]

\* While the lease of p on a monitored contract runs, the claim row names p
\* and expires at the instant p believes it does.
Leased(p, k) == owner[k] = p /\ left[k] = ClaimTtl - stall[p]
LeaseInv ==
    /\ LeaseTyped
    /\ \A p \in Processes, k \in Contracts :
          Holds(p, k) /\ monitored[k] /\ stall[p] <= ClaimTtl => Leased(p, k)

\* An update stays within the type, at an argument of the domain or not.
LEMMA ExceptKeepsType ==
    ASSUME NEW S, NEW T, NEW f \in [S -> T], NEW x, NEW y,
           x \in S => y \in T
    PROVE  [f EXCEPT ![x] = y] \in [S -> T]
OBVIOUS

\* Nobody holds a claim at first.
LEMMA InitLease == Init => LeaseInv
BY WatcherAssumption DEF Init, LeaseInv, LeaseTyped, Holds, TickPlace

\* A step that leaves the claims, the contracts and the clock alone and keeps
\* a process that evaluates at the contract it evaluates.
LEMMA OutsideClaims ==
    ASSUME LeaseInv, NEW p \in Processes,
           claimVars' = claimVars, monitored' = monitored,
           LeaseTyped',
           \A q \in Processes \ {p} :
              pc'[q] = pc[q] /\ cur'[q] = cur[q] /\ stall'[q] = stall[q],
           \A k \in Contracts : Holds(p, k)' => Holds(p, k) /\ stall'[p] = stall[p]
    PROVE  LeaseInv'
<1> SUFFICES ASSUME NEW q \in Processes, NEW k \in Contracts,
                    Holds(q, k)', monitored'[k], stall'[q] <= ClaimTtl
             PROVE  Leased(q, k)'
  BY DEF LeaseInv
<1>1. Holds(q, k) /\ stall'[q] = stall[q]
  BY DEF Holds
<1>2. Leased(q, k)
  BY <1>1 DEF LeaseInv
<1> QED BY <1>1, <1>2 DEF Leased, claimVars

\* A step of p at which p leaves, or is not at, the places under a claim.
LEMMA StepOfTick ==
    ASSUME LeaseInv, NEW p \in Processes,
           \/ StartTick(p) \/ FinishTick(p) \/ TryClaim(p)
           \/ Evaluate(p) \/ UpsertState(p) \/ LookBefore(p) \/ FindExisting(p)
           \/ InsertIncident(p) \/ Announce(p) \/ LookForOpen(p)
           \/ CheckResolve(p) \/ AnnounceResolved(p)
    PROVE  LeaseInv'
<1> USE DEF LeaseInv, LeaseTyped, Goto, claimVars, stateVars, localVars, counts,
        Holds, TickPlace, HandlerPlace
<1>1. CASE StartTick(p)
  <2>1. LeaseTyped' BY <1>1 DEF StartTick
  <2> QED BY <1>1, <2>1, OutsideClaims DEF StartTick
<1>2. CASE FinishTick(p)
  <2>1. LeaseTyped' BY <1>2 DEF FinishTick
  <2> QED BY <1>2, <2>1, OutsideClaims DEF FinishTick
<1>3. CASE TryClaim(p)
  <2>1. PICK k \in todo[p] :
          IF HeldByOther(p, k)
          THEN todo' = [todo EXCEPT ![p] = @ \ {k}] /\ UNCHANGED <<cur, pc>>
          ELSE /\ cur' = [cur EXCEPT ![p] = k]
               /\ pc' = [pc EXCEPT ![p] = IF owner[k] = NoClaim
                                          THEN "insertClaim" ELSE "takeClaim"]
               /\ UNCHANGED todo
    BY <1>3 DEF TryClaim
  <2>2. LeaseTyped'
    BY <1>3, <2>1 DEF TryClaim
  <2> QED BY <1>3, <2>1, <2>2, OutsideClaims DEF TryClaim
<1>4. CASE Evaluate(p)
  <2>1. LeaseTyped' BY <1>4 DEF Evaluate
  <2> QED BY <1>4, <2>1, OutsideClaims DEF Evaluate
<1>5. CASE UpsertState(p)
  <2>0. Consequence(p) \in {"release", "before", "lookup"}
    BY DEF Consequence
  <2>1. LeaseTyped' BY <1>5, <2>0 DEF UpsertState
  <2> QED BY <1>5, <2>1, OutsideClaims DEF UpsertState
<1>6. CASE LookBefore(p)
  <2>1. LeaseTyped' BY <1>6 DEF LookBefore
  <2> QED BY <1>6, <2>1, OutsideClaims DEF LookBefore
<1>7. CASE FindExisting(p)
  <2>1. LeaseTyped' BY <1>7 DEF FindExisting
  <2> QED BY <1>7, <2>1, OutsideClaims DEF FindExisting
<1>8. CASE InsertIncident(p)
  <2>1. LeaseTyped' BY <1>8 DEF InsertIncident
  <2> QED BY <1>8, <2>1, OutsideClaims DEF InsertIncident
<1>9. CASE Announce(p)
  <2>1. LeaseTyped' BY <1>9 DEF Announce
  <2> QED BY <1>9, <2>1, OutsideClaims DEF Announce
<1>10. CASE LookForOpen(p)
  <2>1. LeaseTyped' BY <1>10 DEF LookForOpen
  <2> QED BY <1>10, <2>1, OutsideClaims DEF LookForOpen
<1>11. CASE CheckResolve(p)
  <2>1. LeaseTyped' BY <1>11 DEF CheckResolve
  <2> QED BY <1>11, <2>1, OutsideClaims DEF CheckResolve
<1>12. CASE AnnounceResolved(p)
  <2>1. LeaseTyped' BY <1>12 DEF AnnounceResolved
  <2> QED BY <1>12, <2>1, OutsideClaims DEF AnnounceResolved
<1> QED BY <1>1, <1>2, <1>3, <1>4, <1>5, <1>6, <1>7, <1>8, <1>9, <1>10, <1>11, <1>12

\* Taking a claim: the row is free or has expired, so nobody holds the
\* contract on a running lease.
LEMMA StepOfClaim ==
    ASSUME LeaseInv, NEW p \in Processes, WriteClaim(p)
    PROVE  LeaseInv'
<1> DEFINE k == cur[p]
           mine == IF pc[p] = "insertClaim" THEN owner[k] = NoClaim
                   ELSE owner[k] # NoClaim /\ ~HeldByOther(p, k)
<1> USE DEF Goto, claimVars, stateVars, counts, Holds, TickPlace, HandlerPlace
<1>1. CASE ~mine
  <2>1. LeaseTyped' /\ claimVars' = claimVars
    BY <1>1 DEF LeaseInv, LeaseTyped, WriteClaim
  <2> QED BY <1>1, <2>1, OutsideClaims DEF LeaseInv, LeaseTyped, WriteClaim
<1>2. CASE mine
  <2>1. /\ owner' = [owner EXCEPT ![k] = p]
        /\ left' = [left EXCEPT ![k] = ClaimTtl - stall[p]]
        /\ pc' = [pc EXCEPT ![p] = "evaluate"]
        /\ UNCHANGED <<todo, cur, stall, monitored>>
    BY <1>2 DEF WriteClaim
  <2>2. LeaseTyped'
    <3>1. ClaimTtl - stall[p] \in Int
      BY WatcherAssumption DEF LeaseInv, LeaseTyped
    <3>2. owner' \in [Contracts -> Processes \cup {Nobody, NoClaim}]
      BY <2>1 DEF LeaseInv, LeaseTyped
    <3>3. left' \in [Contracts -> Int]
      BY <2>1, <3>1, ExceptKeepsType DEF LeaseInv, LeaseTyped
    <3>4. pc' \in [Processes -> {"idle"} \cup TickPlace \cup HandlerPlace]
      BY <2>1 DEF LeaseInv, LeaseTyped
    <3> QED BY <2>1, <3>2, <3>3, <3>4 DEF LeaseInv, LeaseTyped
  <2> SUFFICES ASSUME NEW q \in Processes, NEW j \in Contracts,
                      Holds(q, j)', monitored'[j], stall'[q] <= ClaimTtl
               PROVE  Leased(q, j)'
    BY <2>2 DEF LeaseInv
  <2>3. CASE q = p
    BY <2>1, <2>3 DEF LeaseInv, LeaseTyped, Leased
  <2>4. CASE q # p
    <3>1. Leased(q, j)
      BY <2>1, <2>4 DEF LeaseInv, LeaseTyped
    <3>2. j # k
      <4> SUFFICES ASSUME j = k PROVE FALSE
        OBVIOUS
      <4>1. left[k] >= 0 /\ owner[k] = q /\ stall[p] \in Nat /\ left[k] \in Int
        BY <3>1, <2>1, WatcherAssumption DEF Leased, LeaseInv, LeaseTyped
      <4>2. owner[k] # NoClaim /\ owner[k] # p
        BY <4>1, <2>4, WatcherAssumption
      <4>3. HeldByOther(p, k)
        BY <4>1, <4>2 DEF HeldByOther, ExpiresBefore
      <4> QED BY <1>2, <4>2, <4>3
    <3> QED BY <3>1, <3>2, <2>1 DEF Leased, LeaseInv, LeaseTyped
  <2> QED BY <2>3, <2>4
<1> QED BY <1>1, <1>2

\* releaseClaim on the row of p's contract.
LEMMA DeleteTyped ==
    ASSUME LeaseInv, NEW p \in Processes, DeleteClaim(p)
    PROVE  /\ owner' \in [Contracts -> Processes \cup {Nobody, NoClaim}]
           /\ left' \in [Contracts -> Int]
           /\ \A j \in Contracts :
                 owner[j] # p => owner'[j] = owner[j] /\ left'[j] = left[j]
<1> DEFINE k == cur[p]
<1>1. /\ owner' = [owner EXCEPT ![k] = IF owner[k] = p THEN NoClaim ELSE owner[k]]
      /\ left' = [left EXCEPT ![k] = IF owner[k] = p THEN 0 ELSE left[k]]
  BY DEF DeleteClaim
<1>2. k \in Contracts =>
        /\ owner[k] \in Processes \cup {Nobody, NoClaim}
        /\ left[k] \in Int
  BY DEF LeaseInv, LeaseTyped
<1>3. owner' \in [Contracts -> Processes \cup {Nobody, NoClaim}]
  BY <1>1, <1>2, ExceptKeepsType DEF LeaseInv, LeaseTyped
<1>4. left' \in [Contracts -> Int]
  BY <1>1, <1>2, ExceptKeepsType DEF LeaseInv, LeaseTyped
<1>5. \A j \in Contracts :
        owner[j] # p => owner'[j] = owner[j] /\ left'[j] = left[j]
  BY <1>1 DEF LeaseInv, LeaseTyped
<1> QED BY <1>3, <1>4, <1>5

\* Giving a claim up touches only rows that name p, and p has left.
LEMMA StepOfRelease ==
    ASSUME LeaseInv, NEW p \in Processes, Release(p) \/ Abort(p) \/ Crash(p)
    PROVE  LeaseInv'
<1> USE DEF Goto, claimVars, stateVars, counts, Holds, TickPlace, HandlerPlace
<1>1. LeaseTyped'
  <2>1. CASE Release(p)
    BY <2>1, DeleteTyped DEF LeaseInv, LeaseTyped, Release, ForgetContract
  <2>2. CASE Abort(p)
    BY <2>2, DeleteTyped DEF LeaseInv, LeaseTyped, Abort, ForgetContract
  <2>3. CASE Crash(p)
    BY <2>3 DEF LeaseInv, LeaseTyped, Crash
  <2> QED BY <2>1, <2>2, <2>3
<1>2. /\ pc'[p] \in {"next", "idle"}
      /\ monitored' = monitored
      /\ \A q \in Processes \ {p} :
            pc'[q] = pc[q] /\ cur'[q] = cur[q] /\ stall'[q] = stall[q]
      /\ \A j \in Contracts :
            owner[j] # p => owner'[j] = owner[j] /\ left'[j] = left[j]
  <2>1. CASE Release(p)
    BY <2>1, DeleteTyped DEF LeaseInv, LeaseTyped, Release, ForgetContract
  <2>2. CASE Abort(p)
    BY <2>2, DeleteTyped DEF LeaseInv, LeaseTyped, Abort, ForgetContract
  <2>3. CASE Crash(p)
    BY <2>3 DEF LeaseInv, LeaseTyped, Crash
  <2> QED BY <2>1, <2>2, <2>3
<1> SUFFICES ASSUME NEW q \in Processes, NEW j \in Contracts,
                    Holds(q, j)', monitored'[j], stall'[q] <= ClaimTtl
             PROVE  Leased(q, j)'
  BY <1>1 DEF LeaseInv
<1>3. q # p
  BY <1>2
<1>4. Leased(q, j)
  BY <1>2, <1>3 DEF LeaseInv
<1> QED BY <1>2, <1>3, <1>4 DEF Leased

\* Requests and their handlers never touch a claim, except that removing a
\* workflow deletes the claim of a contract nobody monitors any more.
LEMMA StepOfRequest ==
    ASSUME LeaseInv, NEW p \in Processes, HandlerStep(p) \/ Request(p)
    PROVE  LeaseInv'
<1> USE DEF LeaseInv, LeaseTyped, Goto, claimVars, stateVars, localVars, counts,
        Holds, TickPlace, HandlerPlace
<1>1. CASE WriteResolve(p)
  <2>1. LeaseTyped' BY <1>1 DEF WriteResolve
  <2> QED BY <1>1, <2>1, OutsideClaims DEF WriteResolve
<1>2. CASE WriteAck(p)
  <2>1. LeaseTyped' /\ stall'[p] \in Nat /\ pc'[p] \in {"idle", "tellAck"}
    BY <1>2 DEF WriteAck, EndHandler
  <2> QED BY <1>2, <2>1, OutsideClaims DEF WriteAck, EndHandler
<1>3. CASE TellHandler(p)
  <2>1. LeaseTyped' BY <1>3 DEF TellHandler, EndHandler
  <2> QED BY <1>3, <2>1, OutsideClaims DEF TellHandler, EndHandler
<1>4. ASSUME NEW k \in Contracts, NEW late \in 0 .. MaxLate, Report(p, k, late)
      PROVE  LeaseInv'
  <2>1. LeaseTyped' BY <1>4 DEF Report
  <2> QED BY <1>4, <2>1, OutsideClaims DEF Report
<1>5. ASSUME NEW k \in Contracts, ConnectorTurns(p, k)
      PROVE  LeaseInv'
  <2>1. LeaseTyped' BY <1>5 DEF ConnectorTurns
  <2> QED BY <1>5, <2>1, OutsideClaims DEF ConnectorTurns
<1>6. ASSUME NEW i \in DOMAIN incidents, Acknowledge(p, i) \/ AdminResolve(p, i)
      PROVE  LeaseInv'
  <2>1. LeaseTyped' BY <1>6 DEF Acknowledge, AdminResolve
  <2> QED BY <1>6, <2>1, OutsideClaims DEF Acknowledge, AdminResolve
<1>7. ASSUME NEW k \in Contracts, RemoveWorkflow(p, k)
      PROVE  LeaseInv'
  <2>1. LeaseTyped' BY <1>7 DEF RemoveWorkflow
  <2>2. \A j \in Contracts :
          monitored'[j] => /\ monitored[j]
                           /\ owner'[j] = owner[j] /\ left'[j] = left[j]
    BY <1>7 DEF RemoveWorkflow
  <2> QED BY <1>7, <2>1, <2>2 DEF RemoveWorkflow, Leased
<1> QED BY <1>1, <1>2, <1>3, <1>4, <1>5, <1>6, <1>7 DEF HandlerStep, Request

\* The claim and its holder grow old together.
LEMMA StepOfTime == LeaseInv /\ Tick => LeaseInv'
<1> SUFFICES ASSUME LeaseInv, Tick PROVE LeaseInv'
  OBVIOUS
<1>1. LeaseTyped'
  BY WatcherAssumption DEF LeaseInv, LeaseTyped, Tick, Busy
<1> SUFFICES ASSUME NEW q \in Processes, NEW j \in Contracts,
                    Holds(q, j)', monitored'[j], stall'[q] <= ClaimTtl
             PROVE  Leased(q, j)'
  BY <1>1 DEF LeaseInv
<1>2. Holds(q, j) /\ monitored[j] /\ Busy(q)
  BY DEF Tick, Holds, Busy, TickPlace
<1>3. stall'[q] = stall[q] + 1 /\ stall[q] \in Nat
  BY <1>2 DEF Tick, LeaseInv, LeaseTyped
<1>4. Leased(q, j) /\ owner[j] # NoClaim /\ left[j] >= 1
  BY <1>2, <1>3, WatcherAssumption DEF LeaseInv, Leased
<1>5. left'[j] = left[j] - 1 /\ owner'[j] = owner[j]
  BY <1>4, WatcherAssumption DEF Tick, LeaseInv, LeaseTyped
<1> QED BY <1>3, <1>4, <1>5, WatcherAssumption DEF Leased

\* Every step keeps the leases.
LEMMA LeaseStep == LeaseInv /\ [Next]_vars => LeaseInv'
<1> SUFFICES ASSUME LeaseInv, [Next]_vars PROVE LeaseInv'
  OBVIOUS
<1>1. CASE UNCHANGED vars
  BY <1>1 DEF LeaseInv, LeaseTyped, Leased, Holds, vars, stateVars, claimVars,
              localVars
<1>2. ASSUME NEW p \in Processes, TickStep(p) PROVE LeaseInv'
  BY <1>2, StepOfTick, StepOfClaim, StepOfRelease DEF TickStep
<1>3. ASSUME NEW p \in Processes, HandlerStep(p) \/ Request(p) PROVE LeaseInv'
  BY <1>3, StepOfRequest
<1>4. ASSUME NEW p \in Processes, Crash(p) PROVE LeaseInv'
  BY <1>4, StepOfRelease
<1>5. ASSUME NEW i \in DOMAIN incidents, Deliver(i) PROVE LeaseInv'
  BY <1>5 DEF Deliver, LeaseInv, LeaseTyped, Leased, Holds, stateVars, claimVars,
              localVars
<1>6. CASE Tick
  BY <1>6, StepOfTime
<1> QED BY <1>1, <1>2, <1>3, <1>4, <1>5, <1>6 DEF Next

\* Two processes never evaluate the same monitored contract on running
\* leases, however long any of them is suspended and whoever crashes.
THEOREM LeasesExclude == Spec => []ClaimExclusive
<1>1. LeaseInv => ClaimExclusive
  BY DEF LeaseInv, ClaimExclusive, Leased
<1> QED BY <1>1, InitLease, LeaseStep, PTL DEF Spec
-----------------------------------------------------------------------------
(* The statements of the store                                             *)

\* A rewritten row leaves a table of incidents.
LEMMA RowRewritten ==
    ASSUME NEW rows \in Seq(Incident), NEW n \in DOMAIN rows, NEW row \in Incident
    PROVE  /\ [rows EXCEPT ![n] = row] \in Seq(Incident)
           /\ DOMAIN [rows EXCEPT ![n] = row] = DOMAIN rows
           /\ \A i \in DOMAIN rows :
                 [rows EXCEPT ![n] = row][i] = IF i = n THEN row ELSE rows[i]
OBVIOUS

\* Counting saturates.
LEMMA OneMoreTyped ==
    ASSUME NEW n \in 0 .. 2
    PROVE  OneMore(n) \in 0 .. 2 /\ (n = 0 => OneMore(n) = 1) /\ OneMore(n) > 0
BY DEF OneMore

\* An outbox row is counted with its incident, which stays as it is otherwise.
LEMMA ToldDoes ==
    ASSUME NEW rows \in Seq(Incident), NEW n \in DOMAIN rows, NEW event,
           NEW next, next = Told(rows, n, event)
    PROVE  /\ next \in Seq(Incident) /\ DOMAIN next = DOMAIN rows
           /\ \A i \in DOMAIN rows \ {n} : next[i] = rows[i]
           /\ next[n].problem = rows[n].problem /\ next[n].status = rows[n].status
           /\ (next[n].recovered <=> rows[n].recovered)
           /\ (next[n].acked <=> rows[n].acked)
           /\ \A a \in Announcement : next[n].told[a] =
                 IF a = event THEN OneMore(rows[n].told[a]) ELSE rows[n].told[a]
<1>. DEFINE told == [e \in Announcement |-> IF e = event THEN OneMore(rows[n].told[e])
                                            ELSE rows[n].told[e]]
            row == [rows[n] EXCEPT !.pending = OneMore(@), !.told = told]
<1>1. rows[n] \in Incident
  OBVIOUS
<1>2. told \in [Announcement -> 0 .. 2]
  BY <1>1, OneMoreTyped DEF Incident
<1>3. \A a \in Announcement : told[a] = IF a = event THEN OneMore(rows[n].told[a])
                                        ELSE rows[n].told[a]
  OBVIOUS
<1>4. next = [rows EXCEPT ![n] = row]
  BY <1>1 DEF Told, Incident
<1>. HIDE DEF told
<1>5. /\ row \in Incident
      /\ row.problem = rows[n].problem /\ row.status = rows[n].status
      /\ row.recovered = rows[n].recovered /\ row.acked = rows[n].acked
      /\ row.told = told
  BY <1>1, <1>2, OneMoreTyped DEF Incident
<1>. HIDE DEF row
<1>6. /\ next \in Seq(Incident) /\ DOMAIN next = DOMAIN rows
      /\ \A i \in DOMAIN rows : next[i] = IF i = n THEN row ELSE rows[i]
  BY <1>4, <1>5, RowRewritten
<1>7. QED
  BY <1>3, <1>5, <1>6

\* A resolution changes the status of one row.
LEMMA ResolvedDoes ==
    ASSUME NEW rows \in Seq(Incident), NEW n \in DOMAIN rows,
           NEW next, next = Resolved(rows, n)
    PROVE  /\ next \in Seq(Incident) /\ DOMAIN next = DOMAIN rows
           /\ \A i \in DOMAIN rows \ {n} : next[i] = rows[i]
           /\ next[n].problem = rows[n].problem /\ (next[n].acked <=> rows[n].acked)
           /\ next[n].told = rows[n].told
           /\ next[n].status = "resolved" /\ next[n].recovered
<1>. DEFINE row == [rows[n] EXCEPT !.status = "resolved", !.recovered = TRUE]
<1>1. rows[n] \in Incident
  OBVIOUS
<1>2. next = [rows EXCEPT ![n] = row]
  BY <1>1 DEF Resolved, Incident
<1>3. /\ row \in Incident
      /\ row.problem = rows[n].problem /\ row.acked = rows[n].acked
      /\ row.told = rows[n].told /\ row.status = "resolved" /\ row.recovered
  BY <1>1 DEF Incident, Status
<1>. HIDE DEF row
<1>4. /\ next \in Seq(Incident) /\ DOMAIN next = DOMAIN rows
      /\ \A i \in DOMAIN rows : next[i] = IF i = n THEN row ELSE rows[i]
  BY <1>2, <1>3, RowRewritten
<1>5. QED
  BY <1>3, <1>4

\* An acknowledgement writes the status it was given.
LEMMA AcknowledgedDoes ==
    ASSUME NEW rows \in Seq(Incident), NEW n \in DOMAIN rows, NEW status \in Status,
           NEW next, next = Acknowledged(rows, n, status)
    PROVE  /\ next \in Seq(Incident) /\ DOMAIN next = DOMAIN rows
           /\ \A i \in DOMAIN rows \ {n} : next[i] = rows[i]
           /\ next[n].problem = rows[n].problem
           /\ (next[n].recovered <=> rows[n].recovered) /\ next[n].told = rows[n].told
           /\ next[n].status = status /\ next[n].acked
<1>. DEFINE row == [rows[n] EXCEPT !.status = status, !.acked = TRUE]
<1>1. rows[n] \in Incident
  OBVIOUS
<1>2. next = [rows EXCEPT ![n] = row]
  BY <1>1 DEF Acknowledged, Incident
<1>3. /\ row \in Incident
      /\ row.problem = rows[n].problem /\ row.recovered = rows[n].recovered
      /\ row.told = rows[n].told /\ row.status = status /\ row.acked
  BY <1>1 DEF Incident
<1>. HIDE DEF row
<1>4. /\ next \in Seq(Incident) /\ DOMAIN next = DOMAIN rows
      /\ \A i \in DOMAIN rows : next[i] = IF i = n THEN row ELSE rows[i]
  BY <1>2, <1>3, RowRewritten
<1>5. QED
  BY <1>3, <1>4

\* The table with one more row.
LEMMA OpenedTyped ==
    ASSUME NEW rows \in Seq(Incident), NEW k \in Problems,
           NEW next, next = Opened(rows, k)
    PROVE  next \in Seq(Incident)
<1>. DEFINE row == [problem |-> k, status |-> "open", recovered |-> FALSE,
                    acked |-> FALSE, told |-> [e \in Announcement |-> 0],
                    pending |-> 0, age |-> 0]
<1>1. row \in Incident
  BY BackoffAssumption DEF Incident, Status
<1>2. next = Append(rows, row)
  BY DEF Opened
<1>. HIDE DEF row
<1>3. QED
  BY <1>1, <1>2

\* It is open, and nothing has happened to it nor has anybody been told.
LEMMA OpenedIsNew ==
    ASSUME NEW rows \in Seq(Incident), NEW k \in Problems,
           NEW next, next = Opened(rows, k), NEW n, n = Len(rows) + 1
    PROVE  /\ next[n].status = "open" /\ ~next[n].recovered /\ ~next[n].acked
           /\ next[n].told = [e \in Announcement |-> 0]
BY DEF Opened

\* What happens to a row as to its announcements: nothing.
Same(row, other) ==
    /\ other.problem = row.problem /\ other.status = row.status
    /\ other.recovered = row.recovered /\ other.acked = row.acked
    /\ other.told = row.told

\* Rows grow old and deliveries are noted without any other change.
LEMMA AgedDoes ==
    ASSUME NEW rows \in Seq(Incident)
    PROVE  /\ Aged(rows) \in Seq(Incident) /\ DOMAIN Aged(rows) = DOMAIN rows
           /\ \A i \in DOMAIN rows : Same(rows[i], Aged(rows)[i])
<1>. DEFINE old(i) == [rows[i] EXCEPT !.age = Older(@)]
<1>1. ASSUME NEW i \in DOMAIN rows PROVE old(i) \in Incident /\ Same(rows[i], old(i))
  <2>1. rows[i] \in Incident
    OBVIOUS
  <2>2. Older(rows[i].age) \in 0 .. Backoff
    BY <2>1, BackoffAssumption DEF Older, Incident
  <2>3. QED
    BY <2>1, <2>2 DEF Incident, Same
<1>2. Aged(rows) = [i \in DOMAIN rows |-> old(i)]
  BY DEF Aged
<1>. HIDE DEF old
<1>3. QED
  BY <1>1, <1>2

\* A delivery is noted in the columns of its own row.
LEMMA NotifiedDoes ==
    ASSUME NEW rows \in Seq(Incident), NEW n \in DOMAIN rows, rows[n].pending > 0,
           NEW next, next = Notified(rows, n)
    PROVE  /\ next \in Seq(Incident) /\ DOMAIN next = DOMAIN rows
           /\ \A i \in DOMAIN rows : Same(rows[i], next[i])
<1>. DEFINE row == [rows[n] EXCEPT !.age = 0, !.pending = @ - 1]
<1>1. rows[n] \in Incident
  OBVIOUS
<1>2. next = [rows EXCEPT ![n] = row]
  BY <1>1 DEF Notified, Incident
<1>3. row \in Incident /\ Same(rows[n], row)
  <2>1. rows[n].pending \in 0 .. 2
    BY <1>1 DEF Incident
  <2>2. rows[n].pending - 1 \in 0 .. 2 /\ 0 \in 0 .. Backoff
    BY <2>1, BackoffAssumption
  <2>3. QED
    BY <1>1, <2>2 DEF Incident, Same
<1>. HIDE DEF row
<1>4. QED
  BY <1>2, <1>3, RowRewritten DEF Same

-----------------------------------------------------------------------------
(* What a process writes about                                             *)

StoreTyped ==
    /\ incidents \in Seq(Incident)
    /\ stall \in [Processes -> 0 .. MaxStall]
    /\ before \in [Processes -> Nat]
    /\ inc \in [Processes -> Nat]
    /\ newStatus \in [Processes -> Status]
    /\ crashes \in Nat

\* The places at which a process is about to write about the incident it names.
Writing == {"announce", "checkResolve", "writeResolve", "announceResolved",
            "writeAck", "tellAck", "writeAdmin", "tellAdmin"}

\* A process names incidents there are, and announces those of its contract.
NamedAt(p) ==
    /\ pc[p] \in TickPlace \ {"next"} => cur[p] \in Contracts
    /\ pc[p] \in Writing => inc[p] \in DOMAIN incidents
    /\ before[p] # 0 => before[p] \in DOMAIN incidents
    /\ pc[p] = "announce" => incidents[inc[p]].problem = cur[p]
Named == \A p \in Processes : NamedAt(p)

StoreInv == StoreTyped /\ Named

\* Rows are never deleted, and what has happened to one is not undone.
Grows ==
    /\ incidents' \in Seq(Incident)
    /\ DOMAIN incidents \subseteq DOMAIN incidents'
    /\ \A i \in DOMAIN incidents :
          /\ incidents'[i].problem = incidents[i].problem
          /\ incidents[i].acked => incidents'[i].acked
          /\ incidents[i].recovered => incidents'[i].recovered

\* A report resolves what is unresolved about its contract, and says so.
LEMMA ReportDoes ==
    ASSUME StoreInv, NEW p, NEW k \in Contracts, NEW late, Report(p, k, late)
    PROVE  /\ incidents' \in Seq(Incident) /\ DOMAIN incidents' = DOMAIN incidents
           /\ \A i \in DOMAIN incidents :
                 IF i \in Unresolved(incidents, k)
                 THEN /\ incidents'[i].problem = incidents[i].problem
                      /\ (incidents'[i].acked <=> incidents[i].acked)
                      /\ incidents'[i].status = "resolved"
                      /\ incidents'[i].recovered
                      /\ \A a \in Announcement : incidents'[i].told[a] =
                            IF a = "resolved" THEN OneMore(incidents[i].told[a])
                            ELSE incidents[i].told[a]
                 ELSE incidents'[i] = incidents[i]
<1>1. incidents \in Seq(Incident)
  BY DEF StoreInv, StoreTyped
<1>2. incidents' = [i \in DOMAIN incidents |->
                      IF i \in Unresolved(incidents, k)
                      THEN Told(Resolved(incidents, i), i, "resolved")[i]
                      ELSE incidents[i]]
  BY DEF Report
<1>3. ASSUME NEW i \in DOMAIN incidents, i \in Unresolved(incidents, k)
      PROVE  /\ incidents'[i] \in Incident
             /\ incidents'[i].problem = incidents[i].problem
             /\ (incidents'[i].acked <=> incidents[i].acked)
             /\ incidents'[i].status = "resolved" /\ incidents'[i].recovered
             /\ \A a \in Announcement : incidents'[i].told[a] =
                   IF a = "resolved" THEN OneMore(incidents[i].told[a])
                   ELSE incidents[i].told[a]
  <2>1. PICK closed : closed = Resolved(incidents, i)
    OBVIOUS
  <2>2. PICK next : next = Told(closed, i, "resolved")
    OBVIOUS
  <2>3. /\ closed \in Seq(Incident) /\ DOMAIN closed = DOMAIN incidents
        /\ closed[i].problem = incidents[i].problem
        /\ (closed[i].acked <=> incidents[i].acked)
        /\ closed[i].told = incidents[i].told
        /\ closed[i].status = "resolved" /\ closed[i].recovered
    BY <1>1, <2>1, ResolvedDoes
  <2>4. /\ next \in Seq(Incident) /\ DOMAIN next = DOMAIN closed
        /\ next[i].problem = closed[i].problem
        /\ next[i].status = closed[i].status
        /\ (next[i].recovered <=> closed[i].recovered)
        /\ (next[i].acked <=> closed[i].acked)
        /\ \A a \in Announcement : next[i].told[a] =
              IF a = "resolved" THEN OneMore(closed[i].told[a])
              ELSE closed[i].told[a]
    BY <2>2, <2>3, ToldDoes
  <2>5. next[i] \in Incident
    BY <2>3, <2>4
  <2>6. incidents'[i] = next[i]
    BY <1>2, <1>3, <2>1, <2>2
  <2>7. QED
    BY <2>3, <2>4, <2>5, <2>6
<1>4. \A i \in DOMAIN incidents :
         i \notin Unresolved(incidents, k) => incidents'[i] = incidents[i]
  BY <1>2
<1>5. DOMAIN incidents' = DOMAIN incidents
  BY <1>2
<1>6. incidents' \in Seq(Incident)
  <2>1. PICK n \in Nat : DOMAIN incidents = 1 .. n
    BY <1>1
  <2>2. \A i \in DOMAIN incidents : incidents[i] \in Incident
    BY <1>1
  <2>3. \A i \in DOMAIN incidents : incidents'[i] \in Incident
    BY <1>3, <1>4, <2>2
  <2>4. incidents' \in [1 .. n -> Incident]
    BY <1>2, <1>5, <2>1, <2>3
  <2>5. QED
    BY <2>4
<1>7. QED
  BY <1>3, <1>4, <1>5, <1>6
\* A step of p: a tick's, a handler's, or its end.
StepOf(p) == TickStep(p) \/ HandlerStep(p) \/ Request(p) \/ Crash(p)

\* Where a process is and what it remembers.
Kept(q) == UNCHANGED <<pc[q], cur[q], stall[q], before[q], inc[q], newStatus[q]>>

\* A step of one process changes nothing of what another remembers.
LEMMA OthersKept ==
    ASSUME LeaseInv, StoreInv, NEW p \in Processes, StepOf(p),
           NEW q \in Processes, q # p
    PROVE  Kept(q)
<1>. USE DEF Goto, ForgetContract, EndHandler, localVars, Kept
<1>1. /\ pc \in [Processes -> {"idle"} \cup TickPlace \cup HandlerPlace]
      /\ cur \in [Processes -> Contracts \cup {NoContract}]
      /\ stall \in [Processes -> 0 .. MaxStall]
      /\ before \in [Processes -> Nat] /\ inc \in [Processes -> Nat]
      /\ newStatus \in [Processes -> Status]
  BY DEF LeaseInv, LeaseTyped, StoreInv, StoreTyped
<1>2. CASE TryClaim(p)
  BY <1>1, <1>2 DEF TryClaim
<1>3. CASE WriteClaim(p)
  BY <1>1, <1>3 DEF WriteClaim
<1>4. CASE StartTick(p) \/ FinishTick(p) \/ Evaluate(p) \/ UpsertState(p)
           \/ LookBefore(p) \/ FindExisting(p) \/ InsertIncident(p) \/ Announce(p)
  BY <1>1, <1>4 DEF StartTick, FinishTick, Evaluate, UpsertState, LookBefore,
     FindExisting, InsertIncident, Announce
<1>5. CASE LookForOpen(p) \/ CheckResolve(p) \/ AnnounceResolved(p) \/ Release(p)
           \/ Abort(p) \/ WriteResolve(p) \/ WriteAck(p) \/ TellHandler(p)
  BY <1>1, <1>5 DEF LookForOpen, CheckResolve, AnnounceResolved, Release, Abort,
     WriteResolve, WriteAck, TellHandler
<1>6. CASE Request(p) \/ Crash(p)
  BY <1>1, <1>6 DEF Request, Report, RemoveWorkflow, ConnectorTurns, Acknowledge,
     AdminResolve, Crash
<1>7. QED
  BY <1>2, <1>3, <1>4, <1>5, <1>6 DEF StepOf, TickStep, HandlerStep

\* The steps that leave the table alone.
LEMMA StoreReads ==
    ASSUME LeaseInv, StoreInv, NEW p \in Processes,
           \/ StartTick(p) \/ FinishTick(p) \/ TryClaim(p) \/ WriteClaim(p)
           \/ Evaluate(p) \/ UpsertState(p) \/ LookBefore(p) \/ FindExisting(p)
           \/ LookForOpen(p) \/ CheckResolve(p) \/ Release(p) \/ Abort(p)
           \/ Crash(p)
           \/ \E k \in Contracts : RemoveWorkflow(p, k) \/ ConnectorTurns(p, k)
           \/ \E i \in DOMAIN incidents : Acknowledge(p, i) \/ AdminResolve(p, i)
    PROVE  StoreTyped' /\ NamedAt(p)' /\ incidents' = incidents
<1>. USE DEF Goto, ForgetContract, localVars, counts, TickPlace, HandlerPlace,
       Writing
<1>1. /\ pc \in [Processes -> {"idle"} \cup TickPlace \cup HandlerPlace]
      /\ todo \in [Processes -> SUBSET Contracts]
      /\ cur \in [Processes -> Contracts \cup {NoContract}]
      /\ incidents \in Seq(Incident)
      /\ stall \in [Processes -> 0 .. MaxStall]
      /\ before \in [Processes -> Nat] /\ inc \in [Processes -> Nat]
      /\ newStatus \in [Processes -> Status]
      /\ crashes \in Nat
      /\ MaxStall \in Nat
      /\ NamedAt(p)
  BY WatcherAssumption DEF LeaseInv, LeaseTyped, StoreInv, StoreTyped, Named
<1>2. DOMAIN incidents \subseteq Nat \ {0}
  BY <1>1
<1>3. CASE StartTick(p) \/ FinishTick(p) \/ Evaluate(p) \/ CheckResolve(p)
  BY <1>1, <1>3 DEF StartTick, FinishTick, Evaluate, CheckResolve, StoreTyped, NamedAt
<1>4. CASE TryClaim(p)
  BY <1>1, <1>4 DEF TryClaim, StoreTyped, NamedAt
<1>5. CASE WriteClaim(p)
  BY <1>1, <1>5 DEF WriteClaim, StoreTyped, NamedAt
<1>6. CASE UpsertState(p)
  <2>1. Consequence(p) \in {"release", "before", "lookup"}
    BY DEF Consequence
  <2>2. QED
    BY <1>1, <1>6, <2>1 DEF UpsertState, StoreTyped, NamedAt
<1>7. CASE LookBefore(p)
  BY <1>1, <1>2, <1>7 DEF LookBefore, StoreTyped, NamedAt, Unresolved
<1>8. CASE FindExisting(p)
  BY <1>1, <1>2, <1>8 DEF FindExisting, StoreTyped, NamedAt, Unresolved
<1>9. CASE LookForOpen(p)
  BY <1>1, <1>2, <1>9 DEF LookForOpen, StoreTyped, NamedAt, Unresolved
<1>10. CASE Release(p) \/ Abort(p)
  <2>1. /\ pc'[p] \in {"next", "idle"} /\ before'[p] = 0
        /\ UNCHANGED <<incidents, newStatus, crashes>>
        /\ before' = [before EXCEPT ![p] = 0] /\ inc' = [inc EXCEPT ![p] = 0]
        /\ stall' \in {stall, [stall EXCEPT ![p] = 0]}
    BY <1>1, <1>10 DEF Release, Abort
  <2>2. StoreTyped'
    BY <1>1, <2>1 DEF StoreTyped
  <2>3. QED
    BY <2>1, <2>2 DEF NamedAt
<1>11. CASE Crash(p)
  BY <1>1, <1>11 DEF Crash, StoreTyped, NamedAt, Status
<1>12. CASE \E k \in Contracts : RemoveWorkflow(p, k) \/ ConnectorTurns(p, k)
  BY <1>1, <1>12 DEF RemoveWorkflow, ConnectorTurns, StoreTyped, NamedAt
<1>13. CASE \E i \in DOMAIN incidents : Acknowledge(p, i) \/ AdminResolve(p, i)
  BY <1>1, <1>2, <1>13 DEF Acknowledge, AdminResolve, StoreTyped, NamedAt,
     LegacyStatus, Status
<1>14. QED
  BY <1>3, <1>4, <1>5, <1>6, <1>7, <1>8, <1>9, <1>10, <1>11, <1>12, <1>13
\* The rows an update of one row leaves behind.
LEMMA UpdateGrows ==
    ASSUME NEW n \in DOMAIN incidents, NEW next,
           incidents \in Seq(Incident), next \in Seq(Incident),
           DOMAIN next = DOMAIN incidents,
           \A i \in DOMAIN incidents \ {n} : next[i] = incidents[i],
           next[n].problem = incidents[n].problem,
           incidents[n].acked => next[n].acked,
           incidents[n].recovered => next[n].recovered,
           incidents' = next
    PROVE  Grows
BY DEF Grows

\* The steps that write.
LEMMA StoreWrites ==
    ASSUME LeaseInv, StoreInv, NEW p \in Processes,
           \/ InsertIncident(p) \/ Announce(p) \/ WriteResolve(p)
           \/ AnnounceResolved(p) \/ WriteAck(p) \/ TellHandler(p)
           \/ \E k \in Contracts, late \in 0 .. MaxLate : Report(p, k, late)
    PROVE  StoreTyped' /\ NamedAt(p)' /\ Grows
<1>. USE DEF Goto, localVars, counts, TickPlace, HandlerPlace, Writing
<1>1. /\ pc \in [Processes -> {"idle"} \cup TickPlace \cup HandlerPlace]
      /\ cur \in [Processes -> Contracts \cup {NoContract}]
      /\ incidents \in Seq(Incident)
      /\ stall \in [Processes -> 0 .. MaxStall]
      /\ before \in [Processes -> Nat] /\ inc \in [Processes -> Nat]
      /\ newStatus \in [Processes -> Status]
      /\ crashes \in Nat
      /\ MaxStall \in Nat
      /\ NamedAt(p)
  BY WatcherAssumption DEF LeaseInv, LeaseTyped, StoreInv, StoreTyped, Named
<1>2. CASE InsertIncident(p)
  <2>1. /\ cur[p] \in Problems /\ incidents' = Opened(incidents, cur[p])
        /\ inc' = [inc EXCEPT ![p] = Len(incidents) + 1]
        /\ pc' = [pc EXCEPT ![p] = "announce"]
        /\ UNCHANGED <<cur, stall, before, newStatus, crashes>>
    BY <1>1, <1>2 DEF InsertIncident, NamedAt, Contracts
  <2>2. PICK n : n = Len(incidents) + 1
    OBVIOUS
  <2>3. PICK k : k = cur[p]
    OBVIOUS
  <2>4. PICK next : next = Opened(incidents, k)
    OBVIOUS
  <2>5. /\ next \in Seq(Incident) /\ DOMAIN next = DOMAIN incidents \cup {n}
        /\ n \in Nat \ {0} /\ n \notin DOMAIN incidents
        /\ \A i \in DOMAIN incidents : next[i] = incidents[i]
        /\ next[n].problem = k
    <3>1. k \in Problems /\ incidents \in Seq(Incident)
      BY <1>1, <2>1, <2>3
    <3>2. next \in Seq(Incident)
      BY <2>4, <3>1, OpenedTyped
    <3>3. /\ DOMAIN next = DOMAIN incidents \cup {n}
          /\ n \in Nat \ {0} /\ n \notin DOMAIN incidents
          /\ \A i \in DOMAIN incidents : next[i] = incidents[i]
          /\ next[n].problem = k
      BY <2>2, <2>4, <3>1 DEF Opened
    <3>4. QED
      BY <3>2, <3>3
  <2>6. StoreTyped'
    BY <1>1, <2>1, <2>2, <2>3, <2>4, <2>5 DEF StoreTyped
  <2>7. Grows
    BY <2>1, <2>3, <2>4, <2>5 DEF Grows
  <2>8. /\ inc'[p] = n /\ pc'[p] = "announce"
        /\ before'[p] = before[p] /\ cur'[p] = cur[p]
    BY <1>1, <2>1, <2>2
  <2>9. NamedAt(p)'
    BY <1>1, <2>1, <2>3, <2>4, <2>5, <2>8 DEF NamedAt, Contracts
  <2>10. QED
    BY <2>6, <2>7, <2>9
<1>3. CASE Announce(p)
  <2>1. /\ inc[p] \in DOMAIN incidents
        /\ before[p] # 0 => before[p] \in DOMAIN incidents
        /\ pc' = [pc EXCEPT ![p] = "release"]
        /\ UNCHANGED <<cur, stall, before, inc, newStatus, crashes>>
    BY <1>1, <1>3 DEF Announce, NamedAt
  <2>2. \/ incidents' = incidents
        \/ \E n \in DOMAIN incidents, e \in EventType : incidents' = Told(incidents, n, e)
    BY <1>3, <2>1 DEF Announce, EventType
  <2>3. Grows /\ DOMAIN incidents' = DOMAIN incidents
    <3>1. CASE incidents' = incidents
      BY <1>1, <3>1 DEF Grows
    <3>2. ASSUME NEW n \in DOMAIN incidents, NEW e \in EventType,
                 incidents' = Told(incidents, n, e)
          PROVE  Grows /\ DOMAIN incidents' = DOMAIN incidents
      <4>1. PICK next : next = Told(incidents, n, e)
        OBVIOUS
      <4>2. /\ next \in Seq(Incident) /\ DOMAIN next = DOMAIN incidents
            /\ \A i \in DOMAIN incidents \ {n} : next[i] = incidents[i]
            /\ next[n].problem = incidents[n].problem
            /\ (next[n].recovered <=> incidents[n].recovered)
            /\ (next[n].acked <=> incidents[n].acked)
        BY <1>1, <4>1, ToldDoes
      <4>3. QED
        BY <1>1, <3>2, <4>1, <4>2, UpdateGrows
    <3>3. QED
      BY <2>2, <3>1, <3>2
  <2>4. StoreTyped'
    BY <1>1, <2>1, <2>3 DEF StoreTyped, Grows
  <2>5. NamedAt(p)'
    BY <1>1, <1>3, <2>1, <2>3 DEF NamedAt, Announce
  <2>6. QED
    BY <2>3, <2>4, <2>5
<1>4. CASE WriteResolve(p)
  <2>1. /\ inc[p] \in DOMAIN incidents
        /\ incidents' = Resolved(incidents, inc[p])
        /\ pc'[p] \in {"announceResolved", "tellAdmin"}
        /\ pc[p] = "writeResolve" \/ pc'[p] = "tellAdmin"
        /\ UNCHANGED <<cur, stall, before, inc, newStatus, crashes>>
    BY <1>1, <1>4 DEF WriteResolve, NamedAt
  <2>2. PICK n : n = inc[p]
    OBVIOUS
  <2>3. PICK next : next = Resolved(incidents, n)
    OBVIOUS
  <2>4. /\ next \in Seq(Incident) /\ DOMAIN next = DOMAIN incidents
        /\ \A i \in DOMAIN incidents \ {n} : next[i] = incidents[i]
        /\ next[n].problem = incidents[n].problem
        /\ next[n].recovered
        /\ (next[n].acked <=> incidents[n].acked)
    BY <1>1, <2>1, <2>2, <2>3, ResolvedDoes
  <2>5. Grows /\ DOMAIN incidents' = DOMAIN incidents
    BY <1>1, <2>1, <2>2, <2>3, <2>4, UpdateGrows
  <2>6. StoreTyped'
    BY <1>1, <2>1, <2>5 DEF StoreTyped, Grows
  <2>7. QED
    BY <1>1, <2>1, <2>5, <2>6 DEF NamedAt
<1>5. CASE AnnounceResolved(p) \/ TellHandler(p)
  <2>1. /\ inc[p] \in DOMAIN incidents
        /\ \E e \in EventType : incidents' = Told(incidents, inc[p], e)
        /\ pc'[p] \in {"idle", "release"}
        /\ pc'[p] = "release" => pc[p] = "announceResolved" /\ inc' = inc
        /\ stall' \in {stall, [stall EXCEPT ![p] = 0]}
        /\ inc' \in {inc, [inc EXCEPT ![p] = 0]}
        /\ newStatus' \in {newStatus, [newStatus EXCEPT ![p] = "open"]}
        /\ UNCHANGED <<cur, before, crashes>>
    BY <1>1, <1>5 DEF AnnounceResolved, TellHandler, EndHandler, NamedAt, EventType
  <2>2. PICK n : n = inc[p]
    OBVIOUS
  <2>3. PICK e \in EventType : incidents' = Told(incidents, n, e)
    BY <2>1, <2>2
  <2>4. PICK next : next = Told(incidents, n, e)
    OBVIOUS
  <2>5. /\ next \in Seq(Incident) /\ DOMAIN next = DOMAIN incidents
        /\ \A i \in DOMAIN incidents \ {n} : next[i] = incidents[i]
        /\ next[n].problem = incidents[n].problem
        /\ (next[n].recovered <=> incidents[n].recovered)
        /\ (next[n].acked <=> incidents[n].acked)
    BY <1>1, <2>1, <2>2, <2>4, ToldDoes
  <2>6. Grows /\ DOMAIN incidents' = DOMAIN incidents
    BY <1>1, <2>1, <2>2, <2>3, <2>4, <2>5, UpdateGrows
  <2>7. StoreTyped'
    <3>1. /\ [stall EXCEPT ![p] = 0] \in [Processes -> 0 .. MaxStall]
          /\ [inc EXCEPT ![p] = 0] \in [Processes -> Nat]
      BY <1>1
    <3>2. [newStatus EXCEPT ![p] = "open"] \in [Processes -> Status]
      BY <1>1 DEF Status
    <3>3. QED
      BY <1>1, <2>1, <2>6, <3>1, <3>2 DEF StoreTyped, Grows
  <2>8. QED
    BY <1>1, <2>1, <2>6, <2>7 DEF NamedAt
<1>6. CASE WriteAck(p)
  <2>1. /\ inc[p] \in DOMAIN incidents
        /\ \/ incidents' = incidents /\ pc'[p] = "idle"
           \/ /\ incidents' = Acknowledged(incidents, inc[p], newStatus[p])
              /\ pc'[p] = "tellAck" /\ inc' = inc
        /\ stall' \in {stall, [stall EXCEPT ![p] = 0]}
        /\ inc' \in {inc, [inc EXCEPT ![p] = 0]}
        /\ newStatus' \in {newStatus, [newStatus EXCEPT ![p] = "open"]}
        /\ UNCHANGED <<cur, before, crashes>>
    BY <1>1, <1>6 DEF WriteAck, EndHandler, NamedAt
  <2>2. Grows /\ DOMAIN incidents' = DOMAIN incidents
    <3>1. CASE incidents' = incidents
      BY <1>1, <3>1 DEF Grows
    <3>2. CASE incidents' = Acknowledged(incidents, inc[p], newStatus[p])
      <4>1. PICK n : n = inc[p]
        OBVIOUS
      <4>2. PICK st : st = newStatus[p]
        OBVIOUS
      <4>3. PICK next : next = Acknowledged(incidents, n, st)
        OBVIOUS
      <4>4. /\ next \in Seq(Incident) /\ DOMAIN next = DOMAIN incidents
            /\ \A i \in DOMAIN incidents \ {n} : next[i] = incidents[i]
            /\ next[n].problem = incidents[n].problem
            /\ (next[n].recovered <=> incidents[n].recovered)
            /\ next[n].acked
        <5>1. st \in Status /\ n \in DOMAIN incidents
          BY <1>1, <2>1, <4>1, <4>2
        <5>2. QED
          BY <1>1, <4>3, <5>1, AcknowledgedDoes
      <4>5. QED
        BY <1>1, <2>1, <3>2, <4>1, <4>2, <4>3, <4>4, UpdateGrows
    <3>3. QED
      BY <2>1, <3>1, <3>2
  <2>3. StoreTyped'
    <3>1. /\ [stall EXCEPT ![p] = 0] \in [Processes -> 0 .. MaxStall]
          /\ [inc EXCEPT ![p] = 0] \in [Processes -> Nat]
      BY <1>1
    <3>2. [newStatus EXCEPT ![p] = "open"] \in [Processes -> Status]
      BY <1>1 DEF Status
    <3>3. QED
      BY <1>1, <2>1, <2>2, <3>1, <3>2 DEF StoreTyped, Grows
  <2>4. QED
    BY <1>1, <2>1, <2>2, <2>3 DEF NamedAt
<1>7. ASSUME NEW k \in Contracts, NEW late \in 0 .. MaxLate, Report(p, k, late)
      PROVE  StoreTyped' /\ NamedAt(p)' /\ Grows
  <2>1. /\ incidents' \in Seq(Incident) /\ DOMAIN incidents' = DOMAIN incidents
        /\ \A i \in DOMAIN incidents :
              /\ incidents'[i].problem = incidents[i].problem
              /\ incidents[i].acked => incidents'[i].acked
              /\ incidents[i].recovered => incidents'[i].recovered
    BY <1>7, ReportDoes
  <2>2. /\ pc[p] = "idle"
        /\ UNCHANGED <<pc, cur, stall, before, inc, newStatus, crashes>>
    BY <1>7 DEF Report
  <2>3. StoreTyped' /\ Grows
    BY <1>1, <2>1, <2>2 DEF StoreTyped, Grows
  <2>4. QED
    BY <1>1, <2>1, <2>2, <2>3 DEF NamedAt
<1>8. QED
  BY <1>2, <1>3, <1>4, <1>5, <1>6, <1>7

\* Names that are kept stay meaningful in a table that grows.
LEMMA NamesKept ==
    ASSUME NEW q, NamedAt(q), Grows,
           UNCHANGED <<pc[q], cur[q], before[q], inc[q]>>
    PROVE  NamedAt(q)'
<1>1. pc[q] \in TickPlace \ {"next"} => cur[q] \in Contracts
  BY DEF NamedAt
<1>2. pc[q] \in Writing => inc[q] \in DOMAIN incidents'
  BY DEF NamedAt, Grows
<1>3. before[q] # 0 => before[q] \in DOMAIN incidents'
  BY DEF NamedAt, Grows
<1>4. pc[q] = "announce" => incidents'[inc[q]].problem = cur[q]
  BY DEF NamedAt, Grows, Writing
<1>5. QED
  BY <1>1, <1>2, <1>3, <1>4 DEF NamedAt

\* A step of a process keeps the names of the others meaningful as well.
LEMMA StoreOfProcess ==
    ASSUME LeaseInv, StoreInv, NEW p \in Processes, StepOf(p)
    PROVE  StoreInv' /\ Grows
<1>1. StoreTyped' /\ NamedAt(p)' /\ Grows
  <2>1. CASE \/ StartTick(p) \/ FinishTick(p) \/ TryClaim(p) \/ WriteClaim(p)
             \/ Evaluate(p) \/ UpsertState(p) \/ LookBefore(p) \/ FindExisting(p)
             \/ LookForOpen(p) \/ CheckResolve(p) \/ Release(p) \/ Abort(p)
             \/ Crash(p)
             \/ \E k \in Contracts : RemoveWorkflow(p, k) \/ ConnectorTurns(p, k)
             \/ \E i \in DOMAIN incidents : Acknowledge(p, i) \/ AdminResolve(p, i)
    <3>1. StoreTyped' /\ NamedAt(p)' /\ incidents' = incidents
      BY <2>1, StoreReads
    <3>2. QED
      BY <3>1 DEF Grows, StoreInv, StoreTyped
  <2>2. CASE \/ InsertIncident(p) \/ Announce(p) \/ WriteResolve(p)
             \/ AnnounceResolved(p) \/ WriteAck(p) \/ TellHandler(p)
             \/ \E k \in Contracts, late \in 0 .. MaxLate : Report(p, k, late)
    BY <2>2, StoreWrites
  <2>3. QED
    BY <2>1, <2>2 DEF StepOf, TickStep, HandlerStep, Request
<1>2. ASSUME NEW q \in Processes, q # p PROVE NamedAt(q)'
  <2>1. Kept(q)
    BY <1>2, OthersKept
  <2>2. NamedAt(q)
    BY DEF StoreInv, Named
  <2>3. UNCHANGED <<pc[q], cur[q], before[q], inc[q]>>
    BY <2>1 DEF Kept
  <2>4. QED
    BY <1>1, <2>2, <2>3, NamesKept
<1>3. QED
  BY <1>1, <1>2 DEF StoreInv, Named

\* A step of nobody: a delivery, the clock, or no step at all.
StepOfNobody ==
    \/ \E i \in DOMAIN incidents : Deliver(i)
    \/ Tick
    \/ UNCHANGED vars

\* Nothing an announcement or a status depends on happens then.
LEMMA NobodyWrites ==
    ASSUME LeaseInv, StoreInv, StepOfNobody
    PROVE  /\ StoreTyped' /\ DOMAIN incidents' = DOMAIN incidents
           /\ \A i \in DOMAIN incidents : Same(incidents[i], incidents'[i])
           /\ UNCHANGED <<pc, cur, before, inc, newStatus, crashes, monitored>>
<1>1. /\ incidents \in Seq(Incident)
      /\ stall \in [Processes -> 0 .. MaxStall]
      /\ before \in [Processes -> Nat] /\ inc \in [Processes -> Nat]
      /\ newStatus \in [Processes -> Status]
      /\ crashes \in Nat
      /\ MaxStall \in Nat
  BY WatcherAssumption DEF StoreInv, StoreTyped
<1>2. ASSUME NEW i \in DOMAIN incidents, Deliver(i)
      PROVE  /\ incidents' \in Seq(Incident) /\ DOMAIN incidents' = DOMAIN incidents
             /\ \A j \in DOMAIN incidents : Same(incidents[j], incidents'[j])
             /\ UNCHANGED <<pc, cur, stall, before, inc, newStatus, crashes, monitored>>
  <2>1. PICK next : next = Notified(incidents, i)
    OBVIOUS
  <2>2. incidents[i].pending > 0
    BY <1>2 DEF Deliver
  <2>3. /\ next \in Seq(Incident) /\ DOMAIN next = DOMAIN incidents
        /\ \A j \in DOMAIN incidents : Same(incidents[j], next[j])
    BY <1>1, <2>1, <2>2, NotifiedDoes
  <2>4. /\ incidents' = next
        /\ UNCHANGED <<pc, cur, stall, before, inc, newStatus, crashes, monitored>>
    BY <1>2, <2>1 DEF Deliver, stateVars, localVars, counts
  <2>5. QED
    BY <2>3, <2>4
<1>3. CASE Tick
  <2>1. /\ incidents' = Aged(incidents)
        /\ stall' = [p \in Processes |-> IF Busy(p) THEN stall[p] + 1 ELSE stall[p]]
        /\ \A p \in Processes : Busy(p) => stall[p] < MaxStall
        /\ UNCHANGED <<pc, cur, before, inc, newStatus, crashes, monitored>>
    BY <1>3 DEF Tick, counts
  <2>2. stall' \in [Processes -> 0 .. MaxStall]
    BY <1>1, <2>1
  <2>3. QED
    BY <1>1, <2>1, <2>2, AgedDoes DEF StoreTyped
<1>4. CASE UNCHANGED vars
  BY <1>1, <1>4 DEF vars, stateVars, localVars, counts, StoreTyped, Same
<1>5. QED
  BY <1>1, <1>2, <1>3, <1>4 DEF StepOfNobody, StoreTyped

\* Every step names rows there are, and deletes none.
LEMMA StoreStep ==
    ASSUME LeaseInv, StoreInv, [Next]_vars
    PROVE  StoreInv' /\ Grows
<1>1. CASE \E p \in Processes : StepOf(p)
  BY <1>1, StoreOfProcess
<1>2. CASE StepOfNobody
  <2>1. /\ StoreTyped' /\ DOMAIN incidents' = DOMAIN incidents
        /\ \A i \in DOMAIN incidents : Same(incidents[i], incidents'[i])
        /\ UNCHANGED <<pc, cur, before, inc, newStatus, crashes, monitored>>
    BY <1>2, NobodyWrites
  <2>2. Grows
    BY <2>1 DEF Grows, StoreTyped, Same
  <2>3. ASSUME NEW p \in Processes PROVE NamedAt(p)'
    BY <2>1, <2>2, NamesKept DEF StoreInv, Named
  <2>4. QED
    BY <2>1, <2>2, <2>3 DEF StoreInv, Named
<1>3. QED
  BY <1>1, <1>2 DEF Next, StepOf, StepOfNobody

\* No incident is named at first.
LEMMA InitStore == Init => StoreInv
<1>. SUFFICES ASSUME Init PROVE StoreInv
  OBVIOUS
<1>1. StoreTyped
  BY WatcherAssumption DEF Init, StoreTyped, Status
<1>2. Named
  BY DEF Init, Named, NamedAt, TickPlace, Writing
<1>3. QED
  BY <1>1, <1>2 DEF StoreInv

\* The incidents a process names exist, whatever happens.
LEMMA StoreHolds == Spec => [](LeaseInv /\ StoreInv)
<1>1. LeaseInv /\ StoreInv /\ [Next]_vars => LeaseInv' /\ StoreInv'
  BY LeaseStep, StoreStep
<1>2. QED
  BY <1>1, InitLease, InitStore, PTL DEF Spec

-----------------------------------------------------------------------------
(* An incident is announced as opened once                                 *)

\* A process that saw no incident before meets none that has been announced,
\* unless it is a revived one: between its look and its announcement the claim
\* keeps every other process away from a monitored contract.
PairAt(p) ==
    /\ pc[p] = "writeAck" /\ newStatus[p] = "resolved" => incidents[inc[p]].recovered
    /\ pc[p] = "find" /\ before[p] = 0 /\ monitored[cur[p]] =>
          \A i \in Unresolved(incidents, cur[p]) : Revived(i)
    /\ pc[p] = "announce" /\ before[p] = 0 /\ monitored[cur[p]] =>
          incidents[inc[p]].told["opened"] = 0 \/ Revived(inc[p])

\* Resolved rows have recovered; no other row is announced twice.
RowsOnce ==
    \A i \in DOMAIN incidents :
        /\ incidents[i].status = "resolved" => incidents[i].recovered
        /\ monitored[incidents[i].problem] /\ ~Revived(i)
              => incidents[i].told["opened"] <= 1
PairInv == RowsOnce /\ \A p \in Processes : PairAt(p)

\* What a step of p may do to the rows.
Touches(p) ==
    /\ \A i \in DOMAIN incidents :
          /\ \/ incidents'[i].told["opened"] = incidents[i].told["opened"]
             \/ /\ pc[p] = "announce" /\ before[p] = 0 /\ inc[p] = i
                /\ incidents'[i].told["opened"] = OneMore(incidents[i].told["opened"])
          /\ incidents'[i].status = "resolved" \/ incidents[i].status # "resolved"
                \/ incidents'[i].acked
          /\ incidents'[i].status = "resolved" => incidents'[i].recovered
    /\ \A i \in DOMAIN incidents' \ DOMAIN incidents :
          /\ pc[p] = "insert" /\ incidents'[i].problem = cur[p]
          /\ incidents'[i].told["opened"] = 0 /\ incidents'[i].status = "open"

\* A step of p touches the rows within these limits.
LEMMA TouchesRows ==
    ASSUME LeaseInv, StoreInv, PairInv, NEW p \in Processes, StepOf(p)
    PROVE  Touches(p)
<1>1. /\ incidents \in Seq(Incident) /\ NamedAt(p)
      /\ newStatus \in [Processes -> Status]
      /\ pc[p] = "writeAck" /\ newStatus[p] = "resolved" => incidents[inc[p]].recovered
      /\ \A i \in DOMAIN incidents :
            incidents[i].status = "resolved" => incidents[i].recovered
  BY DEF StoreInv, StoreTyped, Named, PairInv, PairAt, RowsOnce
<1>2. CASE incidents' = incidents
  BY <1>1, <1>2 DEF Touches
<1>3. CASE InsertIncident(p)
  <2>1. /\ cur[p] \in Problems /\ incidents' = Opened(incidents, cur[p])
        /\ pc[p] = "insert"
    BY <1>1, <1>3 DEF InsertIncident, NamedAt, Contracts, TickPlace
  <2>2. PICK n : n = Len(incidents) + 1
    OBVIOUS
  <2>3. PICK k : k = cur[p]
    OBVIOUS
  <2>4. PICK next : next = Opened(incidents, k)
    OBVIOUS
  <2>5. incidents \in Seq(Incident) /\ k \in Problems
    BY <1>1, <2>1, <2>3
  <2>6. /\ DOMAIN next = DOMAIN incidents \cup {n}
        /\ \A i \in DOMAIN incidents : next[i] = incidents[i]
        /\ next[n].problem = k
    BY <2>2, <2>4, <2>5 DEF Opened
  <2>7. next[n].status = "open" /\ next[n].told = [e \in Announcement |-> 0]
    BY <2>2, <2>4, <2>5, OpenedIsNew
  <2>8. next[n].told["opened"] = 0
    BY <2>7 DEF Announcement, EventType
  <2>9. QED
    BY <1>1, <2>1, <2>3, <2>4, <2>6, <2>7, <2>8 DEF Touches
<1>4. ASSUME NEW n \in DOMAIN incidents, NEW e,
             incidents' = Told(incidents, n, e),
             e = "opened" => pc[p] = "announce" /\ before[p] = 0 /\ inc[p] = n
      PROVE  Touches(p)
  <2>1. PICK next : next = Told(incidents, n, e)
    OBVIOUS
  <2>2. /\ DOMAIN next = DOMAIN incidents
        /\ \A i \in DOMAIN incidents \ {n} : next[i] = incidents[i]
        /\ next[n].status = incidents[n].status
        /\ (next[n].recovered <=> incidents[n].recovered)
        /\ \A a \in Announcement : next[n].told[a] =
              IF a = e THEN OneMore(incidents[n].told[a]) ELSE incidents[n].told[a]
    BY <1>1, <2>1, ToldDoes
  <2>3. next[n].told["opened"] =
              IF "opened" = e THEN OneMore(incidents[n].told["opened"])
              ELSE incidents[n].told["opened"]
    BY <2>2 DEF Announcement, EventType
  <2>4. QED
    BY <1>1, <1>4, <2>1, <2>2, <2>3 DEF Touches
<1>5. CASE Announce(p)
  <2>1. /\ pc[p] = "announce" /\ inc[p] \in DOMAIN incidents
        /\ before[p] # 0 => before[p] \in DOMAIN incidents
    BY <1>1, <1>5 DEF Announce, NamedAt, Writing
  <2>2. QED
    BY <1>2, <1>4, <1>5, <2>1 DEF Announce
<1>6. CASE WriteResolve(p)
  <2>1. inc[p] \in DOMAIN incidents /\ incidents' = Resolved(incidents, inc[p])
    BY <1>1, <1>6 DEF WriteResolve, NamedAt, Writing
  <2>2. PICK n : n = inc[p]
    OBVIOUS
  <2>3. PICK next : next = Resolved(incidents, n)
    OBVIOUS
  <2>4. /\ DOMAIN next = DOMAIN incidents
        /\ \A i \in DOMAIN incidents \ {n} : next[i] = incidents[i]
        /\ next[n].told = incidents[n].told
        /\ next[n].status = "resolved" /\ next[n].recovered
    BY <1>1, <2>1, <2>2, <2>3, ResolvedDoes
  <2>5. QED
    BY <1>1, <2>1, <2>2, <2>3, <2>4 DEF Touches
<1>7. CASE AnnounceResolved(p) \/ TellHandler(p)
  <2>1. /\ inc[p] \in DOMAIN incidents
        /\ \E e \in {"acknowledged", "resolved"} : incidents' = Told(incidents, inc[p], e)
    BY <1>1, <1>7 DEF AnnounceResolved, TellHandler, NamedAt, Writing
  <2>2. QED
    BY <1>4, <2>1
<1>8. CASE WriteAck(p) /\ incidents' # incidents
  <2>1. /\ pc[p] = "writeAck" /\ inc[p] \in DOMAIN incidents
        /\ incidents' = Acknowledged(incidents, inc[p], newStatus[p])
    BY <1>1, <1>8 DEF WriteAck, NamedAt, Writing
  <2>2. PICK n : n = inc[p]
    OBVIOUS
  <2>3. PICK st : st = newStatus[p]
    OBVIOUS
  <2>4. PICK next : next = Acknowledged(incidents, n, st)
    OBVIOUS
  <2>5. st \in Status /\ n \in DOMAIN incidents
    BY <1>1, <2>1, <2>2, <2>3
  <2>6. /\ DOMAIN next = DOMAIN incidents
        /\ \A i \in DOMAIN incidents \ {n} : next[i] = incidents[i]
        /\ next[n].told = incidents[n].told
        /\ next[n].status = st /\ next[n].acked
        /\ (next[n].recovered <=> incidents[n].recovered)
    BY <1>1, <2>4, <2>5, AcknowledgedDoes
  <2>7. QED
    BY <1>1, <2>1, <2>2, <2>3, <2>4, <2>6 DEF Touches
<1>9. ASSUME NEW k \in Contracts, NEW late \in 0 .. MaxLate, Report(p, k, late)
      PROVE  Touches(p)
  <2>1. /\ DOMAIN incidents' = DOMAIN incidents
        /\ \A i \in DOMAIN incidents :
              IF i \in Unresolved(incidents, k)
              THEN /\ incidents'[i].status = "resolved" /\ incidents'[i].recovered
                   /\ \A a \in Announcement : incidents'[i].told[a] =
                         IF a = "resolved" THEN OneMore(incidents[i].told[a])
                         ELSE incidents[i].told[a]
              ELSE incidents'[i] = incidents[i]
    BY <1>9, ReportDoes
  <2>2. "opened" \in Announcement
    BY DEF Announcement, EventType
  <2>3. QED
    BY <1>1, <2>1, <2>2 DEF Touches
<1>10. QED
  BY <1>2, <1>3, <1>5, <1>6, <1>7, <1>8, <1>9
  DEF StepOf, TickStep, HandlerStep, Request, Crash, StartTick, FinishTick, TryClaim,
      WriteClaim, Evaluate, UpsertState, LookBefore, FindExisting, LookForOpen,
      CheckResolve, Release, Abort, RemoveWorkflow, ConnectorTurns, Acknowledge,
      AdminResolve

\* How p comes to the places PairAt speaks of.
LEMMA ComesTo ==
    ASSUME LeaseInv, StoreInv, NEW p \in Processes, StepOf(p)
    PROVE  /\ pc'[p] = "find" /\ before'[p] = 0 =>
                /\ Unresolved(incidents, cur[p]) = {}
                /\ cur'[p] = cur[p] /\ incidents' = incidents
           /\ pc'[p] = "announce" =>
                /\ before'[p] = before[p] /\ cur'[p] = cur[p]
                /\ \/ /\ pc[p] = "find" /\ incidents' = incidents
                      /\ inc'[p] \in Unresolved(incidents, cur[p])
                   \/ pc[p] = "insert" /\ inc'[p] \notin DOMAIN incidents
           /\ pc'[p] = "writeAck" =>
                /\ incidents' = incidents
                /\ newStatus'[p] = "resolved" => incidents[inc'[p]].recovered
           /\ \A k \in Contracts : monitored'[k] => monitored[k]
<1>. USE DEF Goto, localVars, stateVars, EndHandler, ForgetContract
<1>1. /\ pc \in [Processes -> {"idle"} \cup TickPlace \cup HandlerPlace]
      /\ cur \in [Processes -> Contracts \cup {NoContract}]
      /\ monitored \in [Contracts -> BOOLEAN]
      /\ before \in [Processes -> Nat] /\ inc \in [Processes -> Nat]
      /\ newStatus \in [Processes -> Status]
      /\ incidents \in Seq(Incident)
      /\ NamedAt(p)
  BY DEF LeaseInv, LeaseTyped, StoreInv, StoreTyped, Named
<1>2. CASE StartTick(p) \/ FinishTick(p) \/ TryClaim(p) \/ WriteClaim(p) \/ Evaluate(p)
  BY <1>1, <1>2 DEF StartTick, FinishTick, TryClaim, WriteClaim, Evaluate
<1>3. CASE UpsertState(p)
  <2>1. Consequence(p) \in {"release", "before", "lookup"}
    BY DEF Consequence
  <2>2. pc'[p] \in {"release", "before", "lookup"} /\ UNCHANGED monitored
    BY <1>1, <1>3, <2>1 DEF UpsertState
  <2>3. QED
    BY <2>2
<1>4. CASE LookBefore(p)
  <2>1. \A i \in Unresolved(incidents, cur[p]) : i # 0
    BY <1>1 DEF Unresolved
  <2>2. QED
    BY <1>1, <1>4, <2>1 DEF LookBefore
<1>5. CASE FindExisting(p)
  BY <1>1, <1>5 DEF FindExisting
<1>6. CASE InsertIncident(p)
  BY <1>1, <1>6 DEF InsertIncident
<1>7. CASE Announce(p) \/ LookForOpen(p) \/ CheckResolve(p) \/ AnnounceResolved(p)
           \/ Release(p) \/ Abort(p)
  BY <1>1, <1>7 DEF Announce, LookForOpen, CheckResolve, AnnounceResolved, Release, Abort
<1>8. CASE WriteResolve(p) \/ WriteAck(p) \/ TellHandler(p) \/ Crash(p)
  BY <1>1, <1>8 DEF WriteResolve, WriteAck, TellHandler, Crash
<1>9. CASE \E k \in Contracts, late \in 0 .. MaxLate : Report(p, k, late)
  BY <1>1, <1>9 DEF Report
<1>10. CASE \E k \in Contracts : RemoveWorkflow(p, k) \/ ConnectorTurns(p, k)
  BY <1>1, <1>10 DEF RemoveWorkflow, ConnectorTurns
<1>11. CASE \E i \in DOMAIN incidents : Acknowledge(p, i) \/ AdminResolve(p, i)
  BY <1>1, <1>11 DEF Acknowledge, AdminResolve, LegacyStatus
<1>12. QED
  BY <1>2, <1>3, <1>4, <1>5, <1>6, <1>7, <1>8, <1>9, <1>10, <1>11
     DEF StepOf, TickStep, HandlerStep, Request

\* No two processes are past their claims on a monitored contract, if none is
\* suspended for longer than a lease.
LEMMA Alone ==
    ASSUME LeaseInv, StoreInv, MaxStall <= ClaimTtl,
           NEW p \in Processes, NEW q \in Processes, NEW k \in Contracts,
           monitored[k], Holds(p, k), Holds(q, k)
    PROVE  p = q
<1>1. stall[p] <= ClaimTtl /\ stall[q] <= ClaimTtl
  BY WatcherAssumption DEF StoreInv, StoreTyped
<1>2. owner[k] = p /\ owner[k] = q
  BY <1>1 DEF LeaseInv, Leased
<1>3. QED
  BY <1>2

\* What has been revived stays so.
LEMMA RevivedStays ==
    ASSUME Grows, NEW i \in DOMAIN incidents, Revived(i)
    PROVE  Revived(i)'
BY DEF Grows, Revived

\* A step of p leaves what another process relies on: it is not past a claim
\* of the same contract.
LEMMA PairOfOther ==
    ASSUME LeaseInv, StoreInv, PairInv, MaxStall <= ClaimTtl,
           NEW p \in Processes, StepOf(p), NEW q \in Processes, q # p
    PROVE  PairAt(q)'
<1>1. UNCHANGED <<pc[q], cur[q], before[q], inc[q], newStatus[q]>>
  BY OthersKept DEF Kept
<1>2. Grows /\ Touches(p) /\ \A k \in Contracts : monitored'[k] => monitored[k]
  BY StoreOfProcess, TouchesRows, ComesTo
<1>3. NamedAt(p) /\ NamedAt(q) /\ PairAt(q)
  BY DEF StoreInv, Named, PairInv
<1>4. pc[q] = "writeAck" /\ newStatus[q] = "resolved" => incidents'[inc[q]].recovered
  BY <1>2, <1>3 DEF PairAt, NamedAt, Writing, Grows
<1>5. ASSUME pc[q] = "find", before[q] = 0, monitored'[cur[q]],
             NEW i \in Unresolved(incidents', cur[q])
      PROVE  Revived(i)'
  <2>1. cur[q] \in Contracts /\ monitored[cur[q]]
    BY <1>2, <1>3, <1>5 DEF NamedAt, TickPlace
  <2>2. i \in DOMAIN incidents' /\ incidents'[i].problem = cur[q]
        /\ incidents'[i].status # "resolved"
    BY <1>5 DEF Unresolved
  <2>3. i \in DOMAIN incidents
    <3>1. SUFFICES ASSUME i \notin DOMAIN incidents PROVE FALSE
      OBVIOUS
    <3>2. pc[p] = "insert" /\ cur[p] = cur[q]
      BY <1>2, <2>2, <3>1 DEF Touches
    <3>3. Holds(p, cur[q]) /\ Holds(q, cur[q])
      BY <1>5, <3>2 DEF Holds, TickPlace
    <3>4. QED
      BY <2>1, <3>3, Alone
  <2>4. CASE incidents[i].status = "resolved"
    <3>1. incidents[i].recovered /\ incidents'[i].acked
      BY <1>2, <2>2, <2>3, <2>4 DEF PairInv, RowsOnce, Touches
    <3>2. QED
      BY <1>2, <2>3, <3>1 DEF Grows, Revived
  <2>5. CASE incidents[i].status # "resolved"
    <3>1. incidents[i] \in Incident
      BY <2>3 DEF StoreInv, StoreTyped
    <3>2. incidents[i].problem = cur[q] /\ incidents[i].status \in Status
      BY <1>2, <2>2, <2>3, <3>1 DEF Grows, Incident
    <3>3. i \in Unresolved(incidents, cur[q])
      BY <2>3, <2>5, <3>2 DEF Unresolved, Status
    <3>4. Revived(i)
      BY <1>3, <1>5, <2>1, <3>3 DEF PairAt
    <3>5. QED
      BY <1>2, <2>3, <3>4, RevivedStays
  <2>6. QED
    BY <2>4, <2>5
<1>6. ASSUME pc[q] = "announce", before[q] = 0, monitored'[cur[q]]
      PROVE  incidents'[inc[q]].told["opened"] = 0 \/ Revived(inc[q])'
  <2>1. /\ cur[q] \in Contracts /\ monitored[cur[q]]
        /\ inc[q] \in DOMAIN incidents /\ incidents[inc[q]].problem = cur[q]
    BY <1>2, <1>3, <1>6 DEF NamedAt, TickPlace, Writing
  <2>2. incidents[inc[q]].told["opened"] = 0 \/ Revived(inc[q])
    BY <1>3, <1>6, <2>1 DEF PairAt
  <2>3. incidents'[inc[q]].told["opened"] = incidents[inc[q]].told["opened"]
    <3>1. SUFFICES ASSUME pc[p] = "announce", inc[p] = inc[q] PROVE FALSE
      BY <1>2, <2>1 DEF Touches
    <3>2. cur[p] = cur[q]
      BY <1>3, <2>1, <3>1 DEF NamedAt
    <3>3. Holds(p, cur[q]) /\ Holds(q, cur[q])
      BY <1>6, <3>1, <3>2 DEF Holds, TickPlace
    <3>4. QED
      BY <2>1, <3>3, Alone
  <2>4. Revived(inc[q]) => Revived(inc[q])'
    BY <1>1, <1>2, <2>1 DEF Grows, Revived
  <2>5. QED
    BY <2>2, <2>3, <2>4
<1>7. QED
  BY <1>1, <1>4, <1>5, <1>6 DEF PairAt, Revived

\* A step of p leaves p where it relies on what it has just seen.
LEMMA PairOfSelf ==
    ASSUME LeaseInv, StoreInv, PairInv, NEW p \in Processes, StepOf(p)
    PROVE  PairAt(p)'
<1>1. StoreInv' /\ Grows /\ Touches(p)
  BY StoreOfProcess, TouchesRows
<1>2. NamedAt(p) /\ NamedAt(p)' /\ PairAt(p)
  BY <1>1 DEF StoreInv, Named, PairInv
<1>3. pc'[p] = "writeAck" /\ newStatus'[p] = "resolved"
         => incidents'[inc'[p]].recovered
  BY ComesTo
<1>4. pc'[p] = "find" /\ before'[p] = 0 => Unresolved(incidents', cur'[p]) = {}
  BY ComesTo
<1>5. ASSUME pc'[p] = "announce", before'[p] = 0, monitored'[cur'[p]]
      PROVE  incidents'[inc'[p]].told["opened"] = 0 \/ Revived(inc[p])'
  <2>1. /\ before[p] = 0 /\ cur'[p] = cur[p]
        /\ \/ /\ pc[p] = "find" /\ incidents' = incidents
              /\ inc'[p] \in Unresolved(incidents, cur[p])
           \/ pc[p] = "insert" /\ inc'[p] \notin DOMAIN incidents
    BY <1>5, ComesTo
  <2>2. cur[p] \in Contracts /\ monitored[cur[p]]
    BY <1>2, <1>5, <2>1, ComesTo DEF NamedAt, TickPlace
  <2>3. CASE pc[p] = "find"
    BY <1>2, <2>1, <2>2, <2>3 DEF PairAt, Revived
  <2>4. CASE pc[p] = "insert"
    <3>1. inc'[p] \in DOMAIN incidents' \ DOMAIN incidents
      BY <1>2, <1>5, <2>1, <2>4 DEF NamedAt, Writing
    <3>2. QED
      BY <1>1, <3>1 DEF Touches
  <2>5. QED
    BY <2>1, <2>3, <2>4
<1>6. QED
  BY <1>3, <1>4, <1>5 DEF PairAt, Revived

\* A step of p announces no row twice.
LEMMA PairOfRows ==
    ASSUME LeaseInv, StoreInv, PairInv, NEW p \in Processes, StepOf(p)
    PROVE  RowsOnce'
<1>1. StoreInv' /\ Grows /\ Touches(p)
  BY StoreOfProcess, TouchesRows
<1>2. NamedAt(p) /\ PairAt(p) /\ RowsOnce
  BY DEF StoreInv, Named, PairInv
<1>3. ASSUME NEW i \in DOMAIN incidents', i \notin DOMAIN incidents
      PROVE  incidents'[i].told["opened"] = 0 /\ incidents'[i].status = "open"
  BY <1>1, <1>3 DEF Touches
<1>4. ASSUME NEW i \in DOMAIN incidents,
             monitored'[incidents'[i].problem], ~Revived(i)'
      PROVE  incidents'[i].told["opened"] <= 1
  <2>1. incidents[i].problem \in Contracts /\ incidents[i].told["opened"] \in 0 .. 2
    <3>1. incidents[i] \in Incident
      BY DEF StoreInv, StoreTyped
    <3>2. QED
      BY <3>1 DEF Incident, Contracts, Announcement, EventType
  <2>2. monitored[incidents[i].problem] /\ ~Revived(i)
    BY <1>1, <1>4, <2>1, ComesTo, RevivedStays DEF Grows
  <2>3. CASE incidents'[i].told["opened"] = incidents[i].told["opened"]
    BY <1>2, <2>2, <2>3 DEF RowsOnce
  <2>4. CASE /\ pc[p] = "announce" /\ before[p] = 0 /\ inc[p] = i
             /\ incidents'[i].told["opened"] = OneMore(incidents[i].told["opened"])
    <3>1. cur[p] = incidents[i].problem
      BY <1>2, <2>4 DEF NamedAt
    <3>2. incidents[i].told["opened"] = 0
      BY <1>2, <2>2, <2>4, <3>1 DEF PairAt
    <3>3. QED
      BY <2>4, <3>2 DEF OneMore
  <2>5. QED
    BY <1>1, <2>3, <2>4 DEF Touches
<1>5. ASSUME NEW i \in DOMAIN incidents', incidents'[i].status = "resolved"
      PROVE  incidents'[i].recovered
  BY <1>1, <1>3, <1>5 DEF Touches
<1>6. QED
  BY <1>3, <1>4, <1>5 DEF RowsOnce, Revived

\* Every step keeps PairInv.
LEMMA PairStep ==
    ASSUME LeaseInv, StoreInv, PairInv, MaxStall <= ClaimTtl, [Next]_vars
    PROVE  PairInv'
<1>1. CASE \E p \in Processes : StepOf(p)
  BY <1>1, PairOfOther, PairOfSelf, PairOfRows DEF PairInv
<1>2. CASE StepOfNobody
  <2>1. /\ DOMAIN incidents' = DOMAIN incidents
        /\ \A i \in DOMAIN incidents : Same(incidents[i], incidents'[i])
        /\ UNCHANGED <<pc, cur, before, inc, newStatus, monitored>>
    BY <1>2, NobodyWrites
  <2>2. RowsOnce'
    BY <2>1 DEF PairInv, RowsOnce, Same, Revived
  <2>3. ASSUME NEW p \in Processes PROVE PairAt(p)'
    <3>1. PairAt(p) /\ NamedAt(p)
      BY DEF PairInv, StoreInv, Named
    <3>2. \A k : Unresolved(incidents', k) = Unresolved(incidents, k)
      BY <2>1 DEF Unresolved, Same
    <3>3. \A i \in DOMAIN incidents : Revived(i) => Revived(i)'
      BY <2>1 DEF Revived, Same
    <3>4. pc[p] = "writeAck" /\ newStatus[p] = "resolved" => incidents'[inc[p]].recovered
      BY <2>1, <3>1 DEF PairAt, NamedAt, Writing, Same
    <3>5. pc[p] = "find" /\ before[p] = 0 /\ monitored[cur[p]] =>
             \A i \in Unresolved(incidents', cur[p]) : Revived(i)'
      BY <2>1, <3>1, <3>2, <3>3 DEF PairAt, Unresolved
    <3>6. pc[p] = "announce" /\ before[p] = 0 /\ monitored[cur[p]] =>
             incidents'[inc[p]].told["opened"] = 0 \/ Revived(inc[p])'
      BY <2>1, <3>1 DEF PairAt, NamedAt, Writing, Same, Revived
    <3>7. QED
      BY <2>1, <3>4, <3>5, <3>6 DEF PairAt, Revived
  <2>4. QED
    BY <2>2, <2>3 DEF PairInv
<1>3. QED
  BY <1>1, <1>2 DEF Next, StepOf, StepOfNobody

\* There is no incident at first.
LEMMA InitPair == Init => PairInv
BY DEF Init, PairInv, RowsOnce, PairAt

\* An incident is announced as opened at most once, whatever number of
\* processes look at the contract, unless a tick outlives its lease.
THEOREM OpenedOnce == Spec => []OpenedAnnouncedOnce
<1>1. CASE MaxStall <= ClaimTtl
  <2>1. LeaseInv /\ StoreInv /\ PairInv /\ [Next]_vars => PairInv'
    BY <1>1, PairStep
  <2>2. PairInv => OpenedAnnouncedOnce
    BY DEF PairInv, RowsOnce, OpenedAnnouncedOnce
  <2>3. QED
    BY <2>1, <2>2, InitPair, StoreHolds, PTL DEF Spec
<1>2. CASE ~(MaxStall <= ClaimTtl)
  <2>1. OpenedAnnouncedOnce
    BY <1>2 DEF OpenedAnnouncedOnce
  <2>2. QED
    BY <2>1, PTL
<1>3. QED
  BY <1>1, <1>2

-----------------------------------------------------------------------------
(* An only process announces everything exactly once                       *)

\* The rows p is about to announce: as opened, as resolved.
Announcing(p, i) == pc[p] = "announce" /\ before[p] = 0 /\ inc[p] = i
Telling(p, i) == pc[p] \in {"announceResolved", "tellAdmin"} /\ inc[p] = i

\* Every row has been announced as what it is, but for what p has still to do.
RowsExact(p) ==
    \A i \in DOMAIN incidents :
        /\ incidents[i].recovered <=> incidents[i].status = "resolved"
        /\ incidents[i].told["opened"] = IF Announcing(p, i) THEN 0 ELSE 1
        /\ incidents[i].told["resolved"] =
              IF incidents[i].status = "resolved" /\ ~Telling(p, i) THEN 1 ELSE 0

\* What p has read is still so: nobody else writes.
SoloAt(p) ==
    /\ pc[p] \notin {"find", "announce", "release"} => before[p] = 0
    /\ pc[p] = "find" => (before[p] = 0 <=> Unresolved(incidents, cur[p]) = {})
    /\ pc[p] = "insert" => Unresolved(incidents, cur[p]) = {}
    /\ pc[p] \in {"checkResolve", "writeResolve", "writeAdmin"} =>
          incidents[inc[p]].status # "resolved"
    /\ pc[p] \in {"announceResolved", "tellAdmin"} =>
          incidents[inc[p]].status = "resolved"
    /\ pc[p] = "writeAck" => newStatus[p] = LegacyStatus(incidents[inc[p]])

Solo == \A p, q \in Processes : p = q
SoloInv ==
    Solo /\ crashes = 0 => \A p \in Processes : RowsExact(p) /\ SoloAt(p)

\* The steps that write nothing leave p with what it knows.
LEMMA SoloReads ==
    ASSUME LeaseInv, StoreInv, NEW p \in Processes, SoloAt(p), RowsExact(p),
           \/ StartTick(p) \/ FinishTick(p) \/ TryClaim(p) \/ WriteClaim(p)
           \/ Evaluate(p) \/ UpsertState(p) \/ LookBefore(p) \/ FindExisting(p)
           \/ LookForOpen(p) \/ CheckResolve(p) \/ Release(p) \/ Abort(p)
           \/ \E k \in Contracts : RemoveWorkflow(p, k) \/ ConnectorTurns(p, k)
           \/ \E i \in DOMAIN incidents : Acknowledge(p, i) \/ AdminResolve(p, i)
    PROVE  SoloAt(p)' /\ RowsExact(p)'
<1>. USE DEF Goto, localVars, ForgetContract
<1>1. /\ pc \in [Processes -> {"idle"} \cup TickPlace \cup HandlerPlace]
      /\ cur \in [Processes -> Contracts \cup {NoContract}]
      /\ before \in [Processes -> Nat] /\ inc \in [Processes -> Nat]
      /\ newStatus \in [Processes -> Status]
      /\ \A k, i : i \in Unresolved(incidents, k) =>
            i # 0 /\ i \in DOMAIN incidents /\ incidents[i].status # "resolved"
  BY DEF LeaseInv, LeaseTyped, StoreInv, StoreTyped, Unresolved
<1>2. SoloAt(p)' /\ incidents' = incidents
  <2>1. CASE StartTick(p) \/ FinishTick(p) \/ TryClaim(p) \/ WriteClaim(p) \/ Evaluate(p)
    BY <1>1, <2>1 DEF StartTick, FinishTick, TryClaim, WriteClaim, Evaluate, SoloAt
  <2>2. CASE UpsertState(p)
    <3>1. Consequence(p) \in {"release", "before", "lookup"}
      BY DEF Consequence
    <3>2. /\ pc[p] = "upsert" /\ pc'[p] \in {"release", "before", "lookup"}
          /\ UNCHANGED <<incidents, before>>
      BY <1>1, <2>2, <3>1 DEF UpsertState
    <3>3. QED
      BY <3>2 DEF SoloAt
  <2>3. CASE LookBefore(p)
    BY <1>1, <2>3 DEF LookBefore, SoloAt
  <2>4. CASE FindExisting(p)
    BY <1>1, <2>4 DEF FindExisting, SoloAt
  <2>5. CASE LookForOpen(p) \/ CheckResolve(p)
    BY <1>1, <2>5 DEF LookForOpen, CheckResolve, SoloAt
  <2>6. CASE Release(p) \/ Abort(p)
    BY <1>1, <2>6 DEF Release, Abort, SoloAt
  <2>7. CASE \E k \in Contracts : RemoveWorkflow(p, k) \/ ConnectorTurns(p, k)
    BY <1>1, <2>7 DEF RemoveWorkflow, ConnectorTurns, SoloAt
  <2>8. CASE \E i \in DOMAIN incidents : Acknowledge(p, i) \/ AdminResolve(p, i)
    BY <1>1, <2>8 DEF Acknowledge, AdminResolve, SoloAt, Resolvable
  <2>9. QED
    BY <2>1, <2>2, <2>3, <2>4, <2>5, <2>6, <2>7, <2>8
<1>3. \A i : ~Announcing(p, i) /\ ~Telling(p, i)
  BY DEF Announcing, Telling, StartTick, FinishTick, TryClaim, WriteClaim, Evaluate,
     UpsertState, LookBefore, FindExisting, LookForOpen, CheckResolve, Release, Abort,
     RemoveWorkflow, ConnectorTurns, Acknowledge, AdminResolve
<1>4. \A i : ~Announcing(p, i)' /\ ~Telling(p, i)'
  <2>1. CASE StartTick(p) \/ FinishTick(p) \/ TryClaim(p) \/ WriteClaim(p) \/ Evaluate(p)
    BY <1>1, <2>1 DEF StartTick, FinishTick, TryClaim, WriteClaim, Evaluate, Announcing,
       Telling
  <2>2. CASE UpsertState(p)
    <3>1. Consequence(p) \in {"release", "before", "lookup"}
      BY DEF Consequence
    <3>2. pc'[p] \in {"release", "before", "lookup"}
      BY <1>1, <2>2, <3>1 DEF UpsertState
    <3>3. QED
      BY <3>2 DEF Announcing, Telling
  <2>3. CASE LookBefore(p) \/ LookForOpen(p) \/ CheckResolve(p)
    BY <1>1, <2>3 DEF LookBefore, LookForOpen, CheckResolve, Announcing, Telling
  <2>4. CASE FindExisting(p)
    BY <1>1, <2>4 DEF FindExisting, SoloAt, Announcing, Telling
  <2>5. CASE Release(p) \/ Abort(p)
    BY <1>1, <2>5 DEF Release, Abort, Announcing, Telling
  <2>6. CASE \E k \in Contracts : RemoveWorkflow(p, k) \/ ConnectorTurns(p, k)
    BY <1>1, <2>6 DEF RemoveWorkflow, ConnectorTurns, Announcing, Telling
  <2>7. CASE \E i \in DOMAIN incidents : Acknowledge(p, i) \/ AdminResolve(p, i)
    BY <1>1, <2>7 DEF Acknowledge, AdminResolve, Announcing, Telling
  <2>8. QED
    BY <2>1, <2>2, <2>3, <2>4, <2>5, <2>6, <2>7
<1>5. QED
  BY <1>2, <1>3, <1>4 DEF RowsExact

\* The steps that write leave every row announced as what it is.
LEMMA SoloWrites ==
    ASSUME LeaseInv, StoreInv, NEW p \in Processes, SoloAt(p), RowsExact(p),
           \/ InsertIncident(p) \/ Announce(p) \/ WriteResolve(p)
           \/ AnnounceResolved(p) \/ WriteAck(p) \/ TellHandler(p)
           \/ \E k \in Contracts, late \in 0 .. MaxLate : Report(p, k, late)
    PROVE  SoloAt(p)' /\ RowsExact(p)'
<1>. USE DEF Goto, localVars, EndHandler
<1>1. /\ pc \in [Processes -> {"idle"} \cup TickPlace \cup HandlerPlace]
      /\ before \in [Processes -> Nat] /\ inc \in [Processes -> Nat]
      /\ newStatus \in [Processes -> Status]
      /\ incidents \in Seq(Incident) /\ NamedAt(p)
  BY DEF LeaseInv, LeaseTyped, StoreInv, StoreTyped, Named
<1>2. "opened" \in Announcement /\ "resolved" \in Announcement
  BY DEF Announcement, EventType
<1>3. CASE InsertIncident(p)
  <2>1. /\ cur[p] \in Problems /\ incidents' = Opened(incidents, cur[p])
        /\ pc[p] = "insert" /\ pc'[p] = "announce"
        /\ before[p] = 0 /\ before'[p] = 0 /\ inc'[p] = Len(incidents) + 1
    BY <1>1, <1>3 DEF InsertIncident, NamedAt, Contracts, TickPlace, SoloAt
  <2>2. PICK n : n = Len(incidents) + 1
    OBVIOUS
  <2>3. PICK k : k = cur[p]
    OBVIOUS
  <2>4. PICK next : next = Opened(incidents, k)
    OBVIOUS
  <2>5. incidents \in Seq(Incident) /\ k \in Problems
    BY <1>1, <2>1, <2>3
  <2>6. /\ DOMAIN next = DOMAIN incidents \cup {n} /\ n \notin DOMAIN incidents
        /\ \A i \in DOMAIN incidents : next[i] = incidents[i]
    BY <2>2, <2>4, <2>5 DEF Opened
  <2>7. /\ next[n].status = "open" /\ ~next[n].recovered
        /\ next[n].told = [e \in Announcement |-> 0]
    BY <2>2, <2>4, <2>5, OpenedIsNew
  <2>8. next[n].told["opened"] = 0 /\ next[n].told["resolved"] = 0
    BY <1>2, <2>7
  <2>9. \A i : (Announcing(p, i)' <=> i = n) /\ ~Telling(p, i)'
              /\ ~Announcing(p, i) /\ ~Telling(p, i)
    BY <2>1, <2>2 DEF Announcing, Telling
  <2>10. incidents' = next
    BY <2>1, <2>3, <2>4
  <2>11. RowsExact(p)'
    BY <2>6, <2>7, <2>8, <2>9, <2>10 DEF RowsExact
  <2>12. QED
    BY <2>1, <2>11 DEF SoloAt
<1>4. ASSUME NEW n \in DOMAIN incidents, NEW e, incidents' = Told(incidents, n, e),
             e = "opened" => Announcing(p, n) /\ ~Announcing(p, n)',
             e # "opened" => \A i : ~Announcing(p, i) /\ ~Announcing(p, i)',
             e = "resolved" => incidents[n].status = "resolved"
                               /\ Telling(p, n) /\ ~Telling(p, n)',
             e # "resolved" => \A i : ~Telling(p, i) /\ ~Telling(p, i)',
             \A i : i # n => /\ ~Announcing(p, i) /\ ~Announcing(p, i)'
                            /\ ~Telling(p, i) /\ ~Telling(p, i)'
      PROVE  RowsExact(p)'
  <2>1. PICK next : next = Told(incidents, n, e)
    OBVIOUS
  <2>2. /\ DOMAIN next = DOMAIN incidents
        /\ \A i \in DOMAIN incidents \ {n} : next[i] = incidents[i]
        /\ next[n].status = incidents[n].status
        /\ (next[n].recovered <=> incidents[n].recovered)
        /\ \A a \in Announcement : next[n].told[a] =
              IF a = e THEN OneMore(incidents[n].told[a]) ELSE incidents[n].told[a]
    BY <1>1, <2>1, ToldDoes
  <2>3. /\ next[n].told["opened"] =
              IF e = "opened" THEN OneMore(incidents[n].told["opened"])
              ELSE incidents[n].told["opened"]
        /\ next[n].told["resolved"] =
              IF e = "resolved" THEN OneMore(incidents[n].told["resolved"])
              ELSE incidents[n].told["resolved"]
    BY <1>2, <2>2
  <2>4. OneMore(0) = 1
    BY DEF OneMore
  <2>5. next[n].told["opened"] = IF Announcing(p, n)' THEN 0 ELSE 1
    BY <1>4, <2>3, <2>4 DEF RowsExact
  <2>6. next[n].told["resolved"] =
           IF next[n].status = "resolved" /\ ~Telling(p, n)' THEN 1 ELSE 0
    BY <1>4, <2>2, <2>3, <2>4 DEF RowsExact
  <2>7. next[n].recovered <=> next[n].status = "resolved"
    BY <2>2 DEF RowsExact
  <2>8. ASSUME NEW i \in DOMAIN incidents, i # n
        PROVE  /\ next[i].recovered <=> next[i].status = "resolved"
               /\ next[i].told["opened"] = IF Announcing(p, i)' THEN 0 ELSE 1
               /\ next[i].told["resolved"] =
                     IF next[i].status = "resolved" /\ ~Telling(p, i)' THEN 1 ELSE 0
    BY <1>4, <2>2, <2>8 DEF RowsExact
  <2>9. incidents' = next
    BY <1>4, <2>1
  <2>10. QED
    BY <2>2, <2>5, <2>6, <2>7, <2>8, <2>9 DEF RowsExact
<1>5. CASE Announce(p)
  <2>1. /\ pc[p] = "announce" /\ pc'[p] = "release" /\ UNCHANGED before
        /\ inc[p] \in DOMAIN incidents
        /\ before[p] # 0 => before[p] \in DOMAIN incidents
    BY <1>1, <1>5 DEF Announce, NamedAt, Writing
  <2>2. SoloAt(p)'
    BY <2>1 DEF SoloAt
  <2>3. \A i : ~Telling(p, i) /\ ~Telling(p, i)' /\ ~Announcing(p, i)'
    BY <2>1 DEF Announcing, Telling
  <2>4. CASE before[p] = 0
    <3>1. incidents' = Told(incidents, inc[p], "opened")
      BY <1>5, <2>4 DEF Announce
    <3>2. \A i : Announcing(p, i) <=> i = inc[p]
      BY <2>1, <2>4 DEF Announcing
    <3>3. RowsExact(p)'
      BY <1>4, <2>1, <2>3, <3>1, <3>2
    <3>4. QED
      BY <2>2, <3>3
  <2>5. CASE before[p] # 0
    <3>1. \A i : ~Announcing(p, i)
      BY <2>5 DEF Announcing
    <3>2. \/ incidents' = incidents
          \/ incidents' = Told(incidents, before[p], "renotification")
      BY <1>5, <2>5 DEF Announce
    <3>3. RowsExact(p)'
      <4>1. CASE incidents' = incidents
        BY <2>3, <3>1, <4>1 DEF RowsExact
      <4>2. CASE incidents' = Told(incidents, before[p], "renotification")
        BY <1>4, <2>1, <2>3, <2>5, <3>1, <4>2
      <4>3. QED
        BY <3>2, <4>1, <4>2
    <3>4. QED
      BY <2>2, <3>3
  <2>6. QED
    BY <2>4, <2>5
<1>6. CASE WriteResolve(p)
  <2>1. /\ pc[p] \in {"writeResolve", "writeAdmin"}
        /\ pc'[p] \in {"announceResolved", "tellAdmin"}
        /\ UNCHANGED <<before, inc>>
        /\ inc[p] \in DOMAIN incidents /\ incidents' = Resolved(incidents, inc[p])
        /\ incidents[inc[p]].status # "resolved" /\ before[p] = 0
    BY <1>1, <1>6 DEF WriteResolve, NamedAt, Writing, SoloAt
  <2>2. PICK n : n = inc[p]
    OBVIOUS
  <2>3. PICK next : next = Resolved(incidents, n)
    OBVIOUS
  <2>4. /\ DOMAIN next = DOMAIN incidents
        /\ \A i \in DOMAIN incidents \ {n} : next[i] = incidents[i]
        /\ next[n].told = incidents[n].told
        /\ next[n].status = "resolved" /\ next[n].recovered
    BY <1>1, <2>1, <2>2, <2>3, ResolvedDoes
  <2>5. \A i : /\ ~Announcing(p, i) /\ ~Announcing(p, i)' /\ ~Telling(p, i)
               /\ i = n => Telling(p, i)'
               /\ i # n => ~Telling(p, i)'
    BY <2>1, <2>2 DEF Announcing, Telling
  <2>6. incidents' = next
    BY <2>1, <2>2, <2>3
  <2>7. RowsExact(p)'
    <3>1. incidents[n].told["opened"] = 1 /\ incidents[n].told["resolved"] = 0
      BY <2>1, <2>2, <2>5 DEF RowsExact
    <3>2. next[n].told["opened"] = 1 /\ next[n].told["resolved"] = 0
      BY <2>4, <3>1
    <3>3. ASSUME NEW i \in DOMAIN incidents, i # n
          PROVE  /\ next[i].told["opened"] = IF Announcing(p, i)' THEN 0 ELSE 1
                 /\ next[i].told["resolved"] =
                       IF next[i].status = "resolved" /\ ~Telling(p, i)' THEN 1 ELSE 0
      BY <2>4, <2>5, <3>3 DEF RowsExact
    <3>4. \A i \in DOMAIN incidents : next[i].recovered <=> next[i].status = "resolved"
      BY <2>4 DEF RowsExact
    <3>5. /\ next[n].told["opened"] = IF Announcing(p, n)' THEN 0 ELSE 1
          /\ next[n].told["resolved"] =
                IF next[n].status = "resolved" /\ ~Telling(p, n)' THEN 1 ELSE 0
      BY <2>5, <3>2
    <3>6. QED
      BY <2>4, <2>6, <3>3, <3>4, <3>5 DEF RowsExact
  <2>8. SoloAt(p)'
    BY <2>1, <2>2, <2>4, <2>6 DEF SoloAt
  <2>9. QED
    BY <2>7, <2>8
<1>7. CASE AnnounceResolved(p) \/ TellHandler(p)
  <2>1. /\ inc[p] \in DOMAIN incidents
        /\ pc[p] \in {"announceResolved", "tellAdmin", "tellAck"}
        /\ pc'[p] \in {"release", "idle"} /\ UNCHANGED before
        /\ incidents' = Told(incidents, inc[p],
                             IF pc[p] = "tellAck" THEN "acknowledged" ELSE "resolved")
    BY <1>1, <1>7 DEF AnnounceResolved, TellHandler, NamedAt, Writing
  <2>2. SoloAt(p)'
    BY <2>1 DEF SoloAt
  <2>3. \A i : /\ ~Announcing(p, i) /\ ~Announcing(p, i)' /\ ~Telling(p, i)'
               /\ pc[p] # "tellAck" /\ i = inc[p] => Telling(p, i)
               /\ pc[p] = "tellAck" \/ i # inc[p] => ~Telling(p, i)
    BY <2>1 DEF Announcing, Telling
  <2>4. pc[p] # "tellAck" => incidents[inc[p]].status = "resolved"
    BY <2>1 DEF SoloAt
  <2>5. PICK n \in DOMAIN incidents : n = inc[p]
    BY <2>1
  <2>6. CASE pc[p] = "tellAck"
    <3>1. incidents' = Told(incidents, n, "acknowledged")
      BY <2>1, <2>5, <2>6
    <3>2. \A i : ~Telling(p, i)
      BY <2>3, <2>6
    <3>3. RowsExact(p)'
      BY <1>4, <2>3, <3>1, <3>2
    <3>4. QED
      BY <2>2, <3>3
  <2>7. CASE pc[p] # "tellAck"
    <3>1. incidents' = Told(incidents, n, "resolved")
      BY <2>1, <2>5, <2>7
    <3>2. Telling(p, n) /\ incidents[n].status = "resolved"
      BY <2>3, <2>4, <2>5, <2>7
    <3>3. \A i : ~Announcing(p, i) /\ ~Announcing(p, i)' /\ ~Telling(p, i)'
      BY <2>3
    <3>4. \A i : i # n => ~Telling(p, i)
      BY <2>3, <2>5
    <3>5. RowsExact(p)'
      BY <1>4, <3>1, <3>2, <3>3, <3>4
    <3>6. QED
      BY <2>2, <3>5
  <2>8. QED
    BY <2>6, <2>7
<1>8. CASE WriteAck(p)
  <2>1. /\ pc[p] = "writeAck" /\ inc[p] \in DOMAIN incidents
        /\ pc'[p] \in {"idle", "tellAck"} /\ UNCHANGED before
        /\ incidents' \in {incidents, Acknowledged(incidents, inc[p], newStatus[p])}
    BY <1>1, <1>8 DEF WriteAck, NamedAt, Writing
  <2>2. SoloAt(p)'
    BY <2>1 DEF SoloAt
  <2>3. \A i : /\ ~Announcing(p, i) /\ ~Announcing(p, i)'
               /\ ~Telling(p, i) /\ ~Telling(p, i)'
    BY <2>1 DEF Announcing, Telling
  <2>4. CASE incidents' = incidents
    BY <2>2, <2>3, <2>4 DEF RowsExact
  <2>5. CASE incidents' = Acknowledged(incidents, inc[p], newStatus[p])
    <3>1. PICK n : n = inc[p]
      OBVIOUS
    <3>2. PICK st : st = newStatus[p]
      OBVIOUS
    <3>3. PICK next : next = Acknowledged(incidents, n, st)
      OBVIOUS
    <3>4. st \in Status /\ n \in DOMAIN incidents
      BY <1>1, <2>1, <3>1, <3>2
    <3>5. /\ DOMAIN next = DOMAIN incidents
          /\ \A i \in DOMAIN incidents \ {n} : next[i] = incidents[i]
          /\ next[n].told = incidents[n].told
          /\ next[n].status = st
          /\ (next[n].recovered <=> incidents[n].recovered)
      BY <1>1, <3>3, <3>4, AcknowledgedDoes
    <3>6. st = "resolved" <=> incidents[n].recovered
      BY <2>1, <3>1, <3>2 DEF SoloAt, LegacyStatus
    <3>7. incidents' = next
      BY <2>5, <3>1, <3>2, <3>3
    <3>8. RowsExact(p)'
      BY <2>3, <3>4, <3>5, <3>6, <3>7 DEF RowsExact
    <3>9. QED
      BY <2>2, <3>8
  <2>6. QED
    BY <2>1, <2>4, <2>5
<1>9. ASSUME NEW k \in Contracts, NEW late \in 0 .. MaxLate, Report(p, k, late)
      PROVE  SoloAt(p)' /\ RowsExact(p)'
  <2>1. pc[p] = "idle" /\ UNCHANGED <<pc, before, inc>>
    BY <1>9 DEF Report
  <2>2. SoloAt(p)'
    BY <2>1 DEF SoloAt
  <2>3. \A i : /\ ~Announcing(p, i) /\ ~Announcing(p, i)'
               /\ ~Telling(p, i) /\ ~Telling(p, i)'
    BY <2>1 DEF Announcing, Telling
  <2>4. /\ DOMAIN incidents' = DOMAIN incidents
        /\ \A i \in DOMAIN incidents :
              IF i \in Unresolved(incidents, k)
              THEN /\ incidents'[i].status = "resolved" /\ incidents'[i].recovered
                   /\ \A a \in Announcement : incidents'[i].told[a] =
                         IF a = "resolved" THEN OneMore(incidents[i].told[a])
                         ELSE incidents[i].told[a]
              ELSE incidents'[i] = incidents[i]
    BY <1>9, ReportDoes
  <2>5. ASSUME NEW i \in DOMAIN incidents, i \in Unresolved(incidents, k)
        PROVE  /\ incidents'[i].status = "resolved" /\ incidents'[i].recovered
               /\ incidents'[i].told["opened"] = 1 /\ incidents'[i].told["resolved"] = 1
    <3>1. incidents[i].status # "resolved"
      BY <2>5 DEF Unresolved
    <3>2. incidents[i].told["opened"] = 1 /\ incidents[i].told["resolved"] = 0
      BY <2>3, <3>1 DEF RowsExact
    <3>3. QED
      BY <1>2, <2>4, <2>5, <3>2 DEF OneMore
  <2>6. RowsExact(p)'
    BY <2>3, <2>4, <2>5 DEF RowsExact
  <2>7. QED
    BY <2>2, <2>6
<1>10. QED
  BY <1>3, <1>5, <1>6, <1>7, <1>8, <1>9

\* Every step keeps SoloInv.
LEMMA SoloStep ==
    ASSUME LeaseInv, StoreInv, SoloInv, [Next]_vars
    PROVE  SoloInv'
<1>. SUFFICES ASSUME Solo, crashes' = 0, NEW p \in Processes
              PROVE  RowsExact(p)' /\ SoloAt(p)'
  BY DEF SoloInv, Solo
<1>1. CASE StepOf(p)
  <2>1. ~Crash(p) /\ crashes = 0
    BY <1>1 DEF StoreInv, StoreTyped, Crash, StepOf, TickStep, HandlerStep, Request,
       StartTick, FinishTick, TryClaim, WriteClaim, Evaluate, UpsertState, LookBefore,
       FindExisting, InsertIncident, Announce, LookForOpen, CheckResolve,
       AnnounceResolved, Release, Abort, WriteResolve, WriteAck, TellHandler, Report,
       RemoveWorkflow, ConnectorTurns, Acknowledge, AdminResolve, counts
  <2>2. RowsExact(p) /\ SoloAt(p)
    BY <2>1 DEF SoloInv
  <2>3. QED
    BY <1>1, <2>1, <2>2, SoloReads, SoloWrites DEF StepOf, TickStep, HandlerStep, Request
<1>2. CASE StepOfNobody
  <2>1. /\ DOMAIN incidents' = DOMAIN incidents
        /\ \A i \in DOMAIN incidents : Same(incidents[i], incidents'[i])
        /\ UNCHANGED <<pc, cur, before, inc, newStatus, crashes>>
    BY <1>2, NobodyWrites
  <2>2. RowsExact(p) /\ SoloAt(p) /\ NamedAt(p)
    BY <2>1 DEF SoloInv, StoreInv, Named
  <2>3. RowsExact(p)'
    BY <2>1, <2>2 DEF RowsExact, Same, Announcing, Telling
  <2>4. \A k : Unresolved(incidents', k) = Unresolved(incidents, k)
    BY <2>1 DEF Unresolved, Same
  <2>5. pc[p] \in Writing => /\ incidents'[inc[p]].status = incidents[inc[p]].status
                             /\ LegacyStatus(incidents'[inc[p]])
                                   = LegacyStatus(incidents[inc[p]])
    BY <2>1, <2>2 DEF NamedAt, Same, LegacyStatus
  <2>6. SoloAt(p)'
    BY <2>1, <2>2, <2>4, <2>5 DEF SoloAt, Writing
  <2>7. QED
    BY <2>3, <2>6
<1>3. QED
  BY <1>1, <1>2 DEF Next, StepOf, StepOfNobody, Solo

\* There is no incident at first.
LEMMA InitSolo == Init => SoloInv
BY DEF Init, SoloInv, RowsExact, SoloAt

\* Between the ticks and handlers of an only process that has not died, every
\* incident has been announced as opened once, and as resolved when it is.
THEOREM ExactWhenAlone == Spec => []AnnouncedExactly
<1>1. LeaseInv /\ StoreInv /\ SoloInv /\ [Next]_vars => SoloInv'
  BY SoloStep
<1>2. StoreInv /\ SoloInv => AnnouncedExactly
  <2>. SUFFICES ASSUME StoreInv, SoloInv, Solo, crashes = 0,
                       \A p \in Processes : ~Busy(p)
                PROVE  \A i \in DOMAIN incidents :
                          /\ incidents[i].told["opened"] = 1
                          /\ incidents[i].told["resolved"]
                               = IF incidents[i].status = "resolved" THEN 1 ELSE 0
    BY DEF AnnouncedExactly, Solo
  <2>1. PICK p \in Processes : TRUE
    BY WatcherAssumption
  <2>2. RowsExact(p) /\ pc[p] = "idle"
    BY DEF SoloInv, Busy
  <2>3. QED
    BY <2>2 DEF RowsExact, Announcing, Telling
<1>3. QED
  BY <1>1, <1>2, InitSolo, StoreHolds, PTL DEF Spec

=============================================================================
