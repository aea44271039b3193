----------------------------- MODULE PollingProofs -----------------------------
(***************************************************************************)
(* Proofs about Polling for every set of processes, workflows and          *)
(* connectors, every lease and every duration of a tick.                   *)
(***************************************************************************)
EXTENDS Polling, TLAPS

-----------------------------------------------------------------------------
(* The claims                                                              *)

\* Where a process is at a workflow.
AtWork == {"begin", "await", "arrived", "answer", "ingest", "finish"}

\* The part of the type invariant that the claims need.
ClaimTyped ==
    /\ pc \in [Processes -> Place]
    /\ todo \in [Processes -> SUBSET Workflows]
    /\ cur \in [Processes -> Workflows \cup {NoWorkflow}]
    /\ owner \in [Workflows -> Processes \cup {Nobody}]
    /\ left \in [Workflows -> Int]
    /\ age \in [Processes -> Nat]
    /\ \A p \in Processes : cur[p] \in Workflows <=> pc[p] \in AtWork

\* While the tick of p is within the lease, the claim row names p, and expires
\* a whole lease after that tick began.
LeaseInv ==
    /\ ClaimTyped
    /\ \A p \in Processes, w \in Workflows :
          cur[p] = w /\ age[p] <= ClaimTtl => owner[w] = p /\ left[w] = ClaimTtl - age[p]

\* Nobody is at work at first.
LEMMA LeaseInit == Init => LeaseInv
BY PollingAssumption DEF Init, LeaseInv, ClaimTyped, Place, AtWork

\* A step that changes neither the claims nor the clock, and no process's workflow.
LEMMA LeaseFrame ==
    ASSUME LeaseInv, ClaimTyped',
           UNCHANGED <<cur, owner, left, age>>
    PROVE  LeaseInv'
BY DEF LeaseInv

\* A claim is taken from nobody whose lease runs.
LEMMA LeaseOfClaim ==
    ASSUME LeaseInv, NEW p \in Processes, Claim(p)
    PROVE  LeaseInv'
<1> USE DEF LeaseInv, ClaimTyped, Goto, Place, AtWork
<1>1. PICK w \in todo[p] :
         /\ todo' = [todo EXCEPT ![p] = @ \ {w}]
         /\ IF Held(p, w) THEN UNCHANGED <<pc, cur, owner, left>>
            ELSE /\ owner' = [owner EXCEPT ![w] = p]
                 /\ left' = [left EXCEPT ![w] = ClaimTtl - age[p]]
                 /\ cur' = [cur EXCEPT ![p] = w]
                 /\ pc' = [pc EXCEPT ![p] = "begin"]
  BY DEF Claim
<1>2. w \in Workflows /\ age' = age /\ ClaimTtl \in Nat
  BY PollingAssumption DEF Claim
<1>3. CASE Held(p, w)
  <2>1. ClaimTyped'
    BY <1>1, <1>2, <1>3
  <2> QED BY <1>1, <1>2, <1>3, <2>1
<1>4. CASE ~Held(p, w)
  <2>1. ClaimTyped'
    BY <1>1, <1>2, <1>4, PollingAssumption
  <2>2. ASSUME NEW q \in Processes \ {p}, cur[q] = w, age[q] <= ClaimTtl PROVE FALSE
    BY <1>2, <1>4, <2>2 DEF Held
  <2>3. ASSUME NEW q \in Processes, NEW v \in Workflows, cur'[q] = v, age'[q] <= ClaimTtl
        PROVE  owner'[v] = q /\ left'[v] = ClaimTtl - age'[q]
    <3>1. CASE q = p
      BY <1>1, <1>2, <1>4, <2>3, <3>1
    <3>2. CASE q # p
      <4>1. cur[q] = v /\ age[q] <= ClaimTtl
        BY <1>1, <1>2, <1>4, <2>3, <3>2
      <4>2. v # w
        BY <2>2, <3>2, <4>1
      <4> QED BY <1>1, <1>2, <1>4, <4>1, <4>2
    <3> QED BY <3>1, <3>2
  <2> QED BY <2>1, <2>3
<1> QED BY <1>3, <1>4

\* A finished poll gives up its own claim only.
LEMMA LeaseOfFinish ==
    ASSUME LeaseInv, NEW p \in Processes, Finish(p)
    PROVE  LeaseInv'
<1> USE DEF LeaseInv, ClaimTyped, Goto, Place, AtWork
<1> DEFINE w == cur[p]
<1>1. /\ pc[p] = "finish" /\ w \in Workflows
      /\ IF owner[w] = p THEN left' = [left EXCEPT ![w] = 0] ELSE left' = left
      /\ pc' = [pc EXCEPT ![p] = "next"] /\ cur' = [cur EXCEPT ![p] = NoWorkflow]
      /\ UNCHANGED <<owner, age, todo>>
  BY DEF Finish, ForgetPoll, Expiry
<1> HIDE DEF w
<1>2. ClaimTyped'
  BY <1>1, PollingAssumption
<1>3. ASSUME NEW q \in Processes, NEW v \in Workflows, cur'[q] = v, age'[q] <= ClaimTtl
      PROVE  owner'[v] = q /\ left'[v] = ClaimTtl - age'[q]
  <2>1. q # p /\ cur[q] = v
    BY <1>1, <1>3, PollingAssumption
  <2>2. owner[v] = q /\ left[v] = ClaimTtl - age[q]
    BY <1>1, <1>3, <2>1
  <2> QED BY <1>1, <2>1, <2>2
<1> QED BY <1>2, <1>3

\* A crash takes no claim from another.
LEMMA LeaseOfCrash ==
    ASSUME LeaseInv, NEW p \in Processes, Crash(p)
    PROVE  LeaseInv'
<1> USE DEF LeaseInv, ClaimTyped, Goto, Place, AtWork
<1>1. PICK heir \in {p, Nobody} :
         owner' = [w \in Workflows |-> IF owner[w] = p THEN heir ELSE owner[w]]
  BY DEF Crash
<1>2. /\ pc' = [pc EXCEPT ![p] = "idle"] /\ cur' = [cur EXCEPT ![p] = NoWorkflow]
      /\ age' = [age EXCEPT ![p] = 0] /\ left' = left /\ todo' = [todo EXCEPT ![p] = {}]
  BY DEF Crash, ForgetPoll
<1>3. ClaimTyped'
  BY <1>1, <1>2, PollingAssumption
<1>4. ASSUME NEW q \in Processes, NEW v \in Workflows, cur'[q] = v, age'[q] <= ClaimTtl
      PROVE  owner'[v] = q /\ left'[v] = ClaimTtl - age'[q]
  <2>1. q # p /\ cur[q] = v /\ age'[q] = age[q]
    BY <1>2, <1>4, PollingAssumption
  <2> QED BY <1>1, <1>2, <1>4, <2>1
<1> QED BY <1>3, <1>4

\* Time uses up a lease as fast as the tick that took it.
LEMMA LeaseOfTime ==
    ASSUME LeaseInv, Time
    PROVE  LeaseInv'
<1> USE DEF LeaseInv, ClaimTyped, Place, AtWork
<1>1. /\ \A p \in Processes : pc[p] # "idle" => pc[p] \in {"await", "arrived"}
      /\ left' = [w \in Workflows |-> IF left[w] < -MaxTick THEN left[w] ELSE left[w] - 1]
      /\ age' = [p \in Processes |-> IF pc[p] \in {"await", "arrived"} THEN age[p] + 1
                                     ELSE age[p]]
      /\ UNCHANGED <<pc, todo, cur, owner>>
  BY DEF Time, Waits
<1>2. ClaimTyped'
  BY <1>1, PollingAssumption
<1>3. ASSUME NEW p \in Processes, NEW w \in Workflows, cur'[p] = w, age'[p] <= ClaimTtl
      PROVE  owner'[w] = p /\ left'[w] = ClaimTtl - age'[p]
  <2>1. cur[p] = w /\ age'[p] = age[p] + 1
    BY <1>1, <1>3
  <2>2. owner[w] = p /\ left[w] = ClaimTtl - age[p] /\ age[p] < ClaimTtl
    BY <1>3, <2>1, PollingAssumption
  <2> QED BY <1>1, <2>1, <2>2, PollingAssumption
<1> QED BY <1>2, <1>3

\* What an answer does to the incidents leaves the claims and the evidence alone; at
\* the end the poll goes on or has failed.
LEMMA AnswerDoes ==
    ASSUME NEW p \in Processes, AnswerStep(p)
    PROVE  /\ UNCHANGED <<health, finished, refused, stored, checkpoint, todo, cur, owner,
                          left, age, page>>
           /\ \/ UNCHANGED <<pc, queue, latest>>
              \/ /\ pc[p] = "answer" /\ pc' = [pc EXCEPT ![p] = "finish"]
                 /\ UNCHANGED <<queue, latest>>
              \/ /\ pc[p] = "answer" /\ pc' = [pc EXCEPT ![p] = "ingest"]
                 /\ queue' = [queue EXCEPT ![p] =
                                 {x \in page[p] : Unseen(x, checkpoint[cur[p]])}]
                 /\ latest' = [latest EXCEPT ![p] = checkpoint[cur[p]]]
<1> USE DEF AnswerFrame, PollFrame, worldVars, claimVars, Goto, Throws
<1>1. AnswerFrame
  BY DEF AnswerStep, LookUp, Check, WriteRecovery, TellRecovery, EndRecovery, FindOutage,
         InsertOutage, AnnounceOutage
<1>2. CASE LookUp(p) \/ WriteRecovery(p) \/ TellRecovery(p) \/ FindOutage(p)
  BY <1>1, <1>2 DEF LookUp, WriteRecovery, TellRecovery, FindOutage
<1>3. CASE Check(p) \/ InsertOutage(p)
  BY <1>1, <1>3 DEF Check, InsertOutage
<1>4. CASE EndRecovery(p)
  BY <1>1, <1>4 DEF EndRecovery
<1>5. CASE AnnounceOutage(p)
  BY <1>1, <1>5 DEF AnnounceOutage
<1> QED BY <1>2, <1>3, <1>4, <1>5 DEF AnswerStep

\* Every step keeps the leases.
LEMMA LeaseStep == LeaseInv /\ [Next]_vars => LeaseInv'
<1> SUFFICES ASSUME LeaseInv, [Next]_vars PROVE LeaseInv'
  OBVIOUS
<1> USE DEF ClaimTyped, Goto, Place, AtWork
<1>0. ClaimTyped
  BY DEF LeaseInv
<1>1. ASSUME NEW p \in Processes, StartTick(p) PROVE LeaseInv'
  BY <1>0, <1>1, LeaseFrame DEF StartTick, claimVars
<1>2. ASSUME NEW p \in Processes, FinishTick(p) PROVE LeaseInv'
  <2>1. ClaimTyped'
    BY <1>0, <1>2 DEF FinishTick, claimVars
  <2>2. ASSUME NEW q \in Processes, NEW w \in Workflows, cur'[q] = w, age'[q] <= ClaimTtl
        PROVE  owner'[w] = q /\ left'[w] = ClaimTtl - age'[q]
    <3>1. q # p /\ cur[q] = w /\ age'[q] = age[q]
      BY <1>0, <1>2, <2>2 DEF FinishTick
    <3> QED BY <1>2, <2>2, <3>1 DEF FinishTick, claimVars, LeaseInv
  <2> QED BY <2>1, <2>2 DEF LeaseInv
<1>3. ASSUME NEW p \in Processes, Begin(p) PROVE LeaseInv'
  BY <1>0, <1>3, LeaseFrame DEF Begin, claimVars
<1>4. ASSUME NEW p \in Processes, Answer(p) PROVE LeaseInv'
  BY <1>0, <1>4, LeaseFrame DEF Answer, claimVars
<1>5. ASSUME NEW p \in Processes, Arrive(p) PROVE LeaseInv'
  <2>1. /\ pc' = [pc EXCEPT ![p] = "answer"]
        /\ pc[p] = "arrived" /\ UNCHANGED <<todo, cur, owner, left, age>>
    BY <1>5 DEF Arrive, claimVars
  <2> QED BY <1>0, <2>1, LeaseFrame
<1>6. ASSUME NEW p \in Processes, Ingest(p) PROVE LeaseInv'
  <2>1. /\ pc' = [pc EXCEPT ![p] = IF active[cur[p]] THEN "ingest" ELSE "finish"]
        /\ pc[p] = "ingest" /\ UNCHANGED <<todo, cur, owner, left, age>>
    BY <1>0, <1>6 DEF Ingest, IngestOne, IngestInactive, claimVars
  <2> QED BY <1>0, <2>1, LeaseFrame
<1>7. ASSUME NEW p \in Processes, Save(p) PROVE LeaseInv'
  BY <1>0, <1>7, LeaseFrame DEF Save, claimVars
<1>8. ASSUME NEW c \in Connectors, NEW p \in Processes,
             TestConnector(p, c) \/ DisableConnector(c)
      PROVE  LeaseInv'
  BY <1>0, <1>8, LeaseFrame DEF TestConnector, DisableConnector, claimVars
<1>13. ASSUME NEW c \in Connectors, DisableConnector(c) PROVE LeaseInv'
  BY <1>0, <1>13, LeaseFrame DEF DisableConnector, claimVars
<1>14. ASSUME NEW p \in Processes, AnswerStep(p) PROVE LeaseInv'
  <2>1. ClaimTyped'
    BY <1>0, <1>14, AnswerDoes
  <2> QED BY <1>14, <2>1, AnswerDoes, LeaseFrame
<1>9. ASSUME NEW c \in Connectors, NEW to \in Appearances, Turn(c, to) PROVE LeaseInv'
  BY <1>0, <1>9, LeaseFrame DEF Turn, claimVars
<1>10. ASSUME NEW w \in Workflows, ToggleContract(w) PROVE LeaseInv'
  BY <1>0, <1>10, LeaseFrame DEF ToggleContract, claimVars
<1>11. ASSUME NEW w \in Workflows, NEW id \in 1 .. MaxExecutions, NEW at \in 1 .. MaxExecutions,
              NEW bad \in BOOLEAN, Execute(w, id, at, bad)
       PROVE  LeaseInv'
  BY <1>0, <1>11, LeaseFrame DEF Execute, claimVars
<1>12. ASSUME UNCHANGED vars PROVE LeaseInv'
  BY <1>0, <1>12, LeaseFrame DEF vars, claimVars
<1> QED BY <1>1, <1>2, <1>3, <1>4, <1>5, <1>6, <1>7, <1>8, <1>9, <1>10, <1>11, <1>12,
           <1>13, <1>14, LeaseOfClaim, LeaseOfFinish, LeaseOfCrash, LeaseOfTime DEF Next, Step

\* A process within its lease has the claim of the workflow it works at.
LEMMA LeaseInvariant == Spec => []LeaseInv
BY LeaseInit, LeaseStep, PTL DEF Spec

\* Two processes never poll the same workflow while the ticks of both are within
\* the lease (tryClaimPoll compares the expiry with the beginning of the tick).
THEOREM PollsExclusive == Spec => []PollsExclude
<1>1. LeaseInv => PollsExclude
  BY DEF LeaseInv, PollsExclude, Polls
<1> QED BY <1>1, LeaseInvariant, PTL

-----------------------------------------------------------------------------
(* Incidents                                                               *)

\* A rewritten row leaves a table of incidents.
LEMMA UpdatedIncident ==
    ASSUME NEW rows \in Seq(Incident), NEW i \in DOMAIN rows, NEW row \in Incident
    PROVE  /\ [rows EXCEPT ![i] = row] \in Seq(Incident)
           /\ DOMAIN [rows EXCEPT ![i] = row] = DOMAIN rows
           /\ \A j \in DOMAIN rows : [rows EXCEPT ![i] = row][j] = IF j = i THEN row ELSE rows[j]
OBVIOUS

\* An announcement changes what was told of one row, and of that row nothing else.
LEMMA ToldDoes ==
    ASSUME NEW rows \in Seq(Incident), NEW i \in DOMAIN rows, NEW e \in EventType,
           NEW next, next = Told(rows, i, e)
    PROVE  /\ next \in Seq(Incident) /\ DOMAIN next = DOMAIN rows
           /\ \A j \in DOMAIN rows \ {i} : next[j] = rows[j]
           /\ next[i].problem = rows[i].problem /\ next[i].status = rows[i].status
           /\ \A w : Unresolved(next, w) = Unresolved(rows, w)
<1> DEFINE row == [rows[i] EXCEPT !.pending = OneMore(@),
                                  !.told = [a \in Announcement |->
                                      IF a = e THEN OneMore(@[a]) ELSE @[a]]]
<1>1. rows[i] \in Incident
  OBVIOUS
<1>2. \A n \in 0 .. 2 : OneMore(n) \in 0 .. 2
  BY DEF OneMore
<1>3. /\ row.problem = rows[i].problem /\ row.status = rows[i].status
      /\ row \in Incident
  BY <1>1, <1>2 DEF Incident
<1>4. next = [rows EXCEPT ![i] = row]
  BY <1>1 DEF Told, Incident
<1> HIDE DEF row
<1>5. /\ next \in Seq(Incident) /\ DOMAIN next = DOMAIN rows
      /\ \A j \in DOMAIN rows \ {i} : next[j] = rows[j]
      /\ next[i].problem = rows[i].problem /\ next[i].status = rows[i].status
  BY <1>3, <1>4, UpdatedIncident
<1>6. \A j \in DOMAIN rows : next[j].problem = rows[j].problem /\ next[j].status = rows[j].status
  BY <1>5
<1> QED BY <1>5, <1>6 DEF Unresolved

\* A resolution changes one row.
LEMMA ResolvedDoes ==
    ASSUME NEW rows \in Seq(Incident), NEW i \in DOMAIN rows,
           NEW next, next = Resolved(rows, i)
    PROVE  /\ next \in Seq(Incident) /\ DOMAIN next = DOMAIN rows
           /\ \A j \in DOMAIN rows \ {i} : next[j] = rows[j]
           /\ \A w : Unresolved(next, w) = Unresolved(rows, w) \ {i}
<1> DEFINE row == [rows[i] EXCEPT !.status = "resolved", !.recovered = TRUE]
<1>1. rows[i] \in Incident
  OBVIOUS
<1>2. /\ row.problem = rows[i].problem /\ row.status = "resolved"
      /\ row \in Incident
  BY <1>1 DEF Incident, Status
<1>3. next = [rows EXCEPT ![i] = row]
  BY <1>1 DEF Resolved, Incident
<1> HIDE DEF row
<1>4. /\ next \in Seq(Incident) /\ DOMAIN next = DOMAIN rows
      /\ \A j \in DOMAIN rows \ {i} : next[j] = rows[j]
      /\ next[i].problem = rows[i].problem /\ next[i].status = "resolved"
  BY <1>2, <1>3, UpdatedIncident
<1> QED BY <1>4 DEF Unresolved

\* An opened incident is a new row after the others.
LEMMA OpenedDoes ==
    ASSUME NEW rows \in Seq(Incident), NEW w \in Problems,
           NEW next, next = Opened(rows, w)
    PROVE  /\ next \in Seq(Incident) /\ DOMAIN next = DOMAIN rows \cup {Len(rows) + 1}
           /\ Len(rows) + 1 \notin DOMAIN rows
           /\ \A j \in DOMAIN rows : next[j] = rows[j]
           /\ next[Len(rows) + 1].problem = w
           /\ \A v : v # w => Unresolved(next, v) = Unresolved(rows, v)
           /\ Unresolved(next, w) \subseteq Unresolved(rows, w) \cup {Len(rows) + 1}
<1> DEFINE row == [problem |-> w, status |-> "open", recovered |-> FALSE,
                   acked |-> FALSE, told |-> [e \in Announcement |-> 0],
                   pending |-> 0, age |-> 0]
<1>1. row \in Incident /\ row.problem = w
  BY BackoffAssumption DEF Incident, Status
<1>2. next = Append(rows, row)
  BY DEF Opened
<1> HIDE DEF row
<1>3. /\ next \in Seq(Incident) /\ DOMAIN next = DOMAIN rows \cup {Len(rows) + 1}
      /\ Len(rows) + 1 \notin DOMAIN rows
      /\ \A j \in DOMAIN rows : next[j] = rows[j]
      /\ next[Len(rows) + 1].problem = w
  BY <1>1, <1>2
<1> QED BY <1>3 DEF Unresolved

-----------------------------------------------------------------------------
(* Connectors and their incidents                                          *)

\* The rows of the incidents are well formed, one of a workflow is unresolved at
\* most, and what a process has still to do is about one connector and its workflows.
AlarmTyped ==
    /\ incidents \in Seq(Incident)
    /\ health = [c \in Connectors |-> health[c]]
    /\ task \in [Processes -> Task]
    /\ \A p \in Processes :
          /\ task[p].on = NoConnector => task[p] = NoTask
          /\ \A w \in task[p].rest : ConnectorOf[w] = task[p].on
          /\ task[p].step \in {"check", "write", "tell", "announce"} =>
                task[p].row \in DOMAIN incidents
    /\ \A w \in Workflows : \A i, j \in Unresolved(incidents, w) : i = j

\* A recovery has dealt with the workflows that are not left; an outage is recorded
\* of a connector that is not healthy.
Answered(p, c) ==
    /\ task[p].step \in Recording => health[c] # "healthy"
    /\ task[p].step \in Recovering =>
          \A w \in Workflows \ task[p].rest :
             ConnectorOf[w] = c =>
                Unresolved(incidents, w) \subseteq
                    IF task[p].step \in {"check", "write"} THEN {task[p].row} ELSE {}

Quiet(c) == \A w \in Workflows : ConnectorOf[w] = c => Unresolved(incidents, w) = {}

\* At most one process is at work on the incidents of c, and when nobody is, a healthy
\* connector is quiet.
Settled(c) ==
    /\ \A p, q \in Processes : task[p].on = c /\ task[q].on = c => p = q
    /\ \A p \in Processes : task[p].on = c => Answered(p, c)
    /\ (\A p \in Processes : task[p].on # c) /\ health[c] = "healthy" => Quiet(c)

QuietInv == AlarmTyped /\ \A c \in Connectors \ doubt : Settled(c)

\* What concerns neither incidents nor health keeps QuietInv.
LEMMA QuietFrame ==
    ASSUME QuietInv, UNCHANGED alarmVars
    PROVE  QuietInv'
BY DEF QuietInv, AlarmTyped, Settled, Answered, Quiet, alarmVars

\* There is no incident at first, and nothing to do.
LEMMA QuietInit == Init => QuietInv
<1> SUFFICES ASSUME Init PROVE QuietInv
  OBVIOUS
<1>1. /\ incidents = <<>> /\ health = [c \in Connectors |-> "unknown"]
      /\ task = [p \in Processes |-> NoTask]
  BY DEF Init
<1>2. NoTask \in Task /\ NoTask.on = NoConnector /\ NoTask.rest = {} /\ NoTask.step = "none"
  BY DEF NoTask, Task
<1>3. \A w \in Workflows : Unresolved(incidents, w) = {}
  BY <1>1 DEF Unresolved
<1>4. AlarmTyped
  BY <1>1, <1>2, <1>3 DEF AlarmTyped
<1>5. ASSUME NEW c \in Connectors PROVE Settled(c)
  BY <1>1, <1>2, <1>3, PollingAssumption DEF Settled, Quiet
<1> QED BY <1>4, <1>5 DEF QuietInv

\* A connector whose tasks and health stay, and about which no incident is opened.
LEMMA SettledFrame ==
    ASSUME NEW c \in Connectors, Settled(c), health'[c] = health[c],
           \A q \in Processes : task'[q] = task[q] \/ (task[q].on # c /\ task'[q].on # c),
           \A w \in Workflows : ConnectorOf[w] = c =>
              Unresolved(incidents', w) \subseteq Unresolved(incidents, w)
    PROVE  Settled(c)'
<1>1. \A p, q \in Processes : task'[p].on = c /\ task'[q].on = c => p = q
  BY DEF Settled
<1>2. ASSUME NEW p \in Processes, task'[p].on = c PROVE Answered(p, c)'
  <2>1. task'[p] = task[p] /\ Answered(p, c)
    BY <1>2 DEF Settled
  <2> QED BY <2>1 DEF Answered
<1>3. ASSUME \A p \in Processes : task'[p].on # c, health'[c] = "healthy"
      PROVE  Quiet(c)'
  <2>1. \A p \in Processes : task[p].on # c
    BY <1>3
  <2>2. Quiet(c)
    BY <1>3, <2>1 DEF Settled
  <2> QED BY <2>2 DEF Quiet
<1> QED BY <1>1, <1>2, <1>3 DEF Settled

\* A process takes a step of its task, or ends it.
LEMMA TaskStep ==
    ASSUME QuietInv, NEW p \in Processes, NEW c \in Connectors, c = task[p].on,
           NEW t, task' = [task EXCEPT ![p] = t], t.on \in {c, NoConnector},
           UNCHANGED <<health, doubt>>, AlarmTyped',
           \A w \in Workflows : ConnectorOf[w] # c =>
              Unresolved(incidents', w) \subseteq Unresolved(incidents, w),
           c \notin doubt /\ t.on = c => Answered(p, c)',
           c \notin doubt /\ t.on # c /\ health[c] = "healthy" => Quiet(c)'
    PROVE  QuietInv'
<1>1. task'[p] = t /\ \A q \in Processes \ {p} : task'[q] = task[q]
  BY DEF QuietInv, AlarmTyped
<1>2. ASSUME NEW d \in Connectors \ doubt, d # c PROVE Settled(d)'
  <2>1. Settled(d) /\ health'[d] = health[d]
    BY <1>2 DEF QuietInv
  <2>2. \A q \in Processes : task'[q] = task[q] \/ (task[q].on # d /\ task'[q].on # d)
    BY <1>1, <1>2, PollingAssumption
  <2> QED BY <1>2, <2>1, <2>2, SettledFrame
<1>3. ASSUME c \notin doubt PROVE Settled(c)'
  <2>1. \A q \in Processes \ {p} : task'[q].on # c
    BY <1>1, <1>3 DEF QuietInv, Settled
  <2>2. CASE t.on = c
    BY <1>1, <1>3, <2>1, <2>2 DEF Settled
  <2>3. CASE t.on # c
    BY <1>1, <1>3, <2>1, <2>3 DEF Settled
  <2> QED BY <2>2, <2>3
<1> QED BY <1>2, <1>3 DEF QuietInv

\* A connector about which a statement throws, or whose answer is cut off, is in doubt.
LEMMA TaskDropped ==
    ASSUME QuietInv, NEW p \in Processes, task' = [task EXCEPT ![p] = NoTask],
           UNCHANGED <<incidents, health>>, doubt \subseteq doubt',
           task[p] = NoTask \/ task[p].on \in doubt'
    PROVE  QuietInv'
<1>0. AlarmTyped
  BY DEF QuietInv
<1>1. task'[p] = NoTask /\ \A q \in Processes \ {p} : task'[q] = task[q]
  BY <1>0 DEF AlarmTyped
<1>2. NoTask \in Task /\ NoTask.on = NoConnector /\ NoTask.rest = {} /\ NoTask.step = "none"
  BY DEF NoTask, Task
<1>3. AlarmTyped'
  BY <1>0, <1>1, <1>2 DEF AlarmTyped
<1>4. ASSUME NEW c \in Connectors \ doubt' PROVE Settled(c)'
  <2>1. Settled(c)
    BY <1>4 DEF QuietInv
  <2>2. \A q \in Processes : task'[q] = task[q] \/ (task[q].on # c /\ task'[q].on # c)
    BY <1>1, <1>2, <1>4, PollingAssumption
  <2> QED BY <1>4, <2>1, <2>2, SettledFrame
<1> QED BY <1>3, <1>4 DEF QuietInv

\* A task that has begun is about one connector.
LEMMA TaskIs ==
    ASSUME AlarmTyped, NEW p \in Processes, task[p].step # "none"
    PROVE  /\ task[p] \in Task /\ task[p].on \in Connectors
           /\ \A w \in task[p].rest : w \in Workflows /\ ConnectorOf[w] = task[p].on
<1>1. task[p] \in Task /\ (task[p].on = NoConnector => task[p] = NoTask)
      /\ \A w \in task[p].rest : ConnectorOf[w] = task[p].on
  BY DEF AlarmTyped
<1>2. NoTask.step = "none"
  BY DEF NoTask
<1> QED BY <1>1, <1>2 DEF Task

\* What is typed stays so when one task moves on and no incident becomes unresolved.
LEMMA TypedStep ==
    ASSUME AlarmTyped, NEW p \in Processes, NEW t \in Task, task' = [task EXCEPT ![p] = t],
           health' = health, incidents' \in Seq(Incident),
           DOMAIN incidents \subseteq DOMAIN incidents',
           \A w \in Workflows : Unresolved(incidents', w) \subseteq Unresolved(incidents, w),
           t.on = NoConnector => t = NoTask,
           \A w \in t.rest : ConnectorOf[w] = t.on,
           t.step \in {"check", "write", "tell", "announce"} => t.row \in DOMAIN incidents'
    PROVE  AlarmTyped'
<1>1. task' \in [Processes -> Task] /\ task'[p] = t
      /\ \A q \in Processes \ {p} : task'[q] = task[q]
  BY DEF AlarmTyped
<1>2. \A q \in Processes :
         /\ task'[q].on = NoConnector => task'[q] = NoTask
         /\ \A w \in task'[q].rest : ConnectorOf[w] = task'[q].on
         /\ task'[q].step \in {"check", "write", "tell", "announce"} =>
               task'[q].row \in DOMAIN incidents'
  BY <1>1 DEF AlarmTyped
<1>3. \A w \in Workflows : \A i, j \in Unresolved(incidents', w) : i = j
  BY DEF AlarmTyped
<1> QED BY <1>1, <1>2, <1>3 DEF AlarmTyped

\* The look-up of an incident: when none is found the workflow is dealt with.
LEMMA QuietOfLookUp ==
    ASSUME QuietInv, NEW p \in Processes, LookUp(p)
    PROVE  QuietInv'
<1>0. AlarmTyped
  BY DEF QuietInv
<1>1. PICK w \in Workflows : /\ Asked(p, w)
         /\ LET found == Unresolved(incidents, w)
                remain == IF task[p].step = "own" THEN task[p].rest ELSE task[p].rest \ {w}
            IN  IF found = {}
                THEN Becomes(p, [task[p] EXCEPT !.step = "recover", !.rest = remain])
                ELSE \E i \in found :
                       Becomes(p, [task[p] EXCEPT !.step = "check", !.rest = remain, !.row = i])
  BY DEF LookUp
<1>2. UNCHANGED <<incidents, doubt, health>>
  BY DEF LookUp, PollFrame, AnswerFrame
<1>3. task[p].step \in {"own", "recover"}
  BY <1>1 DEF Asked
<1>4. PICK c : c = task[p].on
  OBVIOUS
<1>5. /\ task[p] \in Task /\ c \in Connectors
      /\ \A v \in task[p].rest : v \in Workflows /\ ConnectorOf[v] = c
  BY <1>0, <1>3, <1>4, TaskIs
<1>6. PICK remain : /\ remain = IF task[p].step = "own" THEN task[p].rest ELSE task[p].rest \ {w}
                    /\ remain \subseteq task[p].rest
                    /\ task[p].rest \subseteq remain \cup {w}
  OBVIOUS
<1>7. c \notin doubt =>
         \A v \in Workflows \ task[p].rest : ConnectorOf[v] = c => Unresolved(incidents, v) = {}
  BY <1>3, <1>4, <1>5 DEF QuietInv, Settled, Answered, Recovering
<1>8. CASE Unresolved(incidents, w) = {}
  <2>1. PICK t : t = [task[p] EXCEPT !.step = "recover", !.rest = remain]
    OBVIOUS
  <2>2. task' = [task EXCEPT ![p] = t]
    BY <1>1, <1>6, <1>8, <2>1 DEF Becomes
  <2>3. t \in Task /\ t.step = "recover" /\ t.rest = remain /\ t.on = c
    BY <1>4, <1>5, <1>6, <2>1 DEF Task, Recovering
  <2>4. AlarmTyped'
    BY <1>0, <1>2, <1>5, <1>6, <2>2, <2>3, TypedStep, PollingAssumption DEF AlarmTyped
  <2>5. task'[p] = t
    BY <1>0, <2>2 DEF AlarmTyped
  <2>6. c \notin doubt => Answered(p, c)'
    BY <1>2, <1>6, <1>7, <1>8, <2>3, <2>5 DEF Answered, Recording
  <2> QED BY <1>2, <1>4, <1>5, <2>2, <2>3, <2>4, <2>6, TaskStep
<1>9. CASE Unresolved(incidents, w) # {}
  <2>0. PICK i \in Unresolved(incidents, w) :
           Becomes(p, [task[p] EXCEPT !.step = "check", !.rest = remain, !.row = i])
    BY <1>1, <1>6, <1>9
  <2>1. PICK t : t = [task[p] EXCEPT !.step = "check", !.rest = remain, !.row = i]
    OBVIOUS
  <2>2. task' = [task EXCEPT ![p] = t]
    BY <2>0, <2>1 DEF Becomes
  <2>a. i \in DOMAIN incidents /\ i \in Nat
    BY <1>0 DEF Unresolved, AlarmTyped
  <2>3. t \in Task /\ t.step = "check" /\ t.rest = remain /\ t.on = c /\ t.row = i
    BY <1>4, <1>5, <1>6, <2>1, <2>a DEF Task, Recovering
  <2>4. AlarmTyped'
    BY <1>0, <1>2, <1>5, <1>6, <2>2, <2>3, <2>a, TypedStep, PollingAssumption DEF AlarmTyped
  <2>5. task'[p] = t
    BY <1>0, <2>2 DEF AlarmTyped
  <2>b. Unresolved(incidents, w) = {i}
    BY <1>0 DEF AlarmTyped
  <2>6. c \notin doubt => Answered(p, c)'
    BY <1>2, <1>6, <1>7, <2>3, <2>5, <2>b DEF Answered, Recording
  <2> QED BY <1>2, <1>4, <1>5, <2>2, <2>3, <2>4, <2>6, TaskStep
<1> QED BY <1>8, <1>9

\* A task that moves on with the same workflows left, while no incident becomes
\* unresolved: the row that was found is resolved, or still there.
LEMMA RecoveryStep ==
    ASSUME QuietInv, NEW p \in Processes, NEW to \in Recovering \ {"own"},
           task[p].step \in {"check", "write", "tell"},
           Does(p, to), UNCHANGED <<health, doubt>>,
           incidents' \in Seq(Incident), DOMAIN incidents' = DOMAIN incidents,
           \A w \in Workflows : Unresolved(incidents', w) \subseteq Unresolved(incidents, w),
           task[p].step # "tell" /\ to \in {"tell", "recover"} =>
              \A w \in Workflows : task[p].row \notin Unresolved(incidents', w)
    PROVE  QuietInv'
<1>0. AlarmTyped
  BY DEF QuietInv
<1>1. PICK c, t : c = task[p].on /\ t = [task[p] EXCEPT !.step = to]
  OBVIOUS
<1>2. /\ task[p] \in Task /\ c \in Connectors
      /\ \A v \in task[p].rest : v \in Workflows /\ ConnectorOf[v] = c
  BY <1>0, <1>1, TaskIs
<1>3. /\ t \in Task /\ t.step = to /\ t.on = c /\ t.rest = task[p].rest
      /\ t.row = task[p].row /\ task' = [task EXCEPT ![p] = t]
  BY <1>1, <1>2 DEF Task, Does, Becomes
<1>4. t.row \in DOMAIN incidents'
  BY <1>0, <1>3 DEF AlarmTyped
<1>5. AlarmTyped'
  BY <1>0, <1>2, <1>3, <1>4, TypedStep, PollingAssumption
<1>6. task'[p] = t
  BY <1>0, <1>3 DEF AlarmTyped
<1>7. ASSUME c \notin doubt PROVE Answered(p, c)'
  <2>1. Answered(p, c)
    BY <1>1, <1>2, <1>7 DEF QuietInv, Settled
  <2>2. \A v \in Workflows \ task[p].rest :
           ConnectorOf[v] = c =>
              Unresolved(incidents, v) \subseteq
                  IF task[p].step \in {"check", "write"} THEN {task[p].row} ELSE {}
    BY <2>1 DEF Answered, Recovering
  <2>3. \A v \in Workflows \ task[p].rest :
           ConnectorOf[v] = c =>
              Unresolved(incidents', v) \subseteq
                  IF to \in {"check", "write"} THEN {task[p].row} ELSE {}
    BY <2>2 DEF Recovering
  <2> QED BY <1>3, <1>6, <2>3 DEF Answered, Recording, Recovering
<1> QED BY <1>1, <1>2, <1>3, <1>5, <1>7, TaskStep

\* The three statements that resolve an incident and say so.
LEMMA QuietOfRecovery ==
    ASSUME QuietInv, NEW p \in Processes, Check(p) \/ WriteRecovery(p) \/ TellRecovery(p)
    PROVE  QuietInv'
<1>0. AlarmTyped
  BY DEF QuietInv
<1>1. health' = health
  BY DEF Check, WriteRecovery, TellRecovery, PollFrame, AnswerFrame
<1>2. task[p].step \in {"check", "write", "tell"}
  BY DEF Check, WriteRecovery, TellRecovery
<1>3. task[p].row \in DOMAIN incidents /\ incidents \in Seq(Incident)
  BY <1>0, <1>2 DEF AlarmTyped
<1>4. CASE Check(p) /\ Resolvable(incidents[task[p].row])
  <2>1. task[p].step = "check" /\ Does(p, "write") /\ UNCHANGED <<incidents, doubt>>
    BY <1>4 DEF Check
  <2>2. "write" \in Recovering \ {"own"}
    BY DEF Recovering
  <2> QED BY <1>1, <1>2, <1>3, <2>1, <2>2, RecoveryStep
<1>5. CASE Check(p) /\ ~Resolvable(incidents[task[p].row])
  <2>1. /\ task' = [task EXCEPT ![p] = NoTask] /\ incidents' = incidents
        /\ doubt' = doubt \cup {task[p].on}
    BY <1>5 DEF Check, Throws, Becomes
  <2> QED BY <1>1, <2>1, TaskDropped
<1>6. CASE WriteRecovery(p)
  <2>1. /\ task[p].step = "write" /\ Does(p, "tell") /\ doubt' = doubt
        /\ incidents' = Resolved(incidents, task[p].row)
    BY <1>6 DEF WriteRecovery
  <2>2. /\ incidents' \in Seq(Incident) /\ DOMAIN incidents' = DOMAIN incidents
        /\ \A w : Unresolved(incidents', w) = Unresolved(incidents, w) \ {task[p].row}
    BY <1>3, <2>1, ResolvedDoes
  <2>3. "tell" \in Recovering \ {"own"}
    BY DEF Recovering
  <2> QED BY <1>1, <1>2, <2>1, <2>2, <2>3, RecoveryStep
<1>7. CASE TellRecovery(p)
  <2>1. /\ task[p].step = "tell" /\ Does(p, "recover") /\ doubt' = doubt
        /\ incidents' = Told(incidents, task[p].row, "resolved")
    BY <1>7 DEF TellRecovery
  <2>2. "resolved" \in EventType
    BY DEF EventType
  <2>3. /\ incidents' \in Seq(Incident) /\ DOMAIN incidents' = DOMAIN incidents
        /\ \A w : Unresolved(incidents', w) = Unresolved(incidents, w)
    BY <1>3, <2>1, <2>2, ToldDoes
  <2>4. "recover" \in Recovering \ {"own"}
    BY DEF Recovering
  <2> QED BY <1>1, <1>2, <2>1, <2>3, <2>4, RecoveryStep
<1> QED BY <1>4, <1>5, <1>6, <1>7

\* A task that ends, when what was left of it is done.
LEMMA TaskEnds ==
    ASSUME QuietInv, NEW p \in Processes, task[p].step # "none",
           task' = [task EXCEPT ![p] = NoTask], UNCHANGED <<health, doubt>>,
           incidents' \in Seq(Incident), DOMAIN incidents' = DOMAIN incidents,
           \A w \in Workflows : Unresolved(incidents', w) = Unresolved(incidents, w),
           task[p].step \in Recording \/ (task[p].step = "recover" /\ task[p].rest = {})
    PROVE  QuietInv'
<1>0. AlarmTyped
  BY DEF QuietInv
<1>1. PICK c : c = task[p].on
  OBVIOUS
<1>2. c \in Connectors
  BY <1>0, <1>1, TaskIs
<1>3. /\ NoTask \in Task /\ NoTask.on = NoConnector /\ NoTask.rest = {}
      /\ NoTask.step = "none"
  BY DEF NoTask, Task
<1>4. AlarmTyped'
  BY <1>0, <1>3, TypedStep
<1>5. ASSUME c \notin doubt, health[c] = "healthy" PROVE Quiet(c)'
  <2>1. Answered(p, c)
    BY <1>1, <1>2, <1>5 DEF QuietInv, Settled
  <2>2. task[p].step = "recover" /\ task[p].rest = {}
    BY <1>5, <2>1 DEF Answered
  <2>3. \A w \in Workflows : ConnectorOf[w] = c => Unresolved(incidents, w) = {}
    BY <2>1, <2>2 DEF Answered, Recovering
  <2> QED BY <2>3 DEF Quiet
<1> QED BY <1>1, <1>2, <1>3, <1>4, <1>5, TaskStep, PollingAssumption

\* The end of a recovery, and of the record of an outage.
LEMMA QuietOfEnd ==
    ASSUME QuietInv, NEW p \in Processes, EndRecovery(p) \/ AnnounceOutage(p)
    PROVE  QuietInv'
<1>0. AlarmTyped
  BY DEF QuietInv
<1>1. UNCHANGED <<health, doubt>> /\ task' = [task EXCEPT ![p] = NoTask]
  BY DEF EndRecovery, AnnounceOutage, AnswerFrame, Becomes
<1>2. CASE EndRecovery(p)
  <2>1. incidents' = incidents /\ task[p].step = "recover" /\ task[p].rest = {}
    BY <1>2 DEF EndRecovery
  <2> QED BY <1>0, <1>1, <2>1, TaskEnds DEF AlarmTyped
<1>3. CASE AnnounceOutage(p)
  <2>1. incidents' = Told(incidents, task[p].row, "opened") /\ task[p].step = "announce"
    BY <1>3 DEF AnnounceOutage
  <2>2. "opened" \in EventType /\ "announce" \in Recording
    BY DEF EventType, Recording
  <2>3. task[p].row \in DOMAIN incidents /\ incidents \in Seq(Incident)
    BY <1>0, <2>1 DEF AlarmTyped
  <2>4. /\ incidents' \in Seq(Incident) /\ DOMAIN incidents' = DOMAIN incidents
        /\ \A w : Unresolved(incidents', w) = Unresolved(incidents, w)
    BY <2>1, <2>2, <2>3, ToldDoes
  <2> QED BY <1>1, <2>1, <2>2, <2>4, TaskEnds
<1> QED BY <1>2, <1>3

\* An outage is looked up and recorded of a connector that is not healthy; the index
\* refuses a second unresolved incident.
LEMMA QuietOfRecord ==
    ASSUME QuietInv, NEW p \in Processes, FindOutage(p) \/ InsertOutage(p)
    PROVE  QuietInv'
<1>0. AlarmTyped
  BY DEF QuietInv
<1>1. health' = health
  BY DEF FindOutage, InsertOutage, PollFrame, AnswerFrame
<1>2. task[p].step \in {"record", "insert"}
  BY DEF FindOutage, InsertOutage
<1>3. PICK c : c = task[p].on
  OBVIOUS
<1>4. /\ task[p] \in Task /\ c \in Connectors
      /\ \A v \in task[p].rest : v \in Workflows /\ ConnectorOf[v] = c
  BY <1>0, <1>2, <1>3, TaskIs
<1>5. c \notin doubt => health[c] # "healthy"
  BY <1>2, <1>3, <1>4 DEF QuietInv, Settled, Answered, Recording
<1>6. CASE FindOutage(p)
  <2>1. PICK t : /\ task' = [task EXCEPT ![p] = t]
                 /\ \/ t = [task[p] EXCEPT !.step = "insert"]
                    \/ \E w \in task[p].rest : \E i \in Unresolved(incidents, w) :
                          t = [task[p] EXCEPT !.step = "announce", !.row = i]
    BY <1>6 DEF FindOutage, Does, Becomes
  <2>2. UNCHANGED <<incidents, doubt>>
    BY <1>6 DEF FindOutage
  <2>3. /\ t \in Task /\ t.on = c /\ t.rest = task[p].rest /\ t.step \in {"insert", "announce"}
        /\ t.step = "announce" => t.row \in DOMAIN incidents
    <3>1. CASE t = [task[p] EXCEPT !.step = "insert"]
      BY <1>3, <1>4, <3>1 DEF Task, Recording
    <3>2. CASE \E w \in task[p].rest : \E i \in Unresolved(incidents, w) :
                  t = [task[p] EXCEPT !.step = "announce", !.row = i]
      <4>1. PICK i \in DOMAIN incidents : t = [task[p] EXCEPT !.step = "announce", !.row = i]
        BY <3>2 DEF Unresolved
      <4>2. i \in Nat
        BY <1>0 DEF AlarmTyped
      <4> QED BY <1>3, <1>4, <4>1, <4>2 DEF Task, Recording
    <3> QED BY <2>1, <3>1, <3>2
  <2>4. AlarmTyped'
    BY <1>0, <1>1, <1>4, <2>1, <2>2, <2>3, TypedStep, PollingAssumption DEF AlarmTyped
  <2>5. task'[p] = t
    BY <1>0, <2>1 DEF AlarmTyped
  <2>6. c \notin doubt => Answered(p, c)'
    BY <1>1, <1>5, <2>3, <2>5 DEF Answered, Recovering
  <2> QED BY <1>1, <1>3, <1>4, <2>1, <2>2, <2>3, <2>4, <2>6, TaskStep
<1>7. CASE InsertOutage(p)
  <2>0. task[p].step = "insert"
    BY <1>7 DEF InsertOutage
  <2>1. PICK w \in task[p].rest :
          IF Unresolved(incidents, w) = {}
          THEN /\ incidents' = Opened(incidents, w)
               /\ Becomes(p, [task[p] EXCEPT !.step = "announce", !.row = Len(incidents) + 1])
               /\ UNCHANGED <<doubt, pc, queue, latest>>
          ELSE Throws(p)
    BY <1>7 DEF InsertOutage
  <2>2. CASE Unresolved(incidents, w) # {}
    <3>1. /\ task' = [task EXCEPT ![p] = NoTask] /\ incidents' = incidents
          /\ doubt' = doubt \cup {task[p].on}
      BY <2>1, <2>2 DEF Throws, Becomes
    <3> QED BY <1>1, <3>1, TaskDropped
  <2>3. CASE Unresolved(incidents, w) = {}
    <3>1. PICK n, t : /\ n = Len(incidents) + 1
                      /\ t = [task[p] EXCEPT !.step = "announce", !.row = n]
      OBVIOUS
    <3>2. /\ incidents' = Opened(incidents, w) /\ task' = [task EXCEPT ![p] = t]
          /\ doubt' = doubt
      BY <2>1, <2>3, <3>1 DEF Becomes
    <3>3. w \in Workflows /\ w \in Problems /\ ConnectorOf[w] = c
      BY <1>4 DEF Workflows
    <3>4. /\ incidents' \in Seq(Incident) /\ DOMAIN incidents' = DOMAIN incidents \cup {n}
          /\ \A v : v # w => Unresolved(incidents', v) = Unresolved(incidents, v)
          /\ Unresolved(incidents', w) \subseteq Unresolved(incidents, w) \cup {n}
      <4>1. PICK rows, next : rows = incidents /\ next = Opened(rows, w) /\ next = incidents'
        BY <3>2
      <4>2. rows \in Seq(Incident)
        BY <1>0, <4>1 DEF AlarmTyped
      <4>3. /\ next \in Seq(Incident) /\ DOMAIN next = DOMAIN rows \cup {Len(rows) + 1}
            /\ \A v : v # w => Unresolved(next, v) = Unresolved(rows, v)
            /\ Unresolved(next, w) \subseteq Unresolved(rows, w) \cup {Len(rows) + 1}
        BY <3>3, <4>1, <4>2, OpenedDoes
      <4> QED BY <3>1, <4>1, <4>3
    <3>5. n \in Nat
      BY <1>0, <3>1 DEF AlarmTyped
    <3>6. /\ t \in Task /\ t.on = c /\ t.rest = task[p].rest /\ t.step = "announce" /\ t.row = n
      BY <1>3, <1>4, <3>1, <3>5 DEF Task, Recording
    <3>7. task'[p] = t /\ \A q \in Processes \ {p} : task'[q] = task[q]
      BY <1>0, <3>2 DEF AlarmTyped
    <3>8. AlarmTyped'
      <4>1. task' \in [Processes -> Task]
        BY <1>0, <3>2, <3>6 DEF AlarmTyped
      <4>2. \A q \in Processes :
               /\ task'[q].on = NoConnector => task'[q] = NoTask
               /\ \A v \in task'[q].rest : ConnectorOf[v] = task'[q].on
               /\ task'[q].step \in {"check", "write", "tell", "announce"} =>
                     task'[q].row \in DOMAIN incidents'
        BY <1>0, <1>4, <3>4, <3>6, <3>7, PollingAssumption DEF AlarmTyped
      <4>3. \A v \in Workflows : \A i, j \in Unresolved(incidents', v) : i = j
        BY <1>0, <2>3, <3>4 DEF AlarmTyped
      <4> QED BY <1>0, <1>1, <3>4, <4>1, <4>2, <4>3 DEF AlarmTyped
    <3>9. c \notin doubt => Answered(p, c)'
      BY <1>1, <1>5, <3>6, <3>7 DEF Answered, Recovering
    <3> QED BY <1>1, <1>3, <1>4, <3>2, <3>3, <3>4, <3>6, <3>8, <3>9, TaskStep
  <2> QED BY <2>2, <2>3
<1> QED BY <1>6, <1>7

\* An answer is heard by a process that has nothing else to do: if nobody else is at
\* work on the connector, it decides alone what follows.
LEMMA QuietOfHealth ==
    ASSUME QuietInv, NEW p \in Processes, NEW c \in Connectors, NEW h, NEW t \in Task,
           Free(p), WriteHealth(p, c, h), task' = [task EXCEPT ![p] = t],
           incidents' = incidents,
           \/ t = NoTask /\ h # "healthy"
           \/ /\ t.on = c /\ \A w \in t.rest : ConnectorOf[w] = c
              /\ \/ h = "healthy" /\ t.step \in {"own", "recover"} /\ t.rest = Affected(c)
                 \/ h # "healthy" /\ t.step = "record"
    PROVE  QuietInv'
<1>0. AlarmTyped
  BY DEF QuietInv
<1>1. /\ task'[p] = t /\ \A q \in Processes \ {p} : task'[q] = task[q]
      /\ task' \in [Processes -> Task]
  BY <1>0 DEF AlarmTyped
<1>2. NoTask.on = NoConnector /\ NoTask.rest = {} /\ NoTask.step = "none"
  BY DEF NoTask
<1>3. /\ health' = [d \in Connectors |-> health'[d]]
      /\ \A d \in Connectors : health'[d] = IF d = c THEN h ELSE health[d]
  BY <1>0 DEF AlarmTyped, WriteHealth
<1>4. AlarmTyped'
  <2>1. \A q \in Processes :
           /\ task'[q].on = NoConnector => task'[q] = NoTask
           /\ \A v \in task'[q].rest : ConnectorOf[v] = task'[q].on
           /\ task'[q].step \in {"check", "write", "tell", "announce"} =>
                 task'[q].row \in DOMAIN incidents'
    BY <1>0, <1>1, <1>2, PollingAssumption DEF AlarmTyped
  <2> QED BY <1>0, <1>1, <1>3, <2>1 DEF AlarmTyped
<1>5. ASSUME NEW d \in Connectors \ doubt', d # c PROVE Settled(d)'
  <2>1. Settled(d) /\ health'[d] = health[d]
    BY <1>3, <1>5 DEF QuietInv, WriteHealth
  <2>2. \A q \in Processes : task'[q] = task[q] \/ (task[q].on # d /\ task'[q].on # d)
    BY <1>1, <1>2, <1>5, PollingAssumption DEF Free
  <2> QED BY <1>5, <2>1, <2>2, SettledFrame
<1>6. ASSUME c \notin doubt' PROVE Settled(c)'
  <2>1. \A q \in Processes \ {p} : task'[q].on # c
    BY <1>1, <1>6 DEF WriteHealth, Contested
  <2>2. CASE t = NoTask /\ h # "healthy"
    <3>1. \A q \in Processes : task'[q].on # c
      BY <1>1, <1>2, <2>1, <2>2, PollingAssumption
    <3> QED BY <1>3, <2>2, <3>1 DEF Settled
  <2>3. CASE t.on = c /\ h = "healthy" /\ t.step \in {"own", "recover"} /\ t.rest = Affected(c)
    <3>1. Answered(p, c)'
      BY <1>1, <2>3 DEF Answered, Affected, Recording
    <3> QED BY <1>1, <2>1, <2>3, <3>1 DEF Settled
  <2>4. CASE t.on = c /\ h # "healthy" /\ t.step = "record"
    <3>1. Answered(p, c)'
      BY <1>1, <1>3, <2>4 DEF Answered, Recovering
    <3> QED BY <1>1, <2>1, <2>4, <3>1 DEF Settled
  <2> QED BY <2>2, <2>3, <2>4
<1> QED BY <1>4, <1>5, <1>6 DEF QuietInv

\* The tasks an answer begins.
LEMMA BegunIs ==
    ASSUME NEW c \in Connectors, NEW rest \in SUBSET Workflows, NEW step \in {"own", "recover", "record"}
    PROVE  /\ Begun(step, c, rest) \in Task /\ Begun(step, c, rest).on = c
           /\ Begun(step, c, rest).step = step /\ Begun(step, c, rest).rest = rest
BY DEF Begun, Task, Recovering, Recording

\* The answer of a poll.
LEMMA QuietOfArrive ==
    ASSUME QuietInv, LeaseInv, NEW p \in Processes, Arrive(p)
    PROVE  QuietInv'
<1>1. PICK w, c : w = cur[p] /\ c = ConnectorOf[w]
  OBVIOUS
<1>2. /\ Free(p) /\ WriteHealth(p, c, reply[p]) /\ incidents' = incidents
      /\ task' = [task EXCEPT ![p] = IF reply[p] = "healthy" THEN Begun("own", c, Affected(c))
                                     ELSE Begun("record", c, {w})]
  BY <1>1 DEF Arrive, Becomes
<1>3. w \in Workflows /\ c \in Connectors
  BY <1>1, PollingAssumption DEF Arrive, LeaseInv, ClaimTyped, AtWork
<1>4. Affected(c) \in SUBSET Workflows /\ {w} \in SUBSET Workflows
      /\ \A v \in Affected(c) \cup {w} : ConnectorOf[v] = c
  BY <1>1, <1>3 DEF Affected
<1>5. CASE reply[p] = "healthy"
  <2>1. PICK t : t = Begun("own", c, Affected(c))
    OBVIOUS
  <2>2. t \in Task /\ t.on = c /\ t.step = "own" /\ t.rest = Affected(c)
    BY <1>3, <1>4, <2>1, BegunIs
  <2>3. task' = [task EXCEPT ![p] = t] /\ WriteHealth(p, c, "healthy")
    BY <1>2, <1>5, <2>1
  <2>4. \A v \in t.rest : ConnectorOf[v] = c
    BY <1>4, <2>2
  <2> QED BY <1>2, <1>3, <2>2, <2>3, <2>4, QuietOfHealth
<1>6. CASE reply[p] # "healthy"
  <2>1. PICK t : t = Begun("record", c, {w})
    OBVIOUS
  <2>2. t \in Task /\ t.on = c /\ t.step = "record" /\ t.rest = {w}
    BY <1>3, <1>4, <2>1, BegunIs
  <2>3. task' = [task EXCEPT ![p] = t]
    BY <1>2, <1>6, <2>1
  <2> QED BY <1>2, <1>3, <1>4, <1>6, <2>2, <2>3, QuietOfHealth
<1> QED BY <1>5, <1>6

\* The answer to a test of the connector.
LEMMA QuietOfTest ==
    ASSUME QuietInv, NEW p \in Processes, NEW c \in Connectors, TestConnector(p, c)
    PROVE  QuietInv'
<1>0. AlarmTyped
  BY DEF QuietInv
<1>1. PICK h : h = condition[c].tested
  OBVIOUS
<1>2. /\ Free(p) /\ WriteHealth(p, c, h) /\ incidents' = incidents
      /\ IF h = "healthy" THEN task' = [task EXCEPT ![p] = Begun("recover", c, Affected(c))]
         ELSE task' = task
  BY <1>1 DEF TestConnector, Becomes
<1>3. CASE h = "healthy"
  <2>1. PICK t : t = Begun("recover", c, Affected(c))
    OBVIOUS
  <2>2. t \in Task /\ t.on = c /\ t.step = "recover" /\ t.rest = Affected(c)
    BY <2>1, BegunIs DEF Affected
  <2>3. \A w \in t.rest : ConnectorOf[w] = c
    BY <2>2 DEF Affected
  <2>4. task' = [task EXCEPT ![p] = t]
    BY <1>2, <1>3, <2>1
  <2> QED BY <1>2, <1>3, <2>2, <2>3, <2>4, QuietOfHealth
<1>4. CASE h # "healthy"
  <2>1. NoTask \in Task /\ task' = [task EXCEPT ![p] = NoTask]
    BY <1>0, <1>2, <1>4 DEF AlarmTyped, Free, NoTask, Task
  <2> QED BY <1>2, <1>4, <2>1, QuietOfHealth
<1> QED BY <1>3, <1>4

\* Every step keeps QuietInv.
LEMMA QuietStep == LeaseInv /\ QuietInv /\ [Next]_vars => QuietInv'
<1> SUFFICES ASSUME LeaseInv, QuietInv, [Next]_vars PROVE QuietInv'
  OBVIOUS
<1>1. ASSUME NEW p \in Processes, Step(p) PROVE QuietInv'
  <2>1. CASE Arrive(p)
    BY <2>1, QuietOfArrive
  <2>2. CASE AnswerStep(p)
    BY <2>2, QuietOfLookUp, QuietOfRecovery, QuietOfEnd, QuietOfRecord DEF AnswerStep
  <2>3. CASE ~Arrive(p) /\ ~AnswerStep(p)
    <3>1. UNCHANGED alarmVars
      BY <1>1, <2>3 DEF Step, StartTick, FinishTick, Claim, Begin, Answer, Ingest, Save, Finish
    <3> QED BY <3>1, QuietFrame
  <2> QED BY <2>1, <2>2, <2>3
<1>2. ASSUME NEW p \in Processes, Crash(p) PROVE QuietInv'
  <2>1. /\ task' = [task EXCEPT ![p] = NoTask] /\ UNCHANGED <<incidents, health>>
        /\ doubt' = IF Free(p) THEN doubt ELSE doubt \cup {task[p].on}
    BY <1>2 DEF Crash, Becomes
  <2>2. CASE Free(p)
    BY <2>1, <2>2, TaskDropped DEF Free
  <2>3. CASE ~Free(p)
    BY <2>1, <2>3, TaskDropped
  <2> QED BY <2>2, <2>3
<1>3. ASSUME NEW c \in Connectors, DisableConnector(c) PROVE QuietInv'
  BY <1>3, QuietFrame DEF DisableConnector
<1>4. ASSUME NEW c \in Connectors, NEW to \in Appearances, Turn(c, to) PROVE QuietInv'
  BY <1>4, QuietFrame DEF Turn
<1>5. ASSUME NEW w \in Workflows, ToggleContract(w) PROVE QuietInv'
  BY <1>5, QuietFrame DEF ToggleContract
<1>6. ASSUME NEW w \in Workflows, NEW id \in 1 .. MaxExecutions, NEW at \in 1 .. MaxExecutions,
             NEW bad \in BOOLEAN, Execute(w, id, at, bad)
      PROVE  QuietInv'
  BY <1>6, QuietFrame DEF Execute
<1>7. ASSUME Time \/ UNCHANGED vars PROVE QuietInv'
  BY <1>7, QuietFrame DEF Time, vars
<1> QED BY <1>1, <1>2, <1>3, <1>4, <1>5, <1>6, <1>7, QuietOfTest DEF Next

\* A connector shown as healthy has no unresolved incident, whichever of its
\* workflows met the outage, once the last answer about it has been seen through alone
\* (recordConnectorIncident, resolveN8nConnectorUnavailableIncidents).
THEOREM HealthyQuiet == Spec => []HealthyIsQuiet
<1>1. QuietInv => HealthyIsQuiet
  BY PollingAssumption DEF QuietInv, Settled, Quiet, HealthyIsQuiet
<1> QED BY <1>1, QuietInit, QuietStep, LeaseInvariant, PTL DEF Spec

-----------------------------------------------------------------------------
(* What n8n has, what is stored, and the checkpoint between                *)

\* Among the executions F that finished: x is not lost if it is in S, which is stored,
\* or in R, which is refused, or was overtaken.
Kept(x, S, R) ==
    \/ x \in S
    \/ x.id \in R
    \/ \E y \in S : y.at = x.at /\ y.id > x.id

\* What the checkpoint c has passed is kept, and what may still be stored does not
\* come before what is.
BookOK(F, S, R, c) ==
    /\ F \subseteq Executions
    /\ \A x, y \in F : x.id = y.id => x = y
    /\ S \subseteq F
    /\ c = NoExecution \/ c \in S
    /\ \A x \in F : Unseen(x, c) \/ Kept(x, S, R)
    /\ \A x \in F \ S : x.id \notin R /\ Unseen(x, c) => \A y \in S : y.at <= x.at

\* What is unseen and not on the page P came later.
PageOK(F, c, P) ==
    /\ P \subseteq F
    /\ \A x \in F \ P : Unseen(x, c) => \A y \in P : y.at <= x.at

\* The loop over the page has Q left and would save l.
LoopOK(S, R, c, P, Q, l) ==
    /\ Q \subseteq P
    /\ \A x \in Q : Unseen(x, c)
    /\ \A x \in P : Unseen(x, c) => x \in Q \/ x \in S \/ x.id \in R
    /\ l = c \/ (l \in S /\ l \in P /\ Unseen(l, c))

\* The numbers of an execution; the checkpoint at first is before all of them.
LEMMA ExecutionNumbers ==
    /\ \A x \in Executions : x.id \in Nat /\ x.at \in Nat /\ x.at > 0 /\ x.id > 0
    /\ \A x, y \in Executions : x.id = y.id /\ x.at = y.at => x = y
    /\ NoExecution.at = 0 /\ NoExecution \notin Executions
<1>1. MaxExecutions \in Nat
  BY PollingAssumption
<1>2. ASSUME NEW x \in Executions PROVE x.id \in Nat /\ x.at \in Nat /\ x.at > 0 /\ x.id > 0
  BY <1>1 DEF Executions
<1>3. ASSUME NEW x \in Executions, NEW y \in Executions, x.id = y.id, x.at = y.at PROVE x = y
  BY <1>3 DEF Executions
<1>4. NoExecution.at = 0
  BY DEF NoExecution
<1> QED BY <1>2, <1>3, <1>4

\* A new execution finishes last, perhaps with the last one: it is unseen or overtaken.
LEMMA BookGrows ==
    ASSUME NEW F, NEW S, NEW R, NEW c, BookOK(F, S, R, c),
           NEW z \in Executions, \A x \in F : x.id # z.id /\ x.at <= z.at,
           NEW R2, R \subseteq R2
    PROVE  BookOK(F \cup {z}, S, R2, c)
<1>1. /\ F \subseteq Executions /\ S \subseteq F /\ (c = NoExecution \/ c \in S)
      /\ \A x, y \in F : x.id = y.id => x = y
      /\ \A x \in F : Unseen(x, c) \/ Kept(x, S, R)
      /\ \A x \in F \ S : x.id \notin R /\ Unseen(x, c) => \A y \in S : y.at <= x.at
  BY DEF BookOK
<1>2. \A x, y \in F \cup {z} : x.id = y.id => x = y
  BY <1>1
<1>3. Unseen(z, c) \/ Kept(z, S, R2)
  <2>1. CASE c = NoExecution
    BY <2>1 DEF Unseen
  <2>2. CASE c \in S
    <3>1. c \in Executions /\ c.at <= z.at /\ c.id # z.id
      BY <1>1, <2>2
    <3>2. c.at < z.at \/ (c.at = z.at /\ (c.id < z.id \/ c.id > z.id))
      BY <3>1, ExecutionNumbers
    <3> QED BY <2>2, <3>2 DEF Unseen, Precedes, Kept
  <2> QED BY <1>1, <2>1, <2>2
<1>4. \A x \in F \cup {z} : Unseen(x, c) \/ Kept(x, S, R2)
  BY <1>1, <1>3 DEF Kept
<1>5. \A x \in (F \cup {z}) \ S :
         x.id \notin R2 /\ Unseen(x, c) => \A y \in S : y.at <= x.at
  BY <1>1
<1> QED BY <1>1, <1>2, <1>4, <1>5 DEF BookOK

\* Nothing is lost by being refused.
LEMMA BookRefuses ==
    ASSUME NEW F, NEW S, NEW R, NEW c, BookOK(F, S, R, c), NEW R2, R \subseteq R2
    PROVE  BookOK(F, S, R2, c)
BY DEF BookOK, Kept

\* The page is still what it was.
LEMMA PageGrows ==
    ASSUME NEW F, NEW c, NEW P, PageOK(F, c, P), NEW z, \A x \in F : x.at <= z.at
    PROVE  PageOK(F \cup {z}, c, P)
BY DEF PageOK

LEMMA LoopRefuses ==
    ASSUME NEW S, NEW R, NEW c, NEW P, NEW Q, NEW l, LoopOK(S, R, c, P, Q, l),
           NEW R2, R \subseteq R2
    PROVE  LoopOK(S, R2, c, P, Q, l)
BY DEF LoopOK

\* The oldest execution that is left is taken: nothing stored is younger.
LEMMA TakesOldest ==
    ASSUME NEW F, NEW S, NEW R, NEW c, NEW P, NEW Q, NEW l,
           BookOK(F, S, R, c), PageOK(F, c, P), LoopOK(S, R, c, P, Q, l),
           NEW x \in Q, \A y \in Q : x.at <= y.at,
           NEW S2, S2 = IF x.id \in R \/ x \in S THEN S ELSE S \cup {x},
           NEW l2, l2 = IF x.id \in R THEN l ELSE x
    PROVE  /\ BookOK(F, S2, R, c) /\ LoopOK(S2, R, c, P, Q \ {x}, l2)
           /\ x.id \notin R /\ x \notin S => \A y \in S : y.at <= x.at
<1>1. /\ F \subseteq Executions /\ S \subseteq F /\ (c = NoExecution \/ c \in S)
      /\ \A v, y \in F : v.id = y.id => v = y
      /\ \A v \in F : Unseen(v, c) \/ Kept(v, S, R)
      /\ \A v \in F \ S : v.id \notin R /\ Unseen(v, c) => \A y \in S : y.at <= v.at
  BY DEF BookOK
<1>2. /\ P \subseteq F
      /\ \A v \in F \ P : Unseen(v, c) => \A y \in P : y.at <= v.at
  BY DEF PageOK
<1>3. /\ Q \subseteq P
      /\ \A v \in Q : Unseen(v, c)
      /\ \A v \in P : Unseen(v, c) => v \in Q \/ v \in S \/ v.id \in R
      /\ l = c \/ (l \in S /\ l \in P /\ Unseen(l, c))
  BY DEF LoopOK
<1>4. x \in P /\ x \in F /\ Unseen(x, c)
  BY <1>2, <1>3
<1>5. x.id \notin R /\ x \notin S => \A y \in S : y.at <= x.at
  BY <1>1, <1>4
<1>6. S \subseteq S2 /\ S2 \subseteq S \cup {x} /\ (x \in S2 \/ x.id \in R)
  OBVIOUS
<1>7. ASSUME NEW v \in F \ S2, v.id \notin R, Unseen(v, c) PROVE x.at <= v.at
  <2>1. CASE v \in P
    BY <1>3, <1>6, <1>7, <2>1
  <2>2. CASE v \notin P
    BY <1>2, <1>4, <1>7, <2>2
  <2> QED BY <2>1, <2>2
<1>8. \A v \in F \ S2 : v.id \notin R /\ Unseen(v, c) => \A y \in S2 : y.at <= v.at
  BY <1>1, <1>6, <1>7
<1>9. \A v \in F : Unseen(v, c) \/ Kept(v, S2, R)
  BY <1>1, <1>6 DEF Kept
<1>10. BookOK(F, S2, R, c)
  BY <1>1, <1>4, <1>6, <1>8, <1>9 DEF BookOK
<1>11. l2 = c \/ (l2 \in S2 /\ l2 \in P /\ Unseen(l2, c))
  BY <1>3, <1>4, <1>6
<1>12. LoopOK(S2, R, c, P, Q \ {x}, l2)
  BY <1>3, <1>6, <1>11 DEF LoopOK
<1> QED BY <1>5, <1>10, <1>12

\* The checkpoint moves on when the page is done: what it passes is stored, refused or
\* was not on the page, and then it is of the same millisecond and has a smaller id.
LEMMA SavesLatest ==
    ASSUME NEW F, NEW S, NEW R, NEW c, NEW P, NEW l,
           BookOK(F, S, R, c), PageOK(F, c, P), LoopOK(S, R, c, P, {}, l)
    PROVE  BookOK(F, S, R, l)
<1>1. /\ F \subseteq Executions /\ S \subseteq F /\ (c = NoExecution \/ c \in S)
      /\ \A v, y \in F : v.id = y.id => v = y
      /\ \A v \in F : Unseen(v, c) \/ Kept(v, S, R)
      /\ \A v \in F \ S : v.id \notin R /\ Unseen(v, c) => \A y \in S : y.at <= v.at
  BY DEF BookOK
<1>2. /\ P \subseteq F
      /\ \A v \in F \ P : Unseen(v, c) => \A y \in P : y.at <= v.at
  BY DEF PageOK
<1>3. /\ \A v \in P : Unseen(v, c) => v \in S \/ v.id \in R
      /\ l = c \/ (l \in S /\ l \in P /\ Unseen(l, c))
  BY DEF LoopOK
<1>4. CASE l = c
  BY <1>4
<1>5. CASE l \in S /\ l \in P /\ Unseen(l, c)
  <2>1. l \in Executions /\ l # NoExecution
    BY <1>1, <1>5, ExecutionNumbers
  <2>2. ASSUME NEW v \in F, Unseen(v, l) PROVE Unseen(v, c)
    <3>1. v \in Executions /\ (c = NoExecution \/ c \in Executions)
      BY <1>1
    <3> QED BY <1>5, <2>1, <2>2, <3>1, ExecutionNumbers DEF Unseen, Precedes
  <2>3. ASSUME NEW v \in F, ~Unseen(v, l) PROVE Kept(v, S, R)
    <3>1. CASE ~Unseen(v, c)
      BY <1>1, <3>1
    <3>2. CASE Unseen(v, c) /\ v \in P
      BY <1>3, <3>2 DEF Kept
    <3>3. CASE Unseen(v, c) /\ v \notin P
      <4>1. l.at <= v.at /\ v \in Executions /\ v # l
        BY <1>1, <1>2, <1>5, <3>3
      <4>2. v.id # l.id
        BY <1>1, <1>5, <4>1
      <4>3. l.at = v.at /\ l.id > v.id
        BY <2>1, <2>3, <4>1, <4>2, ExecutionNumbers DEF Unseen, Precedes
      <4> QED BY <1>5, <4>3 DEF Kept
    <3> QED BY <3>1, <3>2, <3>3
  <2>4. \A v \in F \ S : v.id \notin R /\ Unseen(v, l) => \A y \in S : y.at <= v.at
    BY <1>1, <2>2
  <2> QED BY <1>1, <1>5, <2>3, <2>4 DEF BookOK
<1> QED BY <1>3, <1>4, <1>5

\* Rows in the order in which they finished.
RowsOK(rows) ==
    /\ rows \in Seq(Executions)
    /\ \A i, j \in DOMAIN rows : i < j => rows[i].at <= rows[j].at

\* A row that is not older than the others is appended.
LEMMA RowsGrow ==
    ASSUME NEW rows, RowsOK(rows), NEW x \in Executions, \A y \in ToSet(rows) : y.at <= x.at
    PROVE  RowsOK(Append(rows, x)) /\ ToSet(Append(rows, x)) = ToSet(rows) \cup {x}
<1>1. rows \in Seq(Executions) /\ \A i, j \in DOMAIN rows : i < j => rows[i].at <= rows[j].at
  BY DEF RowsOK
<1>2. PICK n \in Nat : n = Len(rows)
  BY <1>1
<1>3. PICK next : next = Append(rows, x)
  OBVIOUS
<1>4. /\ next \in Seq(Executions) /\ DOMAIN rows = 1 .. n /\ DOMAIN next = 1 .. n + 1
      /\ next[n + 1] = x /\ \A i \in 1 .. n : next[i] = rows[i]
  BY <1>1, <1>2, <1>3
<1>5. \A i \in 1 .. n + 1 : i \in 1 .. n \/ i = n + 1
  OBVIOUS
<1>6. ToSet(next) = ToSet(rows) \cup {x}
  BY <1>4, <1>5 DEF ToSet
<1>7. ASSUME NEW i \in DOMAIN next, NEW j \in DOMAIN next, i < j
      PROVE  next[i].at <= next[j].at
  <2>1. i \in 1 .. n
    BY <1>4, <1>7
  <2>2. CASE j = n + 1
    BY <1>4, <2>1, <2>2 DEF ToSet
  <2>3. CASE j \in 1 .. n
    BY <1>1, <1>4, <1>7, <2>1, <2>3
  <2> QED BY <1>4, <1>5, <2>2, <2>3
<1> QED BY <1>3, <1>4, <1>6, <1>7 DEF RowsOK

\* The last row is the youngest.
LEMMA LastIsYoungest ==
    ASSUME NEW rows, RowsOK(rows), NEW x \in ToSet(rows)
    PROVE  rows # <<>> /\ x.at <= Last(rows).at /\ Last(rows) \in Executions
<1>1. rows \in Seq(Executions) /\ \A i, j \in DOMAIN rows : i < j => rows[i].at <= rows[j].at
  BY DEF RowsOK
<1>2. PICK n \in Nat : n = Len(rows) /\ DOMAIN rows = 1 .. n
  BY <1>1
<1>3. PICK i \in 1 .. n : x = rows[i]
  BY <1>2 DEF ToSet
<1>4. n \in DOMAIN rows /\ rows # <<>> /\ Last(rows) = rows[n]
  BY <1>2, <1>3 DEF Last
<1>5. rows[i] \in Executions /\ rows[n] \in Executions
  BY <1>1, <1>2, <1>3, <1>4
<1>6. CASE i = n
  BY <1>3, <1>4, <1>5, <1>6, ExecutionNumbers
<1>7. CASE i < n
  BY <1>1, <1>2, <1>3, <1>4, <1>5, <1>7
<1> QED BY <1>3, <1>4, <1>5, <1>6, <1>7

-----------------------------------------------------------------------------
(* What is lost                                                            *)

PerProcess(f) == f = [p \in Processes |-> f[p]]
PerWorkflow(f) == f = [w \in Workflows |-> f[w]]

\* The evidence of workflow w.
Evidence(w) ==
    /\ RowsOK(finished[w]) /\ RowsOK(stored[w])
    /\ BookOK(ToSet(finished[w]), ToSet(stored[w]), refused, checkpoint[w])

\* Where process p is with the page of its workflow.
Poll(p) ==
    /\ pc[p] \in {"arrived", "answer", "ingest"} =>
          PageOK(ToSet(finished[cur[p]]), checkpoint[cur[p]], page[p])
    /\ pc[p] = "ingest" =>
          LoopOK(ToSet(stored[cur[p]]), refused, checkpoint[cur[p]], page[p], queue[p],
                 latest[p])

LossTyped ==
    /\ PerProcess(page) /\ PerProcess(queue) /\ PerProcess(latest)
    /\ PerWorkflow(finished) /\ PerWorkflow(stored) /\ PerWorkflow(checkpoint)
    /\ \A p \in Processes : age[p] <= MaxTick

LossInv ==
    /\ LossTyped
    /\ \A w \in Workflows : Evidence(w)
    /\ \A p \in Processes : Poll(p)

\* A page of n8n lists whatever has finished since the checkpoint.
PagesReachBack ==
    \A p \in Processes :
        pc[p] = "await" =>
            \A x \in ToSet(finished[cur[p]]) :
                Unseen(x, checkpoint[cur[p]]) => x \in Page(cur[p])

\* What the property asks for.
LEMMA LossIsNone == LossInv => NothingLost
<1> SUFFICES ASSUME LossInv, NEW w \in Workflows
             PROVE  /\ \A x \in ToSet(finished[w]) :
                          x.at < checkpoint[w].at =>
                             x \in ToSet(stored[w]) \/ x.id \in refused \/ Overtaken(x, w)
                    /\ \A i, j \in DOMAIN stored[w] :
                          i < j => stored[w][i].at <= stored[w][j].at
  BY DEF NothingLost
<1>1. Evidence(w)
  BY DEF LossInv
<1>2. PICK F, S, R, c : /\ F = ToSet(finished[w]) /\ S = ToSet(stored[w]) /\ R = refused
                        /\ c = checkpoint[w]
  OBVIOUS
<1>3. BookOK(F, S, R, c)
  BY <1>1, <1>2 DEF Evidence
<1>4. ASSUME NEW x \in F, x.at < c.at PROVE Kept(x, S, R)
  <2>1. /\ x \in Executions /\ (c = NoExecution \/ c \in Executions)
        /\ Unseen(x, c) \/ Kept(x, S, R)
    BY <1>3 DEF BookOK
  <2>2. ~Unseen(x, c)
    BY <1>4, <2>1, ExecutionNumbers DEF Unseen, Precedes
  <2> QED BY <2>1, <2>2
<1>5. \A i, j \in DOMAIN stored[w] : i < j => stored[w][i].at <= stored[w][j].at
  BY <1>1 DEF Evidence, RowsOK
<1> QED BY <1>2, <1>4, <1>5 DEF Kept, Overtaken

\* Nothing is lost at first.
LEMMA LossInit == Init => LossInv
<1> SUFFICES ASSUME Init PROVE LossInv
  OBVIOUS
<1>1. LossTyped
  BY PollingAssumption DEF Init, LossTyped, PerProcess, PerWorkflow
<1>2. ASSUME NEW w \in Workflows PROVE Evidence(w)
  <2>1. finished[w] = <<>> /\ stored[w] = <<>> /\ checkpoint[w] = NoExecution
    BY DEF Init
  <2>2. RowsOK(<<>>) /\ ToSet(<<>>) = {}
    BY DEF RowsOK, ToSet
  <2>3. BookOK({}, {}, refused, NoExecution)
    BY DEF BookOK
  <2> QED BY <2>1, <2>2, <2>3 DEF Evidence
<1>3. ASSUME NEW p \in Processes PROVE Poll(p)
  BY DEF Init, Poll
<1> QED BY <1>1, <1>2, <1>3 DEF LossInv

\* Two processes are not at one workflow.
LEMMA OneAtWork ==
    ASSUME MaxTick <= ClaimTtl, LeaseInv, LossTyped,
           NEW p \in Processes, NEW q \in Processes, cur[p] \in Workflows, cur[p] = cur[q]
    PROVE  p = q
<1>1. age[p] \in Nat /\ age[q] \in Nat /\ age[p] <= MaxTick /\ age[q] <= MaxTick
  BY DEF LeaseInv, ClaimTyped, LossTyped
<1>2. age[p] <= ClaimTtl /\ age[q] <= ClaimTtl
  BY <1>1, PollingAssumption
<1> QED BY <1>2 DEF LeaseInv

\* A step that leaves the evidence of a workflow leaves the evidence.
LEMMA EvidenceStays ==
    ASSUME NEW w \in Workflows, Evidence(w), refused' = refused,
           finished'[w] = finished[w], stored'[w] = stored[w], checkpoint'[w] = checkpoint[w]
    PROVE  Evidence(w)'
BY DEF Evidence

\* And the page of whoever does not read or save anything.
LEMMA PollStays ==
    ASSUME NEW p \in Processes, Poll(p), refused' = refused,
           pc'[p] \in {"arrived", "answer", "ingest"} =>
              /\ pc[p] = pc'[p] /\ cur'[p] = cur[p] /\ page'[p] = page[p]
              /\ queue'[p] = queue[p] /\ latest'[p] = latest[p]
              /\ finished'[cur[p]] = finished[cur[p]] /\ stored'[cur[p]] = stored[cur[p]]
              /\ checkpoint'[cur[p]] = checkpoint[cur[p]]
    PROVE  Poll(p)'
BY DEF Poll

\* What one process or workflow has is changed.
LEMMA UpdatedOne ==
    ASSUME NEW D, NEW f, f = [x \in D |-> f[x]], NEW d \in D, NEW y,
           NEW next, next = [f EXCEPT ![d] = y]
    PROVE  /\ next = [x \in D |-> next[x]] /\ next[d] = y
           /\ \A x \in D \ {d} : next[x] = f[x]
<1>1. next = [x \in D |-> IF x = d THEN y ELSE f[x]]
  OBVIOUS
<1> QED BY <1>1

\* The other processes stay where they are.
Others(p) ==
    \A q \in Processes \ {p} :
        /\ pc'[q] = pc[q] /\ cur'[q] = cur[q] /\ page'[q] = page[q]
        /\ queue'[q] = queue[q] /\ latest'[q] = latest[q]

\* A process changes the evidence of its own workflow at most, and nobody else is there.
LEMMA StepLoss ==
    ASSUME MaxTick <= ClaimTtl, LeaseInv, LossInv, NEW p \in Processes, LossTyped', Others(p),
           UNCHANGED <<finished, refused>>,
           \A w \in Workflows \ {cur[p]} :
              stored'[w] = stored[w] /\ checkpoint'[w] = checkpoint[w],
           \A v \in Workflows : v = cur[p] => Evidence(v)',
           Poll(p)'
    PROVE  LossInv'
<1>1. ASSUME NEW w \in Workflows PROVE Evidence(w)'
  <2>1. CASE w = cur[p]
    BY <2>1
  <2>2. CASE w # cur[p]
    BY <2>2, EvidenceStays DEF LossInv
  <2> QED BY <2>1, <2>2
<1>2. ASSUME NEW q \in Processes PROVE Poll(q)'
  <2>1. CASE q = p
    BY <2>1
  <2>2. CASE q # p
    <3>1. Poll(q) /\ LossTyped
      BY DEF LossInv
    <3>2. ASSUME pc'[q] \in {"arrived", "answer", "ingest"}
          PROVE  stored'[cur[q]] = stored[cur[q]] /\ checkpoint'[cur[q]] = checkpoint[cur[q]]
      <4>1. pc[q] \in {"arrived", "answer", "ingest"}
        BY <2>2, <3>2 DEF Others
      <4>2. cur[q] \in Workflows
        BY <4>1 DEF LeaseInv, ClaimTyped, AtWork
      <4>3. cur[q] # cur[p]
        BY <2>2, <3>1, <4>2, OneAtWork
      <4> QED BY <4>2, <4>3
    <3> QED BY <2>2, <3>1, <3>2, PollStays DEF Others
  <2> QED BY <2>1, <2>2
<1> QED BY <1>1, <1>2 DEF LossInv

\* What a process forgets is its own.
LEMMA Forgets ==
    ASSUME LossTyped, NEW p \in Processes, ForgetPoll(p)
    PROVE  /\ PerProcess(page)' /\ PerProcess(queue)' /\ PerProcess(latest)'
           /\ \A q \in Processes \ {p} :
                 page'[q] = page[q] /\ queue'[q] = queue[q] /\ latest'[q] = latest[q]
<1>1. PerProcess(page) /\ PerProcess(queue) /\ PerProcess(latest)
  BY DEF LossTyped
<1>2. PerProcess(page)' /\ \A q \in Processes \ {p} : page'[q] = page[q]
  <2>1. page' = [page EXCEPT ![p] = {}]
    BY DEF ForgetPoll
  <2> QED BY <1>1, <2>1, UpdatedOne DEF PerProcess
<1>3. PerProcess(queue)' /\ \A q \in Processes \ {p} : queue'[q] = queue[q]
  <2>1. queue' = [queue EXCEPT ![p] = {}]
    BY DEF ForgetPoll
  <2> QED BY <1>1, <2>1, UpdatedOne DEF PerProcess
<1>4. PerProcess(latest)' /\ \A q \in Processes \ {p} : latest'[q] = latest[q]
  <2>1. latest' = [latest EXCEPT ![p] = NoExecution]
    BY DEF ForgetPoll
  <2> QED BY <1>1, <2>1, UpdatedOne DEF PerProcess
<1> QED BY <1>2, <1>3, <1>4

\* The steps about claims touch no evidence.
LEMMA ClaimsLose ==
    ASSUME MaxTick <= ClaimTtl, LeaseInv, LossInv, NEW p \in Processes,
           \/ StartTick(p) \/ FinishTick(p) \/ Claim(p) \/ Begin(p) \/ Finish(p) \/ Crash(p)
    PROVE  LossInv'
<1>0. LossTyped /\ MaxTick \in Nat
  BY PollingAssumption DEF LossInv
<1>1. /\ pc \in [Processes -> Place] /\ cur \in [Processes -> Workflows \cup {NoWorkflow}]
      /\ age \in [Processes -> Nat]
  BY DEF LeaseInv, ClaimTyped
<1>2. UNCHANGED <<finished, refused, stored, checkpoint>>
  BY DEF StartTick, FinishTick, Claim, Begin, Finish, Crash, worldVars
<1>3. /\ pc'[p] \notin {"arrived", "answer", "ingest"}
      /\ \A q \in Processes \ {p} : pc'[q] = pc[q] /\ cur'[q] = cur[q]
      /\ \A q \in Processes : age'[q] = age[q] \/ age'[q] = 0
  <2>1. CASE StartTick(p) \/ FinishTick(p)
    BY <1>1, <2>1 DEF StartTick, FinishTick, Goto
  <2>2. CASE Claim(p)
    BY <1>1, <2>2 DEF Claim, Goto
  <2>3. CASE Begin(p)
    BY <1>1, <2>3 DEF Begin, Goto
  <2>4. CASE Finish(p) \/ Crash(p)
    BY <1>1, <2>4 DEF Finish, Crash, Goto, ForgetPoll
  <2> QED BY <2>1, <2>2, <2>3, <2>4
<1>4. /\ PerProcess(page)' /\ PerProcess(queue)' /\ PerProcess(latest)'
      /\ \A q \in Processes \ {p} :
            page'[q] = page[q] /\ queue'[q] = queue[q] /\ latest'[q] = latest[q]
  <2>1. CASE StartTick(p) \/ FinishTick(p) \/ Claim(p) \/ Begin(p)
    <3>1. UNCHANGED <<page, queue, latest>>
      BY <2>1 DEF StartTick, FinishTick, Claim, Begin, pollVars
    <3> QED BY <1>0, <3>1 DEF LossTyped, PerProcess
  <2>2. CASE Finish(p) \/ Crash(p)
    BY <1>0, <2>2, Forgets DEF Finish, Crash
  <2> QED BY <2>1, <2>2
<1>5. LossTyped'
  BY <1>0, <1>2, <1>3, <1>4 DEF LossTyped, PerWorkflow
<1>6. \A v \in Workflows : Evidence(v)'
  BY <1>2, EvidenceStays DEF LossInv
<1>7. Poll(p)'
  BY <1>3 DEF Poll
<1> QED BY <1>2, <1>3, <1>4, <1>5, <1>6, <1>7, StepLoss DEF Others

\* A page that reaches back is not less than it seems.
LEMMA AnswerLoss ==
    ASSUME MaxTick <= ClaimTtl, LeaseInv, LossInv, PagesReachBack, NEW p \in Processes, Answer(p)
    PROVE  LossInv'
<1>0. LossTyped
  BY DEF LossInv
<1>1. /\ pc \in [Processes -> Place] /\ pc[p] = "await" /\ cur[p] \in Workflows
      /\ pc' = [pc EXCEPT ![p] = "arrived"]
      /\ UNCHANGED <<finished, refused, stored, checkpoint, cur, age, queue, latest>>
      /\ page' = [page EXCEPT ![p] = IF reply'[p] = "healthy" THEN Page(cur[p]) ELSE {}]
  BY DEF Answer, Goto, worldVars, LeaseInv, ClaimTyped, AtWork
<1>2. /\ PerProcess(page)' /\ \A q \in Processes \ {p} : page'[q] = page[q]
      /\ page'[p] = IF reply'[p] = "healthy" THEN Page(cur[p]) ELSE {}
  BY <1>0, <1>1, UpdatedOne DEF LossTyped, PerProcess
<1>3. pc'[p] = "arrived" /\ \A q \in Processes \ {p} : pc'[q] = pc[q]
  BY <1>1
<1>4. LossTyped'
  BY <1>0, <1>1, <1>2 DEF LossTyped, PerWorkflow, PerProcess
<1>5. \A v \in Workflows : Evidence(v)'
  BY <1>1, EvidenceStays DEF LossInv
<1>6. PICK F, c, P : F = ToSet(finished[cur[p]]) /\ c = checkpoint[cur[p]] /\ P = page'[p]
  OBVIOUS
<1>7. PageOK(F, c, P)
  <2>1. CASE P = {}
    BY <2>1 DEF PageOK
  <2>2. CASE P = Page(cur[p])
    <3>1. P \subseteq F
      BY <1>6, <2>2 DEF Page
    <3>2. \A x \in F : Unseen(x, c) => x \in P
      BY <1>1, <1>6, <2>2 DEF PagesReachBack
    <3> QED BY <3>1, <3>2 DEF PageOK
  <2> QED BY <1>2, <1>6, <2>1, <2>2
<1>8. Poll(p)'
  BY <1>1, <1>3, <1>6, <1>7 DEF Poll
<1> QED BY <1>1, <1>2, <1>3, <1>4, <1>5, <1>8, StepLoss DEF Others

\* The page is kept while the incidents are seen to; what is unseen on it is what the
\* loop then has before it.
LEMMA ArriveLoss ==
    ASSUME MaxTick <= ClaimTtl, LeaseInv, LossInv, NEW p \in Processes,
           Arrive(p) \/ AnswerStep(p)
    PROVE  LossInv'
<1>0. LossTyped
  BY DEF LossInv
<1>1. /\ pc \in [Processes -> Place]
      /\ UNCHANGED <<finished, refused, stored, checkpoint, cur, age, page>>
  BY AnswerDoes DEF Arrive, worldVars, pollVars, LeaseInv, ClaimTyped
<1>2. \A v \in Workflows : Evidence(v)'
  BY <1>1, EvidenceStays DEF LossInv
<1>3. CASE pc[p] = "answer" /\ AnswerStep(p) /\ pc' = [pc EXCEPT ![p] = "ingest"]
  <2> DEFINE unseen == {x \in page[p] : Unseen(x, checkpoint[cur[p]])}
  <2>0. cur[p] \in Workflows /\ pc'[p] = "ingest" /\ pc' # pc
    BY <1>1, <1>3 DEF LeaseInv, ClaimTyped, AtWork
  <2>1. /\ queue' = [queue EXCEPT ![p] = unseen]
        /\ latest' = [latest EXCEPT ![p] = checkpoint[cur[p]]]
    BY <1>1, <1>3, <2>0, AnswerDoes
  <2> HIDE DEF unseen
  <2>2. /\ PerProcess(queue)' /\ queue'[p] = unseen
        /\ \A q \in Processes \ {p} : queue'[q] = queue[q]
    BY <1>0, <2>1, UpdatedOne DEF LossTyped, PerProcess
  <2>3. /\ PerProcess(latest)' /\ latest'[p] = checkpoint[cur[p]]
        /\ \A q \in Processes \ {p} : latest'[q] = latest[q]
    BY <1>0, <2>1, UpdatedOne DEF LossTyped, PerProcess
  <2>4. pc'[p] = "ingest" /\ \A q \in Processes \ {p} : pc'[q] = pc[q]
    BY <1>1, <1>3
  <2>5. LossTyped'
    BY <1>0, <1>1, <2>2, <2>3 DEF LossTyped, PerWorkflow, PerProcess
  <2>6. PICK F, S, R, c, P, Q : /\ F = ToSet(finished[cur[p]]) /\ S = ToSet(stored[cur[p]])
                                /\ R = refused /\ c = checkpoint[cur[p]]
                                /\ P = page[p] /\ Q = unseen
    OBVIOUS
  <2>7. PageOK(F, c, P)
    BY <1>1, <1>3, <2>6 DEF LossInv, Poll
  <2>8. LoopOK(S, R, c, P, Q, c)
    BY <2>6 DEF LoopOK, unseen
  <2>9. Poll(p)'
    BY <1>1, <2>2, <2>3, <2>4, <2>6, <2>7, <2>8 DEF Poll
  <2> QED BY <1>1, <1>2, <2>2, <2>3, <2>4, <2>5, <2>9, StepLoss DEF Others
<1>4. CASE /\ UNCHANGED <<queue, latest>>
           /\ \A q \in Processes \ {p} : pc'[q] = pc[q]
           /\ \/ pc'[p] = pc[p]
              \/ pc[p] = "arrived" /\ pc'[p] = "answer"
              \/ pc'[p] = "finish"
  <2>1. LossTyped'
    BY <1>0, <1>1, <1>4 DEF LossTyped, PerWorkflow, PerProcess
  <2>2. Poll(p)'
    BY <1>1, <1>4 DEF LossInv, Poll
  <2> QED BY <1>1, <1>2, <1>4, <2>1, <2>2, StepLoss DEF Others
<1>5. CASE Arrive(p)
  <2>1. pc[p] = "arrived" /\ pc' = [pc EXCEPT ![p] = "answer"] /\ UNCHANGED <<queue, latest>>
    BY <1>5 DEF Arrive, Goto, pollVars
  <2> QED BY <1>1, <1>4, <2>1
<1>6. CASE AnswerStep(p)
  BY <1>1, <1>3, <1>4, <1>6, AnswerDoes
<1> QED BY <1>5, <1>6

\* One execution of the page is ingested.
LEMMA IngestLoss ==
    ASSUME MaxTick <= ClaimTtl, LeaseInv, LossInv, NEW p \in Processes, Ingest(p)
    PROVE  LossInv'
<1>0. LossTyped
  BY DEF LossInv
<1>1. /\ pc \in [Processes -> Place] /\ pc[p] = "ingest" /\ cur[p] \in Workflows
      /\ UNCHANGED <<finished, refused, checkpoint, cur, age, page>>
  BY DEF Ingest, worldVars, LeaseInv, ClaimTyped, AtWork
<1>2. CASE ~active[cur[p]]
  <2>1. UNCHANGED <<queue, latest, stored>> /\ pc' = [pc EXCEPT ![p] = "finish"]
    BY <1>2 DEF Ingest, IngestInactive, Goto
  <2>2. pc'[p] = "finish" /\ \A q \in Processes \ {p} : pc'[q] = pc[q]
    BY <1>1, <2>1
  <2>3. LossTyped'
    BY <1>0, <1>1, <2>1 DEF LossTyped, PerWorkflow, PerProcess
  <2>4. \A v \in Workflows : Evidence(v)'
    BY <1>1, <2>1, EvidenceStays DEF LossInv
  <2>5. Poll(p)'
    BY <2>2 DEF Poll
  <2> QED BY <1>1, <2>1, <2>2, <2>3, <2>4, <2>5, StepLoss DEF Others
<1>3. CASE active[cur[p]]
  <2>0. PICK w \in Workflows : w = cur[p]
    BY <1>1
  <2>1. PICK x \in Oldest(queue[p]) : IngestOne(p, w, x)
    BY <1>3, <2>0 DEF Ingest
  <2>2. PICK F, rows, S, R, c, P, Q, l :
           /\ F = ToSet(finished[w]) /\ rows = stored[w] /\ S = ToSet(rows) /\ R = refused
           /\ c = checkpoint[w] /\ P = page[p] /\ Q = queue[p] /\ l = latest[p]
    OBVIOUS
  <2>3. x \in Q /\ \A y \in Q : x.at <= y.at
    BY <2>1, <2>2 DEF Oldest
  <2>4. BookOK(F, S, R, c) /\ RowsOK(rows) /\ PageOK(F, c, P) /\ LoopOK(S, R, c, P, Q, l)
    BY <1>1, <2>0, <2>2 DEF LossInv, Evidence, Poll
  <2>5. PICK S2, l2 : /\ S2 = (IF x.id \in R \/ x \in S THEN S ELSE S \cup {x})
                      /\ l2 = (IF x.id \in R THEN l ELSE x)
    OBVIOUS
  <2>6. /\ BookOK(F, S2, R, c) /\ LoopOK(S2, R, c, P, Q \ {x}, l2)
        /\ x.id \notin R /\ x \notin S => \A y \in S : y.at <= x.at
    BY <2>3, <2>4, <2>5, TakesOldest
  <2>7. x \in Executions
    BY <2>3, <2>4 DEF LoopOK, PageOK, BookOK
  <2>8. /\ pc' = pc
        /\ queue' = [queue EXCEPT ![p] = Q \ {x}]
        /\ latest' = [latest EXCEPT ![p] = l2]
    BY <2>1, <2>2, <2>5 DEF IngestOne, Latest
  <2>9. /\ PerProcess(queue)' /\ queue'[p] = Q \ {x}
        /\ \A q \in Processes \ {p} : queue'[q] = queue[q]
    BY <1>0, <2>8, UpdatedOne DEF LossTyped, PerProcess
  <2>10. /\ PerProcess(latest)' /\ latest'[p] = l2
         /\ \A q \in Processes \ {p} : latest'[q] = latest[q]
    BY <1>0, <2>8, UpdatedOne DEF LossTyped, PerProcess
  <2>11. PICK next : next = IF x.id \in R \/ x \in S THEN rows ELSE Append(rows, x)
    OBVIOUS
  <2>12. RowsOK(next) /\ ToSet(next) = S2
    <3>1. CASE x.id \in R \/ x \in S
      BY <2>2, <2>4, <2>5, <2>11, <3>1
    <3>2. CASE ~(x.id \in R \/ x \in S)
      BY <2>2, <2>4, <2>5, <2>6, <2>7, <2>11, <3>2, RowsGrow
    <3> QED BY <3>1, <3>2
  <2>13. /\ PerWorkflow(stored)' /\ stored'[w] = next
         /\ \A v \in Workflows \ {w} : stored'[v] = stored[v]
    <3>1. PerWorkflow(stored)
      BY <1>0 DEF LossTyped
    <3>2. CASE x.id \in R \/ x \in S
      <4>1. stored' = stored
        BY <2>1, <2>2, <3>2 DEF IngestOne
      <4> QED BY <2>2, <2>11, <3>1, <3>2, <4>1 DEF PerWorkflow
    <3>3. CASE ~(x.id \in R \/ x \in S)
      <4>1. stored' = [stored EXCEPT ![w] = next]
        BY <2>1, <2>2, <2>11, <3>3 DEF IngestOne
      <4> QED BY <2>0, <3>1, <4>1, UpdatedOne DEF PerWorkflow
    <3> QED BY <3>2, <3>3
  <2>14. LossTyped'
    BY <1>0, <1>1, <2>9, <2>10, <2>13 DEF LossTyped, PerWorkflow, PerProcess
  <2>15. Evidence(w)'
    <3>1. RowsOK(finished[w])
      BY DEF LossInv, Evidence
    <3> QED BY <1>1, <2>2, <2>6, <2>12, <2>13, <3>1 DEF Evidence
  <2>16. Poll(p)'
    BY <1>1, <2>0, <2>2, <2>4, <2>6, <2>8, <2>9, <2>10, <2>12, <2>13 DEF Poll
  <2>17. \A v \in Workflows \ {cur[p]} : stored'[v] = stored[v] /\ checkpoint'[v] = checkpoint[v]
    BY <1>1, <2>0, <2>13
  <2>18. \A v \in Workflows : v = cur[p] => Evidence(v)'
    BY <2>0, <2>15
  <2>19. Others(p)
    BY <1>1, <2>8, <2>9, <2>10 DEF Others
  <2> QED BY <1>1, <2>14, <2>16, <2>17, <2>18, <2>19, StepLoss
<1> QED BY <1>2, <1>3

\* The checkpoint is saved.
LEMMA SaveLoss ==
    ASSUME MaxTick <= ClaimTtl, LeaseInv, LossInv, NEW p \in Processes, Save(p)
    PROVE  LossInv'
<1>0. LossTyped
  BY DEF LossInv
<1>1. /\ pc \in [Processes -> Place] /\ pc[p] = "ingest" /\ cur[p] \in Workflows
      /\ UNCHANGED <<finished, refused, stored, cur, age, page, queue, latest>>
      /\ queue[p] = {} /\ pc' = [pc EXCEPT ![p] = "finish"]
      /\ checkpoint' = [checkpoint EXCEPT ![cur[p]] = latest[p]]
  BY DEF Save, worldVars, LeaseInv, ClaimTyped, AtWork, Goto
<1>2. PICK w \in Workflows : w = cur[p]
  BY <1>1
<1>3. PICK F, S, R, c, P, l :
         /\ F = ToSet(finished[w]) /\ S = ToSet(stored[w]) /\ R = refused
         /\ c = checkpoint[w] /\ P = page[p] /\ l = latest[p]
  OBVIOUS
<1>4. BookOK(F, S, R, c) /\ PageOK(F, c, P) /\ LoopOK(S, R, c, P, {}, l)
  BY <1>1, <1>2, <1>3 DEF LossInv, Evidence, Poll
<1>5. BookOK(F, S, R, l)
  BY <1>4, SavesLatest
<1>6. /\ PerWorkflow(checkpoint)' /\ checkpoint'[w] = l
      /\ \A v \in Workflows \ {w} : checkpoint'[v] = checkpoint[v]
  <2>1. PerWorkflow(checkpoint) /\ checkpoint' = [checkpoint EXCEPT ![w] = l]
    BY <1>0, <1>1, <1>2, <1>3 DEF LossTyped
  <2> QED BY <1>2, <2>1, UpdatedOne DEF PerWorkflow
<1>7. LossTyped'
  BY <1>0, <1>1, <1>6 DEF LossTyped, PerWorkflow, PerProcess
<1>8. Evidence(w)'
  <2>1. RowsOK(finished[w]) /\ RowsOK(stored[w])
    BY DEF LossInv, Evidence
  <2> QED BY <1>1, <1>3, <1>5, <1>6, <2>1 DEF Evidence
<1>9. pc'[p] = "finish" /\ \A q \in Processes \ {p} : pc'[q] = pc[q]
  BY <1>1
<1>10. Poll(p)' /\ Others(p)
  BY <1>1, <1>9 DEF Poll, Others
<1>11. \A v \in Workflows \ {cur[p]} : stored'[v] = stored[v] /\ checkpoint'[v] = checkpoint[v]
  BY <1>1, <1>2, <1>6
<1>12. \A v \in Workflows : v = cur[p] => Evidence(v)'
  BY <1>2, <1>8
<1> QED BY <1>1, <1>7, <1>10, <1>11, <1>12, StepLoss

\* An execution finishes, as the last one of its workflow.
LEMMA ExecuteLoss ==
    ASSUME LeaseInv, LossInv, NEW w \in Workflows, NEW id \in 1 .. MaxExecutions,
           NEW at \in 1 .. MaxExecutions, NEW bad \in BOOLEAN, Execute(w, id, at, bad)
    PROVE  LossInv'
<1>0. LossTyped
  BY DEF LossInv
<1>a. PICK z : z = [id |-> id, at |-> at]
  OBVIOUS
<1>1. z = [id |-> id, at |-> at] /\ z \in Executions /\ z.id = id /\ z.at = at
  BY <1>a DEF Executions
<1>2. /\ id \notin Ids /\ at - LastAt(w) \in {0, 1}
      /\ finished' = [finished EXCEPT ![w] = Append(finished[w], z)]
      /\ refused \subseteq refused'
      /\ UNCHANGED <<stored, checkpoint, pc, cur, age, page, queue, latest>>
  BY <1>1 DEF Execute, pollVars
<1>3. PICK rows, next, F : /\ rows = finished[w] /\ next = Append(rows, z) /\ F = ToSet(rows)
  OBVIOUS
<1>4. RowsOK(rows) /\ F \subseteq Executions
  BY <1>3 DEF LossInv, Evidence, BookOK
<1>5. \A x \in F : x.id # z.id /\ x.at <= z.at
  <2>1. ASSUME NEW x \in F PROVE x.id # z.id
    BY <1>1, <1>2, <1>3 DEF Ids
  <2>2. ASSUME NEW x \in F PROVE x.at <= z.at
    <3>1. rows # <<>> /\ x.at <= Last(rows).at /\ Last(rows) \in Executions
      BY <1>3, <1>4, LastIsYoungest
    <3>2. LastAt(w) = Last(rows).at
      BY <1>3, <3>1 DEF LastAt
    <3>3. /\ Last(rows).at \in Nat /\ at \in Nat /\ x.at \in Nat
      BY <1>1, <1>4, <3>1, ExecutionNumbers
    <3>4. Last(rows).at <= at
      BY <1>2, <3>2, <3>3
    <3> QED BY <1>1, <3>1, <3>3, <3>4
  <2> QED BY <2>1, <2>2
<1>6. RowsOK(next) /\ ToSet(next) = F \cup {z}
  BY <1>1, <1>3, <1>4, <1>5, RowsGrow
<1>7. /\ PerWorkflow(finished)' /\ finished'[w] = next
      /\ \A v \in Workflows \ {w} : finished'[v] = finished[v]
  BY <1>0, <1>2, <1>3, UpdatedOne DEF LossTyped, PerWorkflow
<1>8. LossTyped'
  BY <1>0, <1>2, <1>7 DEF LossTyped, PerWorkflow, PerProcess
<1>9. PICK R, R2 : R = refused /\ R2 = refused' /\ R \subseteq R2
  BY <1>2
<1>10. ASSUME NEW v \in Workflows PROVE Evidence(v)'
  <2>0. PICK G, S, c : /\ G = ToSet(finished[v]) /\ S = ToSet(stored[v]) /\ c = checkpoint[v]
    OBVIOUS
  <2>1. BookOK(G, S, R, c) /\ RowsOK(finished[v]) /\ RowsOK(stored[v])
    BY <1>9, <2>0 DEF LossInv, Evidence
  <2>2. CASE v = w
    <3>1. BookOK(F \cup {z}, S, R2, c)
      BY <1>1, <1>3, <1>5, <1>9, <2>0, <2>1, <2>2, BookGrows
    <3> QED BY <1>2, <1>6, <1>7, <1>9, <2>0, <2>1, <2>2, <3>1 DEF Evidence
  <2>3. CASE v # w
    <3>1. BookOK(G, S, R2, c)
      BY <1>9, <2>1, BookRefuses
    <3> QED BY <1>2, <1>7, <1>9, <2>0, <2>1, <2>3, <3>1 DEF Evidence
  <2> QED BY <2>2, <2>3
<1>11. ASSUME NEW p \in Processes PROVE Poll(p)'
  <2>0. PICK v, G, S, c, P, Q, l :
           /\ v = cur[p] /\ G = ToSet(finished[v]) /\ S = ToSet(stored[v]) /\ c = checkpoint[v]
           /\ P = page[p] /\ Q = queue[p] /\ l = latest[p]
    OBVIOUS
  <2>1. /\ pc[p] \in {"arrived", "answer", "ingest"} => PageOK(G, c, P) /\ v \in Workflows
        /\ pc[p] = "ingest" => LoopOK(S, R, c, P, Q, l)
    BY <1>9, <2>0 DEF LossInv, Poll, LeaseInv, ClaimTyped, AtWork
  <2>2. pc[p] = "ingest" => LoopOK(S, R2, c, P, Q, l)
    BY <1>9, <2>1, LoopRefuses
  <2>3. PICK G2 : G2 = ToSet(finished'[v])
    OBVIOUS
  <2>4. pc[p] \in {"arrived", "answer", "ingest"} => PageOK(G2, c, P)
    <3>1. CASE v = w
      <4>1. G = F /\ G2 = F \cup {z}
        BY <1>3, <1>6, <1>7, <2>0, <2>3, <3>1
      <4> QED BY <1>5, <2>1, <4>1, PageGrows
    <3>2. CASE v # w
      BY <1>7, <2>0, <2>1, <2>3, <3>2
    <3> QED BY <3>1, <3>2
  <2> QED BY <1>2, <1>9, <2>0, <2>2, <2>3, <2>4 DEF Poll
<1> QED BY <1>8, <1>10, <1>11 DEF LossInv

\* The rest of the world touches no evidence; time passes within the bound of a tick.
LEMMA WorldLoss ==
    ASSUME LeaseInv, LossInv,
           \/ \E p \in Processes, c \in Connectors : TestConnector(p, c)
           \/ \E c \in Connectors : DisableConnector(c)
           \/ \E c \in Connectors, to \in Appearances : Turn(c, to)
           \/ \E w \in Workflows : ToggleContract(w)
           \/ Time
           \/ UNCHANGED vars
    PROVE  LossInv'
<1>0. LossTyped
  BY DEF LossInv
<1>1. UNCHANGED <<finished, refused, stored, checkpoint, pc, cur, page, queue, latest>>
  BY DEF TestConnector, DisableConnector, Turn, ToggleContract, Time, vars, worldVars, pollVars
<1>2. \A p \in Processes : age'[p] <= MaxTick
  <2>0. \A p \in Processes : age[p] \in Nat /\ age[p] <= MaxTick
    BY <1>0 DEF LossTyped, LeaseInv, ClaimTyped
  <2>1. CASE Time
    <3>1. ASSUME NEW p \in Processes PROVE age'[p] <= MaxTick
      <4>1. age'[p] = IF Waits(p) THEN age[p] + 1 ELSE age[p]
        BY <2>1 DEF Time
      <4>2. Waits(p) => age[p] < MaxTick
        BY <2>1 DEF Time, Waits
      <4>3. MaxTick \in Nat
        BY PollingAssumption
      <4> QED BY <2>0, <4>1, <4>2, <4>3
    <3> QED BY <3>1
  <2>2. CASE ~Time
    <3>1. age' = age
      BY <2>2 DEF TestConnector, DisableConnector, Turn, ToggleContract, vars
    <3> QED BY <2>0, <3>1
  <2> QED BY <2>1, <2>2
<1>3. LossTyped'
  BY <1>0, <1>1, <1>2 DEF LossTyped, PerWorkflow, PerProcess
<1>4. ASSUME NEW w \in Workflows PROVE Evidence(w)'
  BY <1>1, EvidenceStays DEF LossInv
<1>5. ASSUME NEW p \in Processes PROVE Poll(p)'
  BY <1>1, PollStays DEF LossInv
<1> QED BY <1>3, <1>4, <1>5 DEF LossInv

\* Every step keeps the evidence.
LEMMA LossStep ==
    ASSUME MaxTick <= ClaimTtl
    PROVE  LeaseInv /\ LossInv /\ PagesReachBack /\ [Next]_vars => LossInv'
<1> SUFFICES ASSUME LeaseInv, LossInv, PagesReachBack, [Next]_vars PROVE LossInv'
  OBVIOUS
<1>1. ASSUME NEW p \in Processes, Step(p) \/ Crash(p) PROVE LossInv'
  BY <1>1, ClaimsLose, AnswerLoss, ArriveLoss, IngestLoss, SaveLoss DEF Step
<1>2. ASSUME NEW w \in Workflows, NEW id \in 1 .. MaxExecutions, NEW at \in 1 .. MaxExecutions,
             NEW bad \in BOOLEAN, Execute(w, id, at, bad)
      PROVE  LossInv'
  BY <1>2, ExecuteLoss
<1> QED BY <1>1, <1>2, WorldLoss DEF Next

\* As long as pages reach back to the checkpoint and no tick outlasts its lease, nothing
\* that finished before the checkpoint is lost, and what is stored is in order.
THEOREM PolledInOrder ==
    ASSUME MaxTick <= ClaimTtl
    PROVE  Spec /\ []PagesReachBack => []NothingLost
<1>1. Init => LossInv
  BY LossInit
<1>2. LeaseInv /\ LossInv /\ PagesReachBack /\ [Next]_vars => LossInv'
  BY LossStep
<1> QED BY <1>1, <1>2, LeaseInvariant, LossIsNone, PTL DEF Spec
=============================================================================
