------------------------- MODULE ReconciliationProofs -------------------------
(***************************************************************************)
(* Proofs about Reconciliation for every set of calls, windows, emails and *)
(* contracts, and whatever the bounds.                                     *)
(***************************************************************************)
EXTENDS Reconciliation, FiniteSetTheorems, TLAPS

-----------------------------------------------------------------------------
(* The incidents                                                           *)

\* The rows are well formed; one that is being announced, and those whose
\* announcement was prevented, are announced to nobody, the others once.
Exact(rows, due, lost) ==
    /\ rows \in Seq(Incident)
    /\ due \in DOMAIN rows \cup {0}
    /\ lost \subseteq DOMAIN rows /\ due \notin lost
    /\ \A i \in DOMAIN rows :
          rows[i].told["opened"] = IF i = due \/ i \in lost THEN 0 ELSE 1

\* A problem that is unresolved stays so.
Keeps(rows, next) == \A q \in Problems : Unresolved(rows, q) \subseteq Unresolved(next, q)

\* Every problem of the module is one of the incidents' problems.
LEMMA KnownProblems == MissingType \subseteq Problems /\ "connector_unavailable" \in Problems
BY ReconciliationAssumption

\* The UPDATE of one row.
LEMMA UpdatedIncident ==
    ASSUME NEW rows \in Seq(Incident), NEW i \in DOMAIN rows, NEW row \in Incident
    PROVE  /\ [rows EXCEPT ![i] = row] \in Seq(Incident)
           /\ DOMAIN [rows EXCEPT ![i] = row] = DOMAIN rows
           /\ \A j \in DOMAIN rows : [rows EXCEPT ![i] = row][j] = IF j = i THEN row ELSE rows[j]
OBVIOUS

\* An announcement of an opening counts for the row it is about, and changes what
\* was told of that row only.
LEMMA ToldDoes ==
    ASSUME NEW rows \in Seq(Incident), NEW i \in DOMAIN rows,
           NEW next, next = Told(rows, i, "opened")
    PROVE  /\ next \in Seq(Incident) /\ DOMAIN next = DOMAIN rows
           /\ \A j \in DOMAIN rows \ {i} : next[j] = rows[j]
           /\ next[i].problem = rows[i].problem /\ next[i].status = rows[i].status
           /\ next[i].told["opened"] = OneMore(rows[i].told["opened"])
<1> DEFINE more == [a \in Announcement |->
                       IF a = "opened" THEN OneMore(rows[i].told[a]) ELSE rows[i].told[a]]
           row == [rows[i] EXCEPT !.pending = OneMore(@), !.told = more]
<1>0. rows[i] \in Incident
  OBVIOUS
<1>1. rows[i] \in Incident /\ rows[i].told \in [Announcement -> 0 .. 2]
  BY <1>0 DEF Incident
<1>2. "opened" \in Announcement /\ \A n \in 0 .. 2 : OneMore(n) \in 0 .. 2
  BY DEF OneMore, Announcement, EventType
<1>3. more \in [Announcement -> 0 .. 2] /\ more["opened"] = OneMore(rows[i].told["opened"])
  BY <1>1, <1>2
<1>4. next = [rows EXCEPT ![i] = row]
  BY <1>1 DEF Told, Incident
<1> HIDE DEF more
<1>5. /\ row.problem = rows[i].problem /\ row.status = rows[i].status
      /\ row.told = more /\ row \in Incident
  BY <1>1, <1>2, <1>3 DEF Incident
<1> HIDE DEF row
<1> QED BY <1>3, <1>4, <1>5, UpdatedIncident

\* The INSERT adds one row, open and announced to nobody.
LEMMA OpenedDoes ==
    ASSUME NEW rows \in Seq(Incident), NEW p \in Problems,
           NEW next, next = Opened(rows, p)
    PROVE  /\ next \in Seq(Incident) /\ DOMAIN next = DOMAIN rows \cup {Len(rows) + 1}
           /\ Len(rows) + 1 \notin DOMAIN rows
           /\ \A j \in DOMAIN rows : next[j] = rows[j]
           /\ next[Len(rows) + 1].problem = p /\ next[Len(rows) + 1].status = "open"
           /\ next[Len(rows) + 1].told["opened"] = 0
<1> DEFINE row == [problem |-> p, status |-> "open", recovered |-> FALSE,
                   acked |-> FALSE, told |-> [e \in Announcement |-> 0],
                   pending |-> 0, age |-> 0]
<1>1. /\ row \in Incident /\ row.problem = p /\ row.status = "open"
      /\ row.told["opened"] = 0
  BY BackoffAssumption DEF Incident, Status, Announcement, EventType
<1>2. next = Append(rows, row)
  BY DEF Opened
<1> HIDE DEF row
<1> QED BY <1>1, <1>2

\* What holds of the store, of the announcement that is due and of those lost.
IncidentsExact == Exact(incidents, telling, cut)

\* A row that was just inserted is due to be announced.
LEMMA OpenedExact ==
    ASSUME NEW rows, NEW lost, Exact(rows, 0, lost), NEW p \in Problems,
           NEW next, next = Opened(rows, p)
    PROVE  /\ Exact(next, Len(rows) + 1, lost)
           /\ Keeps(rows, next)
           /\ Unresolved(next, p) # {}
<1>1. /\ rows \in Seq(Incident) /\ lost \subseteq DOMAIN rows
      /\ \A i \in DOMAIN rows : rows[i].told["opened"] = IF i \in lost THEN 0 ELSE 1
  BY DEF Exact
<1>0. rows \in Seq(Incident)
  BY <1>1
<1>2. PICK n : n = Len(rows) + 1
  OBVIOUS
<1> DEFINE opened == Opened(rows, p)
<1>3. /\ next \in Seq(Incident) /\ DOMAIN next = DOMAIN rows \cup {n} /\ n \notin DOMAIN rows
      /\ \A j \in DOMAIN rows : next[j] = rows[j]
      /\ next[n].problem = p /\ next[n].status = "open" /\ next[n].told["opened"] = 0
  <2>1. /\ opened \in Seq(Incident) /\ DOMAIN opened = DOMAIN rows \cup {Len(rows) + 1}
        /\ Len(rows) + 1 \notin DOMAIN rows
        /\ \A j \in DOMAIN rows : opened[j] = rows[j]
        /\ opened[Len(rows) + 1].problem = p /\ opened[Len(rows) + 1].status = "open"
        /\ opened[Len(rows) + 1].told["opened"] = 0
    BY <1>0, OpenedDoes
  <2>2. next = opened
    OBVIOUS
  <2> HIDE DEF opened
  <2> QED BY <1>2, <2>1, <2>2
<1> HIDE DEF opened
<1>4. Exact(next, n, lost)
  BY <1>1, <1>3 DEF Exact
<1>5. n \in Unresolved(next, p) /\ Keeps(rows, next)
  BY <1>3 DEF Unresolved, Keeps
<1> QED BY <1>2, <1>4, <1>5

\* openOrObserveIncident: afterwards the problem is unresolved, as is whatever was
\* before, and a row that was inserted is due to be announced.
LEMMA ReportDoes ==
    ASSUME IncidentsExact, telling = 0, cut' = cut, NEW p \in Problems, Report(p)
    PROVE  /\ IncidentsExact'
           /\ Keeps(incidents, incidents')
           /\ Unresolved(incidents', p) # {}
<1>1. CASE Unresolved(incidents, p) # {}
  BY <1>1 DEF Report, Keeps, IncidentsExact
<1>2. CASE Unresolved(incidents, p) = {}
  <2>1. incidents' = Opened(incidents, p) /\ telling' = Len(incidents) + 1
    BY <1>2 DEF Report
  <2>2. PICK rows, next, lost :
           rows = incidents /\ next = Opened(rows, p) /\ next = incidents' /\ lost = cut
    BY <2>1
  <2>3. Exact(rows, 0, lost)
    BY <2>2 DEF IncidentsExact
  <2>4. /\ Exact(next, Len(rows) + 1, lost)
        /\ Keeps(rows, next)
        /\ Unresolved(next, p) # {}
    BY <2>2, <2>3, OpenedExact
  <2> QED BY <2>1, <2>2, <2>4 DEF IncidentsExact
<1> QED BY <1>1, <1>2

\* resolveOutcomeMissing announces nothing.
LEMMA ResolveMissingDoes ==
    ASSUME NEW rows, NEW lost, Exact(rows, 0, lost), NEW next, next = ResolveMissing(rows)
    PROVE  Exact(next, 0, lost)
<1> DEFINE hit(i) == \E p \in MissingType : i \in Unresolved(rows, p)
           closed(i) == [rows[i] EXCEPT !.status = "resolved", !.recovered = TRUE]
<1>1. /\ rows \in Seq(Incident) /\ lost \subseteq DOMAIN rows /\ 0 \notin lost
      /\ \A i \in DOMAIN rows : rows[i] \in Incident
      /\ \A i \in DOMAIN rows : rows[i].told["opened"] = IF i = 0 \/ i \in lost THEN 0 ELSE 1
  BY DEF Exact
<1>2. next = [i \in DOMAIN rows |-> IF hit(i) THEN closed(i) ELSE rows[i]]
  BY DEF ResolveMissing
<1>3. \A i \in DOMAIN rows : closed(i) \in Incident /\ closed(i).told = rows[i].told
  BY <1>1 DEF Incident, Status
<1> HIDE DEF hit, closed
<1>4. next \in Seq(Incident) /\ DOMAIN next = DOMAIN rows
  BY <1>1, <1>2, <1>3
<1>5. \A i \in DOMAIN rows : next[i].told = rows[i].told
  BY <1>2, <1>3
<1> QED BY <1>1, <1>4, <1>5 DEF Exact

\* The same as a step.
LEMMA ResolveAllDoes ==
    ASSUME IncidentsExact, telling = 0, cut' = cut, ResolveAll
    PROVE  IncidentsExact'
<1>1. PICK rows, next, lost :
         rows = incidents /\ next = ResolveMissing(rows) /\ next = incidents' /\ lost = cut
  BY DEF ResolveAll
<1>2. Exact(rows, 0, lost)
  BY <1>1 DEF IncidentsExact
<1>3. Exact(next, 0, lost)
  BY <1>1, <1>2, ResolveMissingDoes
<1> QED BY <1>1, <1>3 DEF IncidentsExact, ResolveAll

\* syncOutcomeIncidents either resolves, or reports a missing type, or does nothing;
\* it reports whenever something misses.
LEMMA SyncDoes ==
    ASSUME IncidentsExact, telling = 0, cut' = cut, NEW m, Sync(m)
    PROVE  /\ IncidentsExact'
           /\ m.missing \in Nat \ {0} => \E p \in MissingType : Unresolved(incidents', p) # {}
<1>1. \A p \in MissingType : p \in Problems
  BY KnownProblems
<1>2. "partial_delivery" \in MissingType /\ "missing_destination_records" \in MissingType
  BY DEF MissingType
<1>3. \/ ResolveAll \/ UNCHANGED <<incidents, telling>>
      \/ \E p \in MissingType : Report(p)
  BY <1>2 DEF Sync
<1>4. CASE ResolveAll
  <2>1. IncidentsExact'
    BY <1>4, ResolveAllDoes
  <2>2. ASSUME m.missing \in Nat \ {0} PROVE \E p \in MissingType : Report(p)
    BY <1>2, <2>2 DEF Sync
  <2> QED BY <1>1, <2>1, <2>2, ReportDoes
<1>5. CASE UNCHANGED <<incidents, telling>>
  <2>1. IncidentsExact'
    BY <1>5 DEF IncidentsExact
  <2>2. ASSUME m.missing \in Nat \ {0} PROVE \E p \in MissingType : Report(p)
    BY <1>2, <2>2 DEF Sync
  <2> QED BY <1>1, <2>1, <2>2, ReportDoes
<1>6. CASE \E p \in MissingType : Report(p)
  <2>1. PICK p \in MissingType : Report(p)
    BY <1>6
  <2> QED BY <1>1, <2>1, ReportDoes
<1> QED BY <1>3, <1>4, <1>5, <1>6

\* The outbox row ends what is due; what is unresolved stays so.
LEMMA AnnounceDoes ==
    ASSUME IncidentsExact, Announce
    PROVE  IncidentsExact' /\ Keeps(incidents, incidents')
<1>1. PICK rows, next, lost, i :
         /\ rows = incidents /\ lost = cut /\ i = telling
         /\ next = Told(rows, i, "opened") /\ next = incidents'
  BY DEF Announce
<1>2. telling' = 0 /\ cut' = cut /\ i # 0
  BY <1>1 DEF Announce
<1>3. /\ rows \in Seq(Incident) /\ i \in DOMAIN rows /\ lost \subseteq DOMAIN rows /\ i \notin lost
      /\ \A j \in DOMAIN rows : rows[j].told["opened"] = IF j = i \/ j \in lost THEN 0 ELSE 1
  BY <1>1, <1>2 DEF IncidentsExact, Exact
<1>4. /\ next \in Seq(Incident) /\ DOMAIN next = DOMAIN rows
      /\ \A j \in DOMAIN rows \ {i} : next[j] = rows[j]
      /\ next[i].problem = rows[i].problem /\ next[i].status = rows[i].status
      /\ next[i].told["opened"] = OneMore(rows[i].told["opened"])
  BY <1>1, <1>3, ToldDoes
<1>5. OneMore(0) = 1
  BY DEF OneMore
<1>6. Exact(next, 0, lost)
  <2>1. 0 \notin DOMAIN rows
    BY <1>3
  <2> QED BY <1>3, <1>4, <1>5, <2>1 DEF Exact
<1>7. Keeps(rows, next)
  BY <1>4 DEF Unresolved, Keeps
<1> QED BY <1>1, <1>2, <1>6, <1>7 DEF IncidentsExact

\* What any step makes of the rows.
LEMMA IncidentStep ==
    ASSUME [Next]_vars
    PROVE  \/ UNCHANGED <<incidents, telling, cut>>
           \/ telling = 0 /\ cut' = cut /\ Report("connector_unavailable")
           \/ telling = 0 /\ cut' = cut /\ ResolveAll
           \/ \E k \in Calls : telling = 0 /\ cut' = cut /\ Sync(call[k].match)
           \/ Announce
           \/ /\ incidents' = incidents /\ telling' = 0
              /\ cut' = cut \cup ({telling} \ {0}) /\ Crash
<1>1. ASSUME NEW k \in Calls, Refuse(k) \/ FetchFails(k)
      PROVE  telling = 0 /\ cut' = cut /\ Report("connector_unavailable")
  BY <1>1 DEF Refuse, FetchFails, LoopFree
<1>2. ASSUME NEW k \in Calls, SyncIncidents(k)
      PROVE  telling = 0 /\ cut' = cut /\ Sync(call[k].match)
  BY <1>2 DEF SyncIncidents
<1>3. ASSUME NEW k \in Calls, \/ SourceAnswers(k) \/ DestinationReads(k) \/ Answered(k)
                              \/ InsertItems(k) \/ UpdateRun(k) \/ Purge(k) \/ FailRun(k)
      PROVE  UNCHANGED <<incidents, telling, cut>>
  BY <1>3 DEF SourceAnswers, DestinationReads, Answered, InsertItems, UpdateRun, Purge, FailRun
<1>4. ASSUME NEW k \in Calls, NEW w \in Windows, Hit(k, w) \/ Start(k, w)
      PROVE  UNCHANGED <<incidents, telling, cut>>
  BY <1>4 DEF Hit, Start
<1>5. ASSUME NEW c \in Connectors, StartProbe(c) \/ FinishProbe(c) \/ Revoke(c)
      PROVE  \/ UNCHANGED <<incidents, telling, cut>>
             \/ telling = 0 /\ cut' = cut /\ Report("connector_unavailable")
  BY <1>5 DEF StartProbe, FinishProbe, Revoke, LoopFree
<1>6. ASSUME Waive PROVE telling = 0 /\ cut' = cut /\ ResolveAll
  BY <1>6 DEF Waive, LoopFree
<1>7. ASSUME NEW w \in Windows, Export(w) PROVE UNCHANGED <<incidents, telling, cut>>
  BY <1>7 DEF Export
<1>8. ASSUME NEW e \in Emails, Deliver(e) PROVE UNCHANGED <<incidents, telling, cut>>
  BY <1>8 DEF Deliver
<1>9. ASSUME Time \/ UNCHANGED vars PROVE UNCHANGED <<incidents, telling, cut>>
  BY <1>9 DEF Time, vars
<1>10. ASSUME Crash
       PROVE  incidents' = incidents /\ telling' = 0 /\ cut' = cut \cup ({telling} \ {0})
  BY <1>10 DEF Crash
<1> QED BY <1>1, <1>2, <1>3, <1>4, <1>5, <1>6, <1>7, <1>8, <1>9, <1>10 DEF Next, Proceed

\* So it stays with every step.
LEMMA ExactStep == IncidentsExact /\ [Next]_vars => IncidentsExact'
<1> SUFFICES ASSUME IncidentsExact, [Next]_vars PROVE IncidentsExact'
  OBVIOUS
<1>1. CASE UNCHANGED <<incidents, telling, cut>>
  BY <1>1 DEF IncidentsExact
<1>2. CASE telling = 0 /\ cut' = cut /\ Report("connector_unavailable")
  BY <1>2, ReportDoes, KnownProblems
<1>3. CASE telling = 0 /\ cut' = cut /\ ResolveAll
  BY <1>3, ResolveAllDoes
<1>4. CASE \E k \in Calls : telling = 0 /\ cut' = cut /\ Sync(call[k].match)
  BY <1>4, SyncDoes
<1>5. CASE Announce
  BY <1>5, AnnounceDoes
<1>6. CASE incidents' = incidents /\ telling' = 0 /\ cut' = cut \cup ({telling} \ {0})
  <2>1. 0 \notin DOMAIN incidents
    BY DEF IncidentsExact, Exact
  <2> QED BY <1>6, <2>1 DEF IncidentsExact, Exact
<1> QED BY <1>1, <1>2, <1>3, <1>4, <1>5, <1>6, IncidentStep

\* A death loses one announcement at most.
LostBound == crashes \in Nat /\ IsFiniteSet(cut) /\ Cardinality(cut) <= crashes

\* The deaths are counted in Crash alone.
LEMMA CountedDeaths ==
    ASSUME [Next]_vars
    PROVE  Crash \/ UNCHANGED <<cut, crashes>>
<1>1. ASSUME NEW k \in Calls, Refuse(k) \/ Proceed(k)
      PROVE  UNCHANGED <<cut, crashes>>
  BY <1>1 DEF Refuse, Proceed, SourceAnswers, DestinationReads, FetchFails, FailRun,
              Answered, InsertItems, UpdateRun, SyncIncidents, Purge, bounds
<1>2. ASSUME NEW k \in Calls, NEW w \in Windows, Hit(k, w) \/ Start(k, w)
      PROVE  UNCHANGED <<cut, crashes>>
  BY <1>2 DEF Hit, Start, bounds
<1>3. ASSUME NEW c \in Connectors, StartProbe(c) \/ FinishProbe(c) \/ Revoke(c)
      PROVE  UNCHANGED <<cut, crashes>>
  BY <1>3 DEF StartProbe, FinishProbe, Revoke, bounds
<1>4. ASSUME NEW w \in Windows, Export(w) PROVE UNCHANGED <<cut, crashes>>
  BY <1>4 DEF Export
<1>5. ASSUME NEW e \in Emails, Deliver(e) PROVE UNCHANGED <<cut, crashes>>
  BY <1>5 DEF Deliver, bounds
<1>6. ASSUME Announce \/ Waive \/ Time \/ UNCHANGED vars PROVE UNCHANGED <<cut, crashes>>
  BY <1>6 DEF Announce, Waive, Time, bounds, vars
<1> QED BY <1>1, <1>2, <1>3, <1>4, <1>5, <1>6 DEF Next

\* and each loses one.
LEMMA LostStep == LostBound /\ [Next]_vars => LostBound'
<1> SUFFICES ASSUME LostBound, [Next]_vars PROVE LostBound'
  OBVIOUS
<1>1. CASE UNCHANGED <<cut, crashes>>
  BY <1>1 DEF LostBound
<1>2. CASE Crash
  <2>1. cut' = cut \cup ({telling} \ {0}) /\ crashes' = crashes + 1
    BY <1>2 DEF Crash
  <2>2. cut' = cut \/ cut' = cut \cup {telling}
    BY <2>1
  <2>3. IsFiniteSet(cut) /\ Cardinality(cut) \in Nat /\ crashes \in Nat /\ Cardinality(cut) <= crashes
    BY FS_CardinalityType DEF LostBound
  <2>4. /\ IsFiniteSet(cut \cup {telling})
        /\ Cardinality(cut \cup {telling}) \in {Cardinality(cut), Cardinality(cut) + 1}
    BY <2>3, FS_AddElement
  <2>5. IsFiniteSet(cut') /\ Cardinality(cut') \in {Cardinality(cut), Cardinality(cut) + 1}
    BY <2>2, <2>3, <2>4
  <2> QED BY <2>1, <2>3, <2>5 DEF LostBound
<1> QED BY <1>1, <1>2, CountedDeaths

\* An incident has been announced as what it is, always.
LEMMA ExactInvariant == Spec => []IncidentsExact
<1>1. Init => IncidentsExact
  BY DEF Init, Exact, IncidentsExact
<1> QED BY <1>1, ExactStep, PTL DEF Spec

\* An incident of the contract is announced as opened exactly once, however many
\* runs, refusals and probes observe it, but for those whose INSERT was the last
\* thing a process did: they never are, and each death makes one at most
\* (openConnectorIncident, syncOutcomeIncidents).
THEOREM IncidentsAnnouncedOnce == Spec => []AnnouncedOnce
<1>1. Init => LostBound
  BY FS_EmptySet DEF Init, LostBound
<1>2. Spec => []LostBound
  BY <1>1, LostStep, PTL DEF Spec
<1>3. IncidentsExact /\ LostBound => AnnouncedOnce
  BY DEF IncidentsExact, Exact, LostBound, AnnouncedOnce
<1> QED BY <1>2, <1>3, ExactInvariant, PTL

-----------------------------------------------------------------------------
(* The invariant of the runs                                               *)

\* Two requests for one window are not served at the same time.  The route does
\* not see to it: a request that finds the row "running" resumes the run.
Apart ==
    \A k, l \in Calls :
        call[k] # Idle /\ call[l] # Idle /\ call[k].window = call[l].window => k = l

Recording == "reconciliation"
Found == {"matched", "missing", "late", "waiting"}
InFlight == {"source", "destination", "answered"}
Places == InFlight \cup Statements
Judged == {"healthy", "warning", "failed"}

\* What a match says, its differences not looked at.
Finding ==
    [items : SUBSET (Emails \X MatchStatus), source : Int, matched : Int,
     missing : Nat, duplicate : Int, late : Int, waiting : Nat]

Row ==
    [status : {"running"} \cup Judged, found : Finding, evidence : {"medium", "high"},
     started : Nat, completed : Nat \cup {None},
     error : {"none", "source", "destination", "constraint"}]

\* Every email that had registered by t in the window has been delivered in it.
Covered(w, t) ==
    \A e \in Emails :
        (\E u \in RegisteredAt[e] : u <= t /\ Within(w, u)) =>
            \E u \in delivered[e] : Within(w, u)

\* The counts are those of the items.
Counted(list, m) ==
    \A s \in Found : Cardinality({i \in list : i[2] = s}) = m[s]

\* A match that misses nothing, and waits for nothing, is as good as it looks.
MatchFair(w, t, m) == m.missing = 0 /\ m.waiting = 0 => Covered(w, t)

\* The source has listed whatever had registered when the call began.
SourceRead(c) ==
    /\ c.source \subseteq Emails \X Instants
    /\ \A e \in Emails : \A u \in RegisteredAt[e] :
          u <= c.began /\ Within(c.window, u) => <<e, u>> \in c.source

\* The destination has listed only what was delivered.
DestinationRead(c) ==
    /\ c.destination \subseteq Emails \X Instants
    /\ \A row \in c.destination : row[2] \in delivered[row[1]] /\ Within(c.window, row[2])

\* A call that is served, by how far it has come.
CallFair(c) ==
    LET r == run[c.window]
    IN  /\ c.at \in Places /\ c.window \in Windows /\ c.began \in Nat /\ c.match \in Finding
        /\ c.at \in {"insert", "purge"} => contract.mode = Recording
        /\ c.at \in InFlight \cup {"insert", "update", "failed"} =>
              r \in Row /\ r.status = "running" /\ r.started = c.began
        /\ c.at \in InFlight \cup {"insert"} => items[c.window] = <<>>
        /\ c.at = "failed" => c.error \in Connectors
        /\ c.at \in {"destination", "answered"} => SourceRead(c)
        /\ c.at = "answered" => DestinationRead(c)
        /\ c.at \in {"insert", "update"} /\ contract.mode = Recording =>
              MatchFair(c.window, c.began, c.match) /\ Counted(c.match.items, c.match)
        /\ c.at = "update" /\ contract.mode = Recording =>
              items[c.window] = <<c.match.items>>
        /\ c.at \in {"incidents", "purge"} =>
              /\ r \in Row /\ r.status \in Judged /\ r.completed = now
              /\ r.found.missing = c.match.missing

\* The row of a window, and the items it has counted.
RunFair(w) ==
    LET r == run[w]
    IN  \/ r = NoRun /\ items[w] = <<>>
        \/ /\ r \in Row /\ r.started <= now /\ r.completed <= now
           /\ r.completed = None <=> r.status = "running"
           /\ contract.mode = Recording =>
                 /\ \/ r.status = "healthy"
                    \/ r.status = "warning" /\ r.evidence = "high"
                    => r.found.missing = 0 /\ Covered(w, r.started)
                 /\ r.status # "running" /\ r.error = "none" /\ w \notin Expired =>
                       Len(items[w]) = 1 /\ Counted(items[w][1], r.found)

\* What everything else is between the steps.
Base ==
    /\ contract \in Contracts /\ now \in Instants
    /\ delivered \in [Emails -> SUBSET Instants]
    /\ DOMAIN run = Windows /\ DOMAIN call = Calls /\ DOMAIN items = Windows
    /\ run = [w \in Windows |-> run[w]] /\ call = [k \in Calls |-> call[k]]
    /\ items = [w \in Windows |-> items[w]]
    /\ waived \in Nat /\ crashes \in Nat

\* Only one call at a time is between two awaits.
OneAtWork ==
    \A k, l \in Calls : call[k].at \in Statements /\ call[l].at \in Statements => k = l

RunsInv ==
    /\ Base /\ OneAtWork
    /\ \A k \in Calls : call[k] = Idle \/ CallFair(call[k])
    /\ \A w \in Windows : RunFair(w)

\* Somebody is about to bring the incidents in line with the row.
Syncing(w) == \E k \in Calls : call[k].at = "incidents" /\ call[k].window = w

Misses(w) ==
    /\ run[w] # NoRun /\ run[w].status \in {"warning", "failed"}
    /\ run[w].error = "none" /\ run[w].found.missing > 0

\* As long as nothing dies and nobody waives, what the latest run misses is
\* reported, but for the moment between its row and its incidents.
AlarmInv ==
    crashes = 0 /\ waived = 0 =>
        /\ \A w \in Windows : Misses(w) /\ SettledLast(w) /\ ~Syncing(w) => Alarmed
        /\ \A k \in Calls : call[k].at = "purge" /\ call[k].match.missing > 0 => Alarmed

-----------------------------------------------------------------------------
(* The match                                                               *)

\* The rows of a service are finitely many.
LEMMA FiniteRows == IsFiniteSet(Emails \X Instants)
<1>1. IsFiniteSet(0 .. MaxTime)
  BY FS_Interval, ReconciliationAssumption
<1> QED BY <1>1, FS_Product, ReconciliationAssumption DEF Instants

\* The items of one status are as many as the emails that have it.
LEMMA CountOfStatus ==
    ASSUME NEW S, IsFiniteSet(S), NEW s, NEW T,
           \A x : x \in T <=> \E e \in S : x = <<e, s>>
    PROVE  Cardinality(T) = Cardinality(S)
<1> DEFINE f == [e \in S |-> <<e, s>>]
<1>1. f \in Bijection(S, T)
  BY DEF Bijection, Injection, Surjection, IsInjective
<1> QED BY <1>1, FS_Bijection DEF ExistsBijection

\* matchByNormalizedEmail counts the items it lists, each email once for each status
\* but "duplicate", and an email that is neither missing nor awaited has arrived.
LEMMA ByEmailDoes ==
    ASSUME NEW first, NEW source, NEW destination,
           source \subseteq Emails \X Instants, destination \subseteq Emails \X Instants,
           NEW m, m = ByEmail(first, source, destination)
    PROVE  /\ m \in Finding
           /\ Counted(m.items, m)
           /\ m.missing = 0 /\ m.waiting = 0 =>
                 \A e \in SeenIn(source) : Arrivals(e, destination) # {}
<1> DEFINE seen == SeenIn(source)
           st(e) == StatusOf(e, first, destination)
           at(s) == {e \in seen : st(e) = s}
           again == {e \in seen : Cardinality(Arrivals(e, source)) > 1}
           list == {<<e, st(e)>> : e \in seen} \cup {<<e, "duplicate">> : e \in again}
           double == Cardinality(source) - Cardinality(seen)
                       + Cardinality(destination) - Cardinality(SeenIn(destination))
<1>1. m = [items |-> list,
           source |-> Cardinality(source),
           matched |-> Cardinality(at("matched")),
           missing |-> Cardinality(at("missing")),
           late |-> Cardinality(at("late")),
           waiting |-> Cardinality(at("waiting")),
           duplicate |-> double]
  BY DEF ByEmail
<1>2. \A e \in seen :
         /\ st(e) \in Found
         /\ st(e) \notin {"missing", "waiting"} => Arrivals(e, destination) # {}
  BY DEF StatusOf, Punctuality, Found
<1>3. seen \subseteq Emails /\ SeenIn(destination) \subseteq Emails
  BY DEF SeenIn
<1>4. /\ IsFiniteSet(source) /\ IsFiniteSet(destination)
      /\ IsFiniteSet(seen) /\ IsFiniteSet(SeenIn(destination))
  BY <1>3, FiniteRows, FS_Subset, ReconciliationAssumption
<1> HIDE DEF seen, st
<1>5. \A s : IsFiniteSet(at(s)) /\ Cardinality(at(s)) \in Nat
  <2>1. \A s : at(s) \in SUBSET seen
    OBVIOUS
  <2> QED BY <1>4, <2>1, FS_Subset, FS_CardinalityType
<1>6. /\ Cardinality(source) \in Nat /\ Cardinality(destination) \in Nat
      /\ Cardinality(seen) \in Nat /\ Cardinality(SeenIn(destination)) \in Nat
  BY <1>4, FS_CardinalityType
<1>7. double \in Int
  BY <1>6
<1>8. list \in SUBSET (Emails \X MatchStatus)
  BY <1>2, <1>3 DEF Found, MatchStatus
<1>9. \A s \in Found : Cardinality({i \in list : i[2] = s}) = Cardinality(at(s))
  <2> TAKE s \in Found
  <2> DEFINE T == {i \in list : i[2] = s}
             S == at(s)
  <2>1. s # "duplicate"
    BY DEF Found
  <2>2. \A x : x \in T <=> \E e \in S : x = <<e, s>>
    BY <2>1
  <2>3. IsFiniteSet(S)
    BY <1>5
  <2> HIDE DEF T, S
  <2>4. Cardinality(T) = Cardinality(S)
    BY <2>2, <2>3, CountOfStatus
  <2> QED BY <2>4 DEF T, S
<1> HIDE DEF at, list, double
<1>10. m \in Finding /\ m.items = list
  BY <1>1, <1>5, <1>6, <1>7, <1>8 DEF Finding
<1>11. Counted(m.items, m)
  <2>1. /\ m["matched"] = Cardinality(at("matched")) /\ m["missing"] = Cardinality(at("missing"))
        /\ m["late"] = Cardinality(at("late")) /\ m["waiting"] = Cardinality(at("waiting"))
    BY <1>1
  <2>2. ASSUME NEW s \in Found PROVE m[s] = Cardinality(at(s))
    BY <2>1 DEF Found
  <2> QED BY <1>9, <1>10, <2>2 DEF Counted
<1>12. ASSUME m.missing = 0, m.waiting = 0, NEW e \in seen PROVE Arrivals(e, destination) # {}
  <2>1. at("missing") = {} /\ at("waiting") = {}
    BY <1>1, <1>5, <1>12, FS_EmptySet
  <2> QED BY <1>2, <2>1 DEF at
<1> QED BY <1>10, <1>11, <1>12 DEF seen

\* The branch of aggregate_check counts.
LEMMA AggregateDoes ==
    ASSUME NEW source, NEW destination,
           source \subseteq Emails \X Instants, destination \subseteq Emails \X Instants,
           NEW m, m = Aggregate(source, destination)
    PROVE  m \in Finding
<1>1. Cardinality(source) \in Nat /\ Cardinality(destination) \in Nat
  BY FiniteRows, FS_Subset, FS_CardinalityType
<1> DEFINE n == Cardinality(source)
           gap == Cardinality(source) - Cardinality(destination)
           short == IF gap > 0 THEN gap ELSE 0
<1>2. gap \in Int /\ n \in Int
  BY <1>1
<1>3. m = [items |-> {}, source |-> n, matched |-> n - short, missing |-> short,
           duplicate |-> 0, late |-> 0, waiting |-> 0]
  BY DEF Aggregate, NoMatch
<1>4. short \in Nat /\ n - short \in Int
  BY <1>2
<1> HIDE DEF n, short
<1> QED BY <1>2, <1>3, <1>4 DEF Finding

-----------------------------------------------------------------------------
(* What a step leaves alone                                                *)

\* What has been delivered stays so.
Grows == \A e \in Emails : delivered[e] \subseteq delivered'[e]

\* The contract is one of those there may be.
LEMMA Retained == ASSUME Base PROVE contract \in Contract /\ contract.retention \in Nat
BY ReconciliationAssumption DEF Base, Contract

\* A request relies on nothing that a step elsewhere changes,
LEMMA CallFrame ==
    ASSUME NEW k \in Calls, CallFair(call[k]), call'[k] = call[k],
           run'[call[k].window] = run[call[k].window],
           items'[call[k].window] = items[call[k].window],
           contract' = contract, Grows,
           now' = now \/ call[k].at \notin Statements
    PROVE  CallFair(call[k])'
<1> DEFINE c == call[k]
           w == c.window
<1>1. ASSUME NEW t, Covered(w, t) PROVE Covered(w, t)'
  BY <1>1 DEF Covered, Grows
<1>2. MatchFair(w, c.began, c.match) => MatchFair(w, c.began, c.match)'
  BY <1>1 DEF MatchFair
<1>3. DestinationRead(c) => DestinationRead(c)'
  BY DEF DestinationRead, Grows
<1>4. SourceRead(c) => SourceRead(c)'
  BY DEF SourceRead
<1> QED BY <1>2, <1>3, <1>4 DEF CallFair, Statements

\* nor does what a run says of its window.
LEMMA RunFrame ==
    ASSUME Base, NEW w \in Windows, RunFair(w), run'[w] = run[w], items'[w] = items[w],
           contract' = contract, Grows, now' \in {now, now + 1}
    PROVE  RunFair(w)'
<1>1. now \in Nat /\ now' \in Nat /\ now <= now' /\ contract.retention \in Nat
  BY Retained, ReconciliationAssumption DEF Base, Instants
<1>2. CASE run[w] = NoRun
  <2>1. items[w] = <<>>
    BY <1>2 DEF RunFair, Row, NoRun, Judged
  <2> QED BY <1>2, <2>1 DEF RunFair
<1>3. CASE run[w] # NoRun
  <2> DEFINE r == run[w]
  <2>1. /\ r \in Row /\ r.started <= now /\ r.completed <= now
        /\ r.completed = None <=> r.status = "running"
        /\ contract.mode = Recording =>
                 /\ \/ r.status = "healthy"
                    \/ r.status = "warning" /\ r.evidence = "high"
                    => r.found.missing = 0 /\ Covered(w, r.started)
                 /\ r.status # "running" /\ r.error = "none" /\ w \notin Expired =>
                       Len(items[w]) = 1 /\ Counted(items[w][1], r.found)
    BY <1>3 DEF RunFair
  <2>2. r.started \in Int /\ r.completed \in Int
    BY <2>1 DEF Row, None
  <2>3. w \in Expired => w \in Expired'
    BY <1>1, <2>2 DEF Expired
  <2>4. Covered(w, r.started) => Covered(w, r.started)'
    BY DEF Covered, Grows
  <2> QED BY <1>1, <2>1, <2>2, <2>3, <2>4 DEF RunFair
<1> QED BY <1>2, <1>3

\* A step that changes no row, no items and no call.
LEMMA RunsFrame ==
    ASSUME RunsInv, UNCHANGED <<contract, run, items, call>>, Grows,
           delivered' \in [Emails -> SUBSET Instants],
           now' # now => LoopFree /\ now' = now + 1, now' \in Instants,
           waived' \in Nat, crashes' \in Nat
    PROVE  RunsInv'
<1>1. Base' /\ OneAtWork'
  BY DEF RunsInv, Base, OneAtWork
<1>2. ASSUME NEW k \in Calls, call[k] # Idle PROVE CallFair(call[k])'
  BY <1>2, CallFrame DEF RunsInv, LoopFree
<1>3. ASSUME NEW w \in Windows PROVE RunFair(w)'
  BY RunFrame DEF RunsInv
<1> QED BY <1>1, <1>2, <1>3 DEF RunsInv

\* A step of one call at its window.
LEMMA CallStep ==
    ASSUME RunsInv, NEW k \in Calls, NEW w \in Windows,
           \A l \in Calls \ {k} : call[l] # Idle => call[l].window # w,
           DOMAIN call' = Calls /\ call' = [l \in Calls |-> call'[l]],
           DOMAIN run' = Windows /\ run' = [v \in Windows |-> run'[v]],
           DOMAIN items' = Windows /\ items' = [v \in Windows |-> items'[v]],
           \A l \in Calls \ {k} : call'[l] = call[l],
           \A v \in Windows \ {w} : run'[v] = run[v] /\ items'[v] = items[v],
           UNCHANGED <<contract, now, delivered, waived, crashes>>,
           call'[k].at \in Statements => LoopFree \/ call[k].at \in Statements,
           call'[k] = Idle \/ CallFair(call[k])', RunFair(w)'
    PROVE  RunsInv'
<1>1. Base' /\ Grows
  BY DEF RunsInv, Base, Grows
<1>2. OneAtWork'
  BY DEF RunsInv, OneAtWork, LoopFree
<1>3. ASSUME NEW l \in Calls \ {k}, call[l] # Idle PROVE CallFair(call[l])'
  <2>1. CallFair(call[l]) /\ call[l].window \in Windows \ {w}
    BY <1>3 DEF RunsInv, CallFair
  <2> QED BY <1>1, <2>1, CallFrame
<1>4. ASSUME NEW v \in Windows \ {w} PROVE RunFair(v)'
  BY <1>1, RunFrame DEF RunsInv
<1> QED BY <1>1, <1>2, <1>3, <1>4 DEF RunsInv

-----------------------------------------------------------------------------
(* The steps of a call                                                     *)

\* What RunsInv says of a call that is served.
LEMMA Served ==
    ASSUME RunsInv, Apart, NEW k \in Calls, call[k] # Idle
    PROVE  /\ CallFair(call[k]) /\ call[k].window \in Windows
           /\ RunFair(call[k].window)
           /\ \A l \in Calls \ {k} : call[l] # Idle => call[l].window # call[k].window
BY DEF RunsInv, CallFair, Apart

\* The functions that hold the rows, the items and the calls.
LEMMA Shapes ==
    ASSUME RunsInv
    PROVE  /\ DOMAIN run = Windows /\ run = [w \in Windows |-> run[w]]
           /\ DOMAIN call = Calls /\ call = [k \in Calls |-> call[k]]
           /\ DOMAIN items = Windows /\ items = [w \in Windows |-> items[w]]
           /\ now \in Nat /\ now \in Instants
BY ReconciliationAssumption DEF RunsInv, Base, Instants

\* A match that is still empty.
LEMMA NothingFound == NoMatch \in Finding
BY DEF NoMatch, Finding

\* A request that finds its window free begins a run of it.
LEMMA StartStep ==
    ASSUME RunsInv, Apart', NEW k \in Calls, NEW w \in Windows, Start(k, w)
    PROVE  RunsInv'
<1>1. /\ LoopFree /\ call[k] = Idle /\ ~AnsweredBy(w)
      /\ IF run[w] = NoRun
         THEN run' = [run EXCEPT ![w] = Started] /\ UNCHANGED items
         ELSE /\ run' = [run EXCEPT ![w].status = "running", ![w].completed = None,
                                    ![w].started = now]
              /\ items' = [items EXCEPT ![w] = <<>>]
      /\ call' = [call EXCEPT ![k] = [at |-> "source", window |-> w, began |-> now,
                                      match |-> NoMatch]]
      /\ UNCHANGED <<contract, now, delivered, waived, crashes>>
  BY DEF Start, Kept, bounds
<1>2. /\ DOMAIN run = Windows /\ run = [v \in Windows |-> run[v]]
      /\ DOMAIN call = Calls /\ call = [l \in Calls |-> call[l]]
      /\ DOMAIN items = Windows /\ items = [v \in Windows |-> items[v]]
      /\ now \in Nat
  BY Shapes
<1>3. call'[k] = [at |-> "source", window |-> w, began |-> now, match |-> NoMatch]
  BY <1>1, <1>2
<1>4. \A l \in Calls \ {k} : call[l] # Idle => call[l].window # w
  BY <1>1, <1>2, <1>3 DEF Apart, Idle
<1>5. /\ run'[w] \in Row /\ run'[w].status = "running" /\ run'[w].completed = None
      /\ run'[w].started = now /\ items'[w] = <<>>
  <2>1. CASE run[w] = NoRun
    <3>1. items[w] = <<>>
      BY <2>1 DEF RunsInv, RunFair, Row, NoRun, Judged
    <3>2. run'[w] = Started /\ items' = items
      BY <1>1, <1>2, <2>1
    <3> QED BY <1>2, <2>1, <3>1, <3>2, NothingFound DEF Started, Row
  <2>2. CASE run[w] # NoRun
    <3>1. run[w] \in Row
      BY <2>2 DEF RunsInv, RunFair
    <3>2. run'[w] = [run[w] EXCEPT !.status = "running", !.completed = None, !.started = now]
      BY <1>1, <1>2, <2>2
    <3>3. items'[w] = <<>>
      BY <1>1, <1>2, <2>2
    <3> QED BY <1>2, <3>1, <3>2, <3>3 DEF Row
  <2> QED BY <2>1, <2>2
<1>6. CallFair(call[k])'
  BY <1>2, <1>3, <1>5, NothingFound DEF CallFair, Places, InFlight, Statements
<1>7. RunFair(w)'
  BY <1>1, <1>2, <1>5 DEF RunFair, None
<1>8. /\ DOMAIN call' = Calls /\ call' = [l \in Calls |-> call'[l]]
      /\ DOMAIN run' = Windows /\ run' = [v \in Windows |-> run'[v]]
      /\ DOMAIN items' = Windows /\ items' = [v \in Windows |-> items'[v]]
      /\ \A l \in Calls \ {k} : call'[l] = call[l]
      /\ \A v \in Windows \ {w} : run'[v] = run[v] /\ items'[v] = items[v]
  BY <1>1, <1>2
<1>9. call'[k].at \in Statements => LoopFree \/ call[k].at \in Statements
  BY <1>1
<1> QED BY <1>1, <1>4, <1>6, <1>7, <1>8, <1>9, CallStep

\* The source's answer keeps RunsInv,
LEMMA SourceAnswersStep ==
    ASSUME RunsInv, Apart, NEW k \in Calls, SourceAnswers(k),
           NEW w, w = call[k].window
    PROVE  RunsInv'
<1> DEFINE rows == SourceRows(w)
<1>0. /\ DOMAIN run = Windows /\ run = [v \in Windows |-> run[v]]
      /\ DOMAIN call = Calls /\ call = [l \in Calls |-> call[l]]
      /\ DOMAIN items = Windows /\ items = [v \in Windows |-> items[v]]
      /\ now \in Nat
  BY Shapes
<1>1. PICK first : call' = [call EXCEPT ![k] =
                            [at |-> "destination", window |-> @.window,
                             began |-> @.began, match |-> NoMatch,
                             source |-> rows, first |-> first]]
  BY DEF SourceAnswers
<1>2. /\ call[k].at = "source" /\ LoopFree
      /\ UNCHANGED <<contract, now, delivered, run, items, waived, crashes>>
  BY DEF SourceAnswers, bounds
<1>3. call[k] # Idle
  BY <1>2 DEF Idle
<1>4. /\ CallFair(call[k]) /\ w \in Windows /\ RunFair(w)
      /\ \A l \in Calls \ {k} : call[l] # Idle => call[l].window # w
  BY <1>3, Served
<1>5. call'[k] = [at |-> "destination", window |-> w, began |-> call[k].began,
                  match |-> NoMatch, source |-> rows, first |-> first]
  BY <1>0, <1>1
<1>6. CallFair(call[k])'
  <2>1. call[k].began \in Nat /\ call[k].began <= now
    BY <1>2, <1>4 DEF CallFair, RunFair, InFlight, Row, NoRun
  <2>2. SourceRead(call[k])'
    <3>1. rows \subseteq Emails \X Instants
      BY DEF SourceRows
    <3>2. ASSUME NEW e \in Emails, NEW u \in RegisteredAt[e],
                 u <= call[k].began, Within(w, u)
          PROVE  <<e, u>> \in rows
      <4>1. u \in Nat /\ now \in Nat /\ now \in 0 .. MaxTime
        BY Shapes, ReconciliationAssumption DEF Instants
      <4>2. u <= now /\ u \in Instants
        BY <2>1, <3>2, <4>1, ReconciliationAssumption DEF Instants
      <4> QED BY <3>2, <4>2 DEF SourceRows
    <3> QED BY <1>5, <3>1, <3>2 DEF SourceRead
  <2> QED BY <1>2, <1>4, <1>5, <2>1, <2>2, NothingFound
          DEF CallFair, Places, InFlight, Statements
<1>7. RunFair(w)'
  BY <1>2, <1>4, RunFrame DEF RunsInv, Grows
<1>8. /\ DOMAIN run' = Windows /\ run' = [v \in Windows |-> run'[v]]
      /\ DOMAIN items' = Windows /\ items' = [v \in Windows |-> items'[v]]
      /\ \A v \in Windows \ {w} : run'[v] = run[v] /\ items'[v] = items[v]
      /\ DOMAIN call' = Calls /\ call' = [l \in Calls |-> call'[l]]
      /\ \A l \in Calls \ {k} : call'[l] = call[l]
  BY <1>0, <1>1, <1>2
<1> QED BY <1>2, <1>4, <1>6, <1>7, <1>8, CallStep

\* the reading of the destination too,
LEMMA DestinationReadsStep ==
    ASSUME RunsInv, Apart, NEW k \in Calls, DestinationReads(k),
           NEW w, w = call[k].window
    PROVE  RunsInv'
<1> DEFINE rows == DestinationRows(w)
<1>0. /\ DOMAIN run = Windows /\ run = [v \in Windows |-> run[v]]
      /\ DOMAIN call = Calls /\ call = [l \in Calls |-> call[l]]
      /\ DOMAIN items = Windows /\ items = [v \in Windows |-> items[v]]
      /\ now \in Nat
  BY Shapes
<1>1. /\ call' = [call EXCEPT ![k] =
                  [at |-> "answered", window |-> @.window, began |-> @.began,
                   match |-> NoMatch, source |-> @.source, first |-> @.first,
                   destination |-> rows]]
      /\ call[k].at = "destination"
      /\ UNCHANGED <<contract, now, delivered, run, items, waived, crashes>>
  BY DEF DestinationReads, bounds
<1>3. call[k] # Idle
  BY <1>1 DEF Idle
<1>4. /\ CallFair(call[k]) /\ w \in Windows /\ RunFair(w)
      /\ \A l \in Calls \ {k} : call[l] # Idle => call[l].window # w
  BY <1>3, Served
<1>5. call'[k] = [at |-> "answered", window |-> w, began |-> call[k].began,
                  match |-> NoMatch, source |-> call[k].source, first |-> call[k].first,
                  destination |-> rows]
  BY <1>0, <1>1
<1>6. CallFair(call[k])'
  <2>1. SourceRead(call[k])'
    BY <1>1, <1>4, <1>5 DEF CallFair, SourceRead
  <2>2. DestinationRead(call[k])'
    BY <1>1, <1>5 DEF DestinationRead, DestinationRows
  <2> QED BY <1>1, <1>4, <1>5, <2>1, <2>2, NothingFound
          DEF CallFair, Places, InFlight, Statements
<1>7. RunFair(w)'
  BY <1>1, <1>4, RunFrame DEF RunsInv, Grows
<1>8. /\ DOMAIN run' = Windows /\ run' = [v \in Windows |-> run'[v]]
      /\ DOMAIN items' = Windows /\ items' = [v \in Windows |-> items'[v]]
      /\ \A v \in Windows \ {w} : run'[v] = run[v] /\ items'[v] = items[v]
      /\ DOMAIN call' = Calls /\ call' = [l \in Calls |-> call'[l]]
      /\ \A l \in Calls \ {k} : call'[l] = call[l]
      /\ call'[k].at \notin Statements
  BY <1>0, <1>1, <1>5 DEF Statements
<1> QED BY <1>1, <1>4, <1>6, <1>7, <1>8, CallStep

\* What is left of a run whose call failed.
LEMMA FailedRow ==
    ASSUME NEW r \in Row, now \in Nat,
           NEW error \in {"none", "source", "destination", "constraint"},
           NEW next, next = Failed(r, error)
    PROVE  /\ next \in Row /\ next.status = "failed" /\ next.evidence = "medium"
           /\ next.completed = now /\ next.error = error /\ next.started = r.started
           /\ next.found = r.found
BY DEF Failed, Row, Judged, None

\* the end of a run that failed,
LEMMA FailRunStep ==
    ASSUME RunsInv, Apart, NEW k \in Calls, FailRun(k),
           NEW w, w = call[k].window
    PROVE  RunsInv'
<1>0. /\ DOMAIN run = Windows /\ run = [v \in Windows |-> run[v]]
      /\ DOMAIN call = Calls /\ call = [l \in Calls |-> call[l]]
      /\ DOMAIN items = Windows /\ items = [v \in Windows |-> items[v]]
      /\ now \in Nat
  BY Shapes
<1>1. /\ call[k].at = "failed"
      /\ run' = [run EXCEPT ![w] = Failed(@, call[k].error)]
      /\ call' = [call EXCEPT ![k] = Idle]
      /\ UNCHANGED <<contract, now, delivered, items, waived, crashes>>
  BY DEF FailRun, bounds
<1>3. call[k] # Idle
  BY <1>1 DEF Idle
<1>4. /\ CallFair(call[k]) /\ w \in Windows /\ RunFair(w)
      /\ \A l \in Calls \ {k} : call[l] # Idle => call[l].window # w
  BY <1>3, Served
<1>5. call'[k] = Idle /\ run'[w] = Failed(run[w], call[k].error)
  BY <1>1, <1>0, <1>4
<1>6. /\ run[w] \in Row /\ run[w].started <= now
      /\ call[k].error \in {"source", "destination"}
  BY <1>1, <1>4 DEF CallFair, RunFair, Connectors, Row, NoRun
<1>7. /\ run'[w] \in Row /\ run'[w].status = "failed" /\ run'[w].completed = now
      /\ run'[w].error \in {"source", "destination"} /\ run'[w].started = run[w].started
  BY <1>5, <1>6, FailedRow, Shapes
<1>8. RunFair(w)'
  BY <1>1, <1>6, <1>7, <1>0 DEF RunFair, None
<1>9. /\ DOMAIN call' = Calls /\ call' = [l \in Calls |-> call'[l]]
      /\ DOMAIN run' = Windows /\ run' = [v \in Windows |-> run'[v]]
      /\ \A l \in Calls \ {k} : call'[l] = call[l]
      /\ DOMAIN items' = Windows /\ items' = [v \in Windows |-> items'[v]]
      /\ \A v \in Windows \ {w} : run'[v] = run[v] /\ items'[v] = items[v]
      /\ call'[k].at \notin Statements
  BY <1>0, <1>1, <1>5 DEF Statements, Idle
<1> QED BY <1>1, <1>4, <1>5, <1>8, <1>9, CallStep

\* The statement that a call executes changes its call, and nothing of its window.
LEMMA OwnStep ==
    ASSUME RunsInv, Apart, NEW k \in Calls, call[k] # Idle, NEW w, w = call[k].window, NEW c,
           call' = [call EXCEPT ![k] = c],
           UNCHANGED <<contract, now, delivered, run, items, waived, crashes>>,
           c.at \in Statements => LoopFree \/ call[k].at \in Statements,
           c = Idle \/ CallFair(call[k])'
    PROVE  RunsInv'
<1>1. /\ DOMAIN run = Windows /\ run = [v \in Windows |-> run[v]]
      /\ DOMAIN call = Calls /\ call = [l \in Calls |-> call[l]]
      /\ DOMAIN items = Windows /\ items = [v \in Windows |-> items[v]]
      /\ now \in Nat
  BY Shapes
<1>2. /\ w \in Windows /\ RunFair(w)
      /\ \A l \in Calls \ {k} : call[l] # Idle => call[l].window # w
  BY Served
<1>3. RunFair(w)'
  BY <1>2, RunFrame DEF RunsInv, Grows
<1>4. /\ DOMAIN call' = Calls /\ call' = [l \in Calls |-> call'[l]]
      /\ \A l \in Calls \ {k} : call'[l] = call[l]
      /\ call'[k] = c
      /\ DOMAIN run' = Windows /\ run' = [v \in Windows |-> run'[v]]
      /\ DOMAIN items' = Windows /\ items' = [v \in Windows |-> items'[v]]
      /\ \A v \in Windows \ {w} : run'[v] = run[v] /\ items'[v] = items[v]
  BY <1>1
<1> QED BY <1>2, <1>3, <1>4, CallStep

\* a failed fetch,
LEMMA FetchFailsStep ==
    ASSUME RunsInv, Apart, NEW k \in Calls, FetchFails(k), NEW w, w = call[k].window
    PROVE  RunsInv'
<1>1. PICK c : c = [at |-> "failed", window |-> w, began |-> call[k].began,
                    match |-> NoMatch, error |-> call[k].at]
  OBVIOUS
<1>2. /\ LoopFree /\ call[k].at \in Connectors
      /\ call' = [call EXCEPT ![k] = c]
      /\ UNCHANGED <<contract, now, delivered, run, items, waived, crashes>>
  BY <1>1 DEF FetchFails, bounds
<1>3. call[k] # Idle
  BY <1>2 DEF Idle, Connectors
<1>4. CallFair(call[k]) /\ w \in Windows
  BY <1>3, Served
<1>5. call'[k] = c
  BY <1>2, Shapes
<1>6. /\ c.at = "failed" /\ c.window = w /\ c.began = call[k].began /\ c.match = NoMatch
      /\ c.error \in Connectors
  BY <1>1, <1>2
<1>7. CallFair(call[k])'
  BY <1>2, <1>4, <1>5, <1>6, NothingFound
     DEF CallFair, Places, InFlight, Statements, Connectors
<1> QED BY <1>2, <1>3, <1>7, OwnStep

\* an answer from a finished run,
LEMMA AnsweredStep ==
    ASSUME RunsInv, Apart, NEW k \in Calls, Answered(k), NEW w, w = call[k].window
    PROVE  RunsInv'
<1>1. PICK m : m = IF contract.mode = "reconciliation"
                   THEN ByEmail(call[k].first, call[k].source, call[k].destination)
                   ELSE Aggregate(call[k].source, call[k].destination)
  OBVIOUS
<1>2. PICK c : c = [at |-> IF contract.mode = "reconciliation" THEN "insert" ELSE "update",
                    window |-> w, began |-> call[k].began, match |-> m]
  OBVIOUS
<1>3. /\ LoopFree /\ call[k].at = "answered"
      /\ call' = [call EXCEPT ![k] = c]
      /\ UNCHANGED <<contract, now, delivered, run, items, waived, crashes>>
  BY <1>1, <1>2 DEF Answered, bounds
<1>4. call[k] # Idle
  BY <1>3 DEF Idle
<1>5. CallFair(call[k]) /\ w \in Windows
  BY <1>4, Served
<1>6. SourceRead(call[k]) /\ DestinationRead(call[k])
  BY <1>3, <1>5 DEF CallFair
<1>7. m \in Finding
  BY <1>1, <1>6, ByEmailDoes, AggregateDoes DEF SourceRead, DestinationRead
<1>8. ASSUME contract.mode = Recording
      PROVE  MatchFair(w, call[k].began, m) /\ Counted(m.items, m)
  <2>1. m = ByEmail(call[k].first, call[k].source, call[k].destination)
    BY <1>1, <1>8 DEF Recording
  <2>2. /\ Counted(m.items, m)
        /\ m.missing = 0 /\ m.waiting = 0 =>
              \A e \in SeenIn(call[k].source) : Arrivals(e, call[k].destination) # {}
    BY <1>6, <2>1, ByEmailDoes DEF SourceRead, DestinationRead
  <2>3. ASSUME NEW e \in Emails, Arrivals(e, call[k].destination) # {}
        PROVE  \E v \in delivered[e] : Within(w, v)
    BY <1>6, <2>3 DEF DestinationRead, Arrivals
  <2>4. ASSUME NEW e \in Emails, NEW u \in RegisteredAt[e], u <= call[k].began, Within(w, u)
        PROVE  e \in SeenIn(call[k].source)
    <3>1. <<e, u>> \in call[k].source
      BY <1>6, <2>4 DEF SourceRead
    <3>2. <<e, u>>[1] = e
      OBVIOUS
    <3> QED BY <3>1, <3>2 DEF SeenIn
  <2> QED BY <2>2, <2>3, <2>4 DEF MatchFair, Covered
<1>9. CallFair(call[k])'
  <2>1. call'[k] = c
    BY <1>3, Shapes
  <2>2. /\ call'[k].at \in {"insert", "update"} /\ call'[k].window = w
        /\ call'[k].began = call[k].began /\ call'[k].match = m
        /\ call'[k].at = IF contract.mode = Recording THEN "insert" ELSE "update"
    BY <1>2, <2>1 DEF Recording
  <2>3. contract.mode = Recording =>
           MatchFair(call[k].window, call[k].began, call[k].match)'
    BY <1>3, <1>8, <2>2 DEF MatchFair, Covered
  <2>4. /\ run[w] \in Row /\ run[w].status = "running" /\ run[w].started = call[k].began
        /\ items[w] = <<>> /\ call[k].began \in Nat
    BY <1>3, <1>5 DEF CallFair, InFlight
  <2> QED BY <1>3, <1>5, <1>7, <1>8, <2>2, <2>3, <2>4
          DEF CallFair, Places, InFlight, Statements
<1> QED BY <1>3, <1>4, <1>9, OwnStep

\* the items,
LEMMA InsertItemsStep ==
    ASSUME RunsInv, Apart, NEW k \in Calls, InsertItems(k), NEW w, w = call[k].window
    PROVE  RunsInv'
<1>0. /\ DOMAIN run = Windows /\ run = [v \in Windows |-> run[v]]
      /\ DOMAIN call = Calls /\ call = [l \in Calls |-> call[l]]
      /\ DOMAIN items = Windows /\ items = [v \in Windows |-> items[v]]
      /\ now \in Nat
  BY Shapes
<1>1. /\ call[k].at = "insert"
      /\ items' = [items EXCEPT ![w] = Append(@, call[k].match.items)]
      /\ call' = [call EXCEPT ![k].at = "update"]
      /\ UNCHANGED <<contract, now, delivered, run, waived, crashes>>
  BY DEF InsertItems, bounds
<1>2. call[k] # Idle
  BY <1>1 DEF Idle
<1>3. /\ CallFair(call[k]) /\ w \in Windows /\ RunFair(w)
      /\ \A l \in Calls \ {k} : call[l] # Idle => call[l].window # w
  BY <1>2, Served
<1>4. /\ call[k].window \in Windows /\ call[k].began \in Nat /\ call[k].match \in Finding
      /\ contract.mode = Recording
      /\ run[w] \in Row /\ run[w].status = "running" /\ run[w].started = call[k].began
      /\ items[w] = <<>>
      /\ MatchFair(w, call[k].began, call[k].match)
      /\ Counted(call[k].match.items, call[k].match)
  BY <1>1, <1>3 DEF CallFair
<1>5. items'[w] = <<call[k].match.items>>
  <2>1. items'[w] = Append(items[w], call[k].match.items)
    BY <1>0, <1>1, <1>3
  <2>2. Append(<<>>, call[k].match.items) = <<call[k].match.items>>
    OBVIOUS
  <2> QED BY <1>4, <2>1, <2>2
<1>6. call'[k] = [call[k] EXCEPT !.at = "update"]
  BY <1>0, <1>1
<1>7. /\ call'[k].window = w /\ call'[k].began = call[k].began
      /\ call'[k].match = call[k].match
  BY <1>6
<1>8. call'[k].at = "update"
  BY <1>6, <1>1
<1>9. CallFair(call[k])'
  BY <1>1, <1>3, <1>4, <1>5, <1>7, <1>8
     DEF CallFair, Places, InFlight, Statements, MatchFair, Covered
<1>10. RunFair(w)'
  BY <1>1, <1>3, <1>4 DEF RunFair, Row, NoRun, Covered
<1>11. /\ DOMAIN call' = Calls /\ call' = [l \in Calls |-> call'[l]]
       /\ \A l \in Calls \ {k} : call'[l] = call[l]
       /\ DOMAIN run' = Windows /\ run' = [v \in Windows |-> run'[v]]
       /\ DOMAIN items' = Windows /\ items' = [v \in Windows |-> items'[v]]
       /\ \A v \in Windows \ {w} : run'[v] = run[v] /\ items'[v] = items[v]
       /\ call[k].at \in Statements
  BY <1>0, <1>1 DEF Statements
<1> QED BY <1>1, <1>3, <1>9, <1>10, <1>11, CallStep

\* A verdict is good, and the evidence high, only when nothing misses or is awaited.
LEMMA VerdictDoes ==
    ASSUME NEW m \in Finding
    PROVE  /\ Verdict(m) \in Judged /\ Evidence(m) \in {"medium", "high"}
           /\ Verdict(m) = "healthy" \/ Evidence(m) = "high" =>
                 m.missing = 0 /\ m.waiting = 0
<1>1. m.missing \in Nat /\ m.waiting \in Nat
  BY DEF Finding
<1>2. Verdict(m) \in Judged
  BY DEF Verdict, Judged
<1>3. Verdict(m) = "healthy" => m.missing = 0 /\ m.waiting = 0
  BY <1>1 DEF Verdict
<1>4. Evidence(m) \in {"medium", "high"} /\ (Evidence(m) = "high" => m.missing = 0 /\ m.waiting = 0)
  BY DEF Evidence
<1> QED BY <1>2, <1>3, <1>4

\* The row keeps what was counted, but for the items.
LEMMA KeptFinding ==
    ASSUME NEW m \in Finding, NEW next, next = [m EXCEPT !.items = {}]
    PROVE  /\ next \in Finding /\ next.missing = m.missing
           /\ \A list : Counted(list, m) => Counted(list, next)
<1>1. next \in Finding /\ next.missing = m.missing
  BY DEF Finding
<1>2. ASSUME NEW s \in Found PROVE next[s] = m[s]
  BY DEF Found, Finding
<1> QED BY <1>1, <1>2 DEF Counted

\* the run's verdict,
LEMMA UpdateRunStep ==
    ASSUME RunsInv, Apart, NEW k \in Calls, UpdateRun(k), NEW w, w = call[k].window
    PROVE  RunsInv'
<1>0. /\ DOMAIN run = Windows /\ run = [v \in Windows |-> run[v]]
      /\ DOMAIN call = Calls /\ call = [l \in Calls |-> call[l]]
      /\ DOMAIN items = Windows /\ items = [v \in Windows |-> items[v]]
      /\ now \in Nat
  BY Shapes
<1>1. PICK m : m = call[k].match
  OBVIOUS
<1>2. PICK found : found = [m EXCEPT !.items = {}]
  OBVIOUS
<1>3. /\ call[k].at = "update"
      /\ run' = [run EXCEPT ![w] = [@ EXCEPT !.status = Verdict(m), !.found = found,
                                             !.evidence = Evidence(m), !.completed = now,
                                             !.error = "none"]]
      /\ call' = [call EXCEPT ![k].at = "incidents"]
      /\ UNCHANGED <<contract, now, delivered, items, waived, crashes>>
  BY <1>1, <1>2 DEF UpdateRun, bounds
<1>4. call[k] # Idle
  BY <1>3 DEF Idle
<1>5. /\ CallFair(call[k]) /\ w \in Windows /\ RunFair(w)
      /\ \A l \in Calls \ {k} : call[l] # Idle => call[l].window # w
  BY <1>4, Served
<1>6. /\ m \in Finding /\ call[k].began \in Nat
      /\ run[w] \in Row /\ run[w].started = call[k].began
      /\ contract.mode = Recording =>
            /\ MatchFair(w, call[k].began, m) /\ Counted(m.items, m)
            /\ items[w] = <<m.items>>
  BY <1>1, <1>3, <1>5 DEF CallFair
<1>7. run[w].started <= now
  BY <1>5, <1>6 DEF RunFair, NoRun, Row, Judged
<1>8. /\ found \in Finding /\ found.missing = m.missing
      /\ \A list : Counted(list, m) => Counted(list, found)
  BY <1>2, <1>6, KeptFinding
<1>9. /\ Verdict(m) \in Judged /\ Evidence(m) \in {"medium", "high"}
      /\ Verdict(m) = "healthy" \/ Evidence(m) = "high" => m.missing = 0 /\ m.waiting = 0
  BY <1>6, VerdictDoes
<1>10. PICK verdict, evidence : verdict = Verdict(m) /\ evidence = Evidence(m)
  OBVIOUS
<1>11. run'[w] = [run[w] EXCEPT !.status = verdict, !.found = found, !.evidence = evidence,
                                !.completed = now, !.error = "none"]
  BY <1>0, <1>3, <1>5, <1>10
<1>12. /\ run'[w] \in Row /\ run'[w].status = verdict /\ run'[w].found = found
       /\ run'[w].evidence = evidence /\ run'[w].completed = now
       /\ run'[w].error = "none" /\ run'[w].started = run[w].started
  BY <1>0, <1>6, <1>8, <1>9, <1>10, <1>11 DEF Row
<1>13. /\ call'[k] = [call[k] EXCEPT !.at = "incidents"]
       /\ call'[k].at = "incidents" /\ call'[k].window = w
       /\ call'[k].began = call[k].began /\ call'[k].match = m
  <2>1. call'[k] = [call[k] EXCEPT !.at = "incidents"]
    BY <1>0, <1>3
  <2> QED BY <1>1, <2>1
<1>14. CallFair(call[k])'
  BY <1>3, <1>5, <1>6, <1>8, <1>9, <1>10, <1>12, <1>13
     DEF CallFair, Places, InFlight, Statements
<1>15. RunFair(w)'
  <2>1. contract.mode = Recording /\ (verdict = "healthy" \/ evidence = "high") =>
           found.missing = 0 /\ Covered(w, run[w].started)
    BY <1>6, <1>8, <1>9, <1>10 DEF MatchFair
  <2>2. contract.mode = Recording => Len(items[w]) = 1 /\ Counted(items[w][1], found)
    <3>1. Len(<<m.items>>) = 1 /\ <<m.items>>[1] = m.items
      OBVIOUS
    <3> QED BY <1>6, <1>8, <3>1
  <2>3. run'[w].status # "running" /\ run'[w].completed # None /\ run'[w].completed <= now
    BY <1>0, <1>9, <1>10, <1>12 DEF Judged, None
  <2>4. Covered(w, run[w].started) => Covered(w, run[w].started)'
    BY <1>3, <1>12 DEF Covered
  <2> QED BY <1>3, <1>7, <1>12, <2>1, <2>2, <2>3, <2>4 DEF RunFair
<1>16. /\ DOMAIN call' = Calls /\ call' = [l \in Calls |-> call'[l]]
       /\ \A l \in Calls \ {k} : call'[l] = call[l]
       /\ DOMAIN run' = Windows /\ run' = [v \in Windows |-> run'[v]]
       /\ DOMAIN items' = Windows /\ items' = [v \in Windows |-> items'[v]]
       /\ \A v \in Windows \ {w} : run'[v] = run[v] /\ items'[v] = items[v]
       /\ call[k].at \in Statements
  BY <1>0, <1>3 DEF Statements
<1> QED BY <1>3, <1>5, <1>14, <1>15, <1>16, CallStep

\* the incidents that follow from it,
LEMMA SyncIncidentsStep ==
    ASSUME RunsInv, Apart, NEW k \in Calls, SyncIncidents(k), NEW w, w = call[k].window
    PROVE  RunsInv'
<1>1. PICK c : c = IF contract.mode = "reconciliation"
                   THEN [call[k] EXCEPT !.at = "purge"] ELSE Idle
  OBVIOUS
<1>2. /\ call[k].at = "incidents"
      /\ call' = [call EXCEPT ![k] = c]
      /\ UNCHANGED <<contract, now, delivered, run, items, waived, crashes>>
  BY <1>1 DEF SyncIncidents, bounds
<1>3. call[k] # Idle
  BY <1>2 DEF Idle
<1>4. CallFair(call[k]) /\ w \in Windows
  BY <1>3, Served
<1>5. call'[k] = c
  BY <1>2, Shapes
<1>6. CASE contract.mode # "reconciliation"
  BY <1>1, <1>2, <1>3, <1>6, OwnStep DEF Statements
<1>7. CASE contract.mode = "reconciliation"
  <2>1. c = [call[k] EXCEPT !.at = "purge"]
    BY <1>1, <1>7
  <2>2. /\ c.at = "purge" /\ c.window = w /\ c.began = call[k].began
        /\ c.match = call[k].match
    BY <2>1
  <2>3. CallFair(call[k])'
    BY <1>2, <1>4, <1>5, <1>7, <2>2
       DEF CallFair, Places, InFlight, Statements, Recording
  <2> QED BY <1>2, <1>3, <2>3, OwnStep DEF Statements
<1> QED BY <1>6, <1>7

\* A run that is under way is not expired, nor is one that ends now.
LEMMA NotExpired ==
    ASSUME RunsInv, NEW w \in Windows,
           \/ run[w] \in Row /\ run[w].status = "running"
           \/ run[w] \in Row /\ run[w].completed = now
    PROVE  w \notin Expired
<1>1. now \in Nat /\ contract.retention \in Nat /\ RunFair(w)
  BY Shapes, Retained DEF RunsInv
<1>2. run[w].completed = None \/ run[w].completed = now
  BY <1>1 DEF RunFair, Row, NoRun, Judged
<1> QED BY <1>1, <1>2 DEF Expired

\* the purge of old runs,
LEMMA PurgeStep ==
    ASSUME RunsInv, Apart, NEW k \in Calls, Purge(k), NEW w, w = call[k].window
    PROVE  RunsInv'
<1>0. /\ DOMAIN run = Windows /\ run = [v \in Windows |-> run[v]]
      /\ DOMAIN call = Calls /\ call = [l \in Calls |-> call[l]]
      /\ DOMAIN items = Windows /\ items = [v \in Windows |-> items[v]]
      /\ now \in Nat
  BY Shapes
<1>1. PICK gone \in SUBSET Expired, stuck \in SUBSET Expired :
         /\ items' = [v \in Windows |-> IF v \in gone \cup stuck THEN <<>> ELSE items[v]]
         /\ run' = [v \in Windows |->
                       IF v \in gone THEN NoRun
                       ELSE IF stuck # {} /\ v = w
                            THEN Failed(run[v], "constraint") ELSE run[v]]
  <2>1. PICK gone \in SUBSET (Expired \ {v \in Expired : referenced[v]}),
             stuck \in SUBSET {v \in Expired : referenced[v]} :
         /\ items' = [v \in Windows |-> IF v \in gone \cup stuck THEN <<>> ELSE items[v]]
         /\ run' = [v \in Windows |->
                       IF v \in gone THEN NoRun
                       ELSE IF stuck # {} /\ v = call[k].window
                            THEN Failed(run[v], "constraint") ELSE run[v]]
    BY DEF Purge
  <2>2. gone \in SUBSET Expired /\ stuck \in SUBSET Expired
    BY <2>1
  <2> QED BY <2>1, <2>2
<1>2. /\ call[k].at = "purge"
      /\ call' = [call EXCEPT ![k] = Idle]
      /\ UNCHANGED <<contract, now, delivered, waived, crashes>>
  BY DEF Purge, bounds
<1>3. call[k] # Idle
  BY <1>2 DEF Idle
<1>4. /\ CallFair(call[k]) /\ w \in Windows /\ RunFair(w)
      /\ \A l \in Calls \ {k} : call[l] # Idle => call[l].window # w
  BY <1>3, Served
<1>5. run[w] \in Row /\ run[w].status \in Judged /\ run[w].completed = now
  BY <1>2, <1>4 DEF CallFair
<1>6. w \notin gone \cup stuck
  BY <1>4, <1>5, NotExpired
<1>7. Base /\ Grows /\ Base'
  BY <1>0, <1>1, <1>2 DEF RunsInv, Base, Grows
<1>8. OneAtWork'
  BY <1>0, <1>2 DEF OneAtWork, Idle, Statements, RunsInv
<1>9. ASSUME NEW l \in Calls \ {k}, call[l] # Idle PROVE CallFair(call[l])'
  <2>1. PICK v : v = call[l].window
    OBVIOUS
  <2>2. CallFair(call[l]) /\ v \in Windows \ {w} /\ call[l].at \notin Statements
    BY <1>2, <1>4, <1>9, <2>1 DEF RunsInv, OneAtWork, CallFair, Statements
  <2>3. run[v] \in Row /\ run[v].status = "running"
    BY <2>1, <2>2 DEF CallFair, Places
  <2>4. v \notin gone \cup stuck
    BY <2>2, <2>3, NotExpired
  <2>5. run'[v] = run[v] /\ items'[v] = items[v] /\ call'[l] = call[l]
    BY <1>0, <1>1, <1>2, <2>2, <2>4
  <2> QED BY <1>2, <1>7, <2>1, <2>2, <2>5, CallFrame
<1>10. ASSUME NEW v \in Windows PROVE RunFair(v)'
  <2>0. RunFair(v)
    BY DEF RunsInv
  <2>1. CASE v \in gone
    BY <1>1, <2>1 DEF RunFair
  <2>2. CASE v \in stuck \ gone
    <3>1. run'[v] = run[v] /\ items'[v] = <<>> /\ run[v] # NoRun /\ v \in Expired
      BY <1>1, <1>6, <2>2 DEF Expired
    <3>2. v \in Expired'
      BY <1>2, <3>1 DEF Expired
    <3>3. Covered(v, run[v].started) => Covered(v, run[v].started)'
      BY <1>2, <3>1 DEF Covered
    <3> QED BY <1>2, <2>0, <3>1, <3>2, <3>3 DEF RunFair
  <2>3. CASE v = w /\ stuck # {}
    <3>1. run'[w] = Failed(run[w], "constraint") /\ items'[w] = items[w]
      BY <1>1, <1>4, <1>6, <2>3
    <3>2. /\ run'[w] \in Row /\ run'[w].status = "failed" /\ run'[w].error = "constraint"
          /\ run'[w].completed = now /\ run'[w].started = run[w].started
      BY <1>0, <1>5, <3>1, FailedRow
    <3>3. run[w].started <= now
      BY <1>4, <1>5 DEF RunFair, Row, NoRun, Judged
    <3> QED BY <1>0, <1>2, <2>3, <3>2, <3>3 DEF RunFair, None
  <2>4. CASE v \notin gone \cup stuck /\ ~(v = w /\ stuck # {})
    <3>1. run'[v] = run[v] /\ items'[v] = items[v]
      BY <1>1, <2>4
    <3> QED BY <1>2, <1>7, <2>0, <3>1, RunFrame
  <2> QED BY <2>1, <2>2, <2>3, <2>4
<1>11. \A l \in Calls : call'[l] = IF l = k THEN Idle ELSE call[l]
  BY <1>0, <1>2
<1> QED BY <1>7, <1>8, <1>9, <1>10, <1>11 DEF RunsInv

\* and the end of the process.
LEMMA CrashStep ==
    ASSUME RunsInv, Crash
    PROVE  RunsInv'
<1>1. /\ call' = [k \in Calls |-> Idle] /\ crashes' = crashes + 1
      /\ UNCHANGED <<contract, now, delivered, run, items, waived>>
  BY DEF Crash
<1>2. Base /\ Base' /\ Grows
  BY <1>1 DEF RunsInv, Base, Grows
<1>3. OneAtWork'
  BY <1>1 DEF OneAtWork, Idle, Statements
<1>4. ASSUME NEW w \in Windows PROVE RunFair(w)'
  BY <1>1, <1>2, RunFrame DEF RunsInv
<1> QED BY <1>1, <1>2, <1>3, <1>4 DEF RunsInv

\* Whatever else happens changes no row, no items and no call.
LEMMA OtherStep ==
    ASSUME RunsInv,
           \/ \E k \in Calls : Refuse(k)
           \/ \E k \in Calls, w \in Windows : Hit(k, w)
           \/ \E c \in Connectors : StartProbe(c) \/ FinishProbe(c) \/ Revoke(c)
           \/ Announce
           \/ Waive
           \/ \E w \in Windows : Export(w)
           \/ \E e \in Emails : Deliver(e)
           \/ Time
           \/ UNCHANGED vars
    PROVE  RunsInv'
<1>0. /\ Base /\ now \in Instants /\ delivered \in [Emails -> SUBSET Instants]
      /\ waived \in Nat /\ crashes \in Nat
  BY DEF RunsInv, Base
<1>1. CASE \E e \in Emails : Deliver(e)
  <2>1. PICK e \in Emails : Deliver(e)
    BY <1>1
  <2>2. /\ delivered' = [delivered EXCEPT ![e] = @ \cup {now}]
        /\ UNCHANGED <<contract, run, items, call, now, waived, crashes>>
    BY <2>1 DEF Deliver, bounds
  <2>3. delivered' \in [Emails -> SUBSET Instants] /\ Grows
    BY <1>0, <2>2 DEF Grows
  <2>4. /\ UNCHANGED <<contract, run, items, call>> /\ Grows
        /\ delivered' \in [Emails -> SUBSET Instants]
        /\ now' = now /\ now' \in Instants
        /\ waived' \in Nat /\ crashes' \in Nat
    BY <1>0, <2>2, <2>3
  <2> QED BY <2>4, RunsFrame DEF Grows
<1>2. CASE Time
  <2>1. /\ LoopFree /\ now < MaxTime /\ now' = now + 1
        /\ UNCHANGED <<contract, run, items, call, delivered, waived, crashes>>
    BY <1>2 DEF Time, bounds
  <2>2. now' \in Instants
    BY <1>0, <2>1, ReconciliationAssumption DEF Instants
  <2> QED BY <1>0, <2>1, <2>2, RunsFrame DEF Grows
<1>3. CASE Waive
  <2>1. /\ waived' = waived + 1
        /\ UNCHANGED <<contract, run, items, call, delivered, now, crashes>>
    BY <1>3 DEF Waive, bounds
  <2>2. waived' \in Nat /\ Grows
    BY <1>0, <2>1 DEF Grows
  <2>4. /\ UNCHANGED <<contract, run, items, call>> /\ Grows
        /\ delivered' \in [Emails -> SUBSET Instants]
        /\ now' = now /\ now' \in Instants
        /\ waived' \in Nat /\ crashes' \in Nat
    BY <1>0, <2>1, <2>2
  <2> QED BY <2>4, RunsFrame DEF Grows
<1>4. CASE \/ \E k \in Calls : Refuse(k)
           \/ \E k \in Calls, w \in Windows : Hit(k, w)
           \/ \E c \in Connectors : StartProbe(c) \/ FinishProbe(c) \/ Revoke(c)
           \/ \E w \in Windows : Export(w)
           \/ Announce
           \/ UNCHANGED vars
  <2>1. UNCHANGED <<contract, run, items, call, delivered, now, waived, crashes>>
    BY <1>4 DEF Refuse, Announce, Hit, StartProbe, FinishProbe, Revoke, Export, vars, bounds
  <2>2. Grows
    BY <2>1 DEF Grows
  <2>4. /\ UNCHANGED <<contract, run, items, call>> /\ Grows
        /\ delivered' \in [Emails -> SUBSET Instants]
        /\ now' = now /\ now' \in Instants
        /\ waived' \in Nat /\ crashes' \in Nat
    BY <1>0, <2>1, <2>2
  <2> QED BY <2>4, RunsFrame DEF Grows
<1> QED BY <1>1, <1>2, <1>3, <1>4

\* Every step keeps RunsInv while requests for one window keep apart.
LEMMA RunsStep == RunsInv /\ Apart /\ Apart' /\ [Next]_vars => RunsInv'
BY StartStep, SourceAnswersStep, DestinationReadsStep, FetchFailsStep, FailRunStep,
   AnsweredStep, InsertItemsStep, UpdateRunStep, SyncIncidentsStep, PurgeStep, CrashStep, OtherStep
   DEF Next, Proceed

\* No run has begun.
LEMMA RunsInit == Init => RunsInv
<1> SUFFICES ASSUME Init PROVE RunsInv
  OBVIOUS
<1>1. Base
  BY ReconciliationAssumption DEF Init, Base, Instants
<1>2. OneAtWork /\ (\A k \in Calls : call[k] = Idle) /\ (\A w \in Windows : RunFair(w))
  BY DEF Init, OneAtWork, Idle, Statements, RunFair
<1> QED BY <1>1, <1>2 DEF RunsInv

\* What a run says of its window is so, always.
LEMMA RunsInvariant == Spec /\ []Apart => []RunsInv
BY RunsInit, RunsStep, PTL DEF Spec

-----------------------------------------------------------------------------
(* The alarm                                                               *)

\* A step that makes no window miss anything new, and ends no alarm.
LEMMA AlarmFrame ==
    ASSUME AlarmInv,
           crashes' = 0 /\ waived' = 0 => crashes = 0 /\ waived = 0,
           Alarmed => Alarmed',
           \A v \in Windows : Misses(v)' /\ SettledLast(v)' /\ ~Syncing(v)' =>
                              Misses(v) /\ SettledLast(v) /\ ~Syncing(v),
           \A l \in Calls : call'[l].at = "purge" =>
                              call[l].at = "purge" /\ call'[l].match = call[l].match
    PROVE  AlarmInv'
<1>1. ASSUME crashes' = 0, waived' = 0
      PROVE  /\ \A w \in Windows : Misses(w)' /\ SettledLast(w)' /\ ~Syncing(w)' => Alarmed'
             /\ \A k \in Calls : call'[k].at = "purge" /\ call'[k].match.missing > 0 => Alarmed'
  <2>1. /\ \A w \in Windows : Misses(w) /\ SettledLast(w) /\ ~Syncing(w) => Alarmed
        /\ \A k \in Calls : call[k].at = "purge" /\ call[k].match.missing > 0 => Alarmed
    BY <1>1 DEF AlarmInv
  <2> QED BY <2>1
<1> QED BY <1>1 DEF AlarmInv

\* What a report leaves unresolved still alarms.
LEMMA StaysAlarmed ==
    ASSUME Keeps(incidents, incidents')
    PROVE  Alarmed => Alarmed'
BY KnownProblems DEF Keeps, Alarmed

\* No row is completed later than now.
LEMMA CompletedBy ==
    ASSUME RunsInv, NEW w \in Windows, run[w] # NoRun
    PROVE  /\ run[w] \in Row /\ run[w].completed \in Int /\ run[w].completed <= now
           /\ run[w].completed = None <=> run[w].status = "running"
           /\ now \in Nat
<1>1. RunFair(w) /\ now \in Nat
  BY Shapes DEF RunsInv
<1> QED BY <1>1 DEF RunFair, Row, None

\* A new run raises and ends no alarm.
LEMMA AlarmOfStart ==
    ASSUME RunsInv, AlarmInv, NEW k \in Calls, NEW w \in Windows, Start(k, w)
    PROVE  AlarmInv'
<1>1. /\ call[k] = Idle /\ ~AnsweredBy(w)
      /\ IF run[w] = NoRun
         THEN run' = [run EXCEPT ![w] = Started]
         ELSE run' = [run EXCEPT ![w].status = "running", ![w].completed = None,
                                 ![w].started = now]
      /\ call' = [call EXCEPT ![k] = [at |-> "source", window |-> w, began |-> now,
                                      match |-> NoMatch]]
      /\ UNCHANGED <<incidents, waived, crashes>>
  BY DEF Start, bounds
<1>2. /\ DOMAIN run = Windows /\ run = [v \in Windows |-> run[v]]
      /\ DOMAIN call = Calls /\ call = [l \in Calls |-> call[l]]
  BY Shapes
<1>3. /\ run'[w].status = "running" /\ run'[w].completed = None
      /\ run[w] # NoRun => run[w].completed = None
  <2>1. CASE run[w] = NoRun
    BY <1>1, <1>2, <2>1 DEF Started
  <2>2. CASE run[w] # NoRun
    <3>1. run[w] \in Row /\ run[w].status = "running" /\ run[w].completed = None
      BY <1>1, <2>2, CompletedBy DEF AnsweredBy
    <3>2. run'[w] = [run[w] EXCEPT !.status = "running", !.completed = None, !.started = now]
      BY <1>1, <1>2, <2>2
    <3> QED BY <3>1, <3>2 DEF Row
  <2> QED BY <2>1, <2>2
<1>4. run'[w] # NoRun
  BY <1>3 DEF NoRun
<1>5. \A v \in Windows \ {w} : run'[v] = run[v]
  BY <1>1, <1>2
<1>6. \A l \in Calls : \/ call'[l] = call[l]
                       \/ call[l].at = "idle" /\ call'[l].at = "source"
  BY <1>1, <1>2 DEF Idle
<1>7. ASSUME NEW v \in Windows, Misses(v)', SettledLast(v)', ~Syncing(v)'
      PROVE  Misses(v) /\ SettledLast(v) /\ ~Syncing(v)
  <2>1. v # w
    BY <1>3, <1>7 DEF Misses
  <2>2. Misses(v)
    BY <1>5, <1>7, <2>1 DEF Misses
  <2>3. SettledLast(v)
    BY <1>3, <1>4, <1>5, <1>7, <2>1 DEF SettledLast
  <2>4. ~Syncing(v)
    BY <1>6, <1>7 DEF Syncing
  <2> QED BY <2>2, <2>3, <2>4
<1>8. Alarmed => Alarmed'
  BY <1>1 DEF Alarmed
<1>9. \A l \in Calls : call'[l].at = "purge" =>
         call[l].at = "purge" /\ call'[l].match = call[l].match
  BY <1>6
<1> QED BY <1>1, <1>7, <1>8, <1>9, AlarmFrame

\* Another call of a window is neither before its incidents nor before the purge
\* while one that is before either works.
LEMMA AlarmOfWait ==
    ASSUME RunsInv, AlarmInv, NEW k \in Calls,
           SourceAnswers(k) \/ DestinationReads(k) \/ Answered(k) \/ InsertItems(k)
    PROVE  AlarmInv'
<1>1. /\ \E c : call' = [call EXCEPT ![k] = c] /\ c.at \notin {"incidents", "purge"}
      /\ call[k].at \notin {"incidents", "purge"}
      /\ UNCHANGED <<run, incidents, waived, crashes>>
  <2>1. CASE InsertItems(k)
    <3>1. call' = [call EXCEPT ![k] = [call[k] EXCEPT !.at = "update"]]
      BY <2>1, Shapes DEF InsertItems
    <3>2. [call[k] EXCEPT !.at = "update"].at = "update"
      OBVIOUS
    <3> QED BY <2>1, <3>1, <3>2 DEF InsertItems, bounds
  <2>2. CASE SourceAnswers(k)
    BY <2>2 DEF SourceAnswers, bounds
  <2>3. CASE DestinationReads(k)
    <3>1. PICK c : c = [at |-> "answered", window |-> call[k].window, began |-> call[k].began,
                        match |-> NoMatch, source |-> call[k].source, first |-> call[k].first,
                        destination |-> DestinationRows(call[k].window)]
      OBVIOUS
    <3>2. call' = [call EXCEPT ![k] = c]
      BY <2>3, <3>1 DEF DestinationReads
    <3>3. c.at = "answered"
      BY <3>1
    <3> QED BY <2>3, <3>2, <3>3 DEF DestinationReads, bounds
  <2>4. CASE Answered(k)
    <3>1. PICK m : m = IF contract.mode = "reconciliation"
                       THEN ByEmail(call[k].first, call[k].source, call[k].destination)
                       ELSE Aggregate(call[k].source, call[k].destination)
      OBVIOUS
    <3>2. PICK c : c = [at |-> IF contract.mode = "reconciliation" THEN "insert" ELSE "update",
                        window |-> call[k].window, began |-> call[k].began, match |-> m]
      OBVIOUS
    <3>3. call' = [call EXCEPT ![k] = c]
      BY <2>4, <3>1, <3>2 DEF Answered
    <3>4. c.at \in {"insert", "update"}
      BY <3>2
    <3> QED BY <2>4, <3>3, <3>4 DEF Answered, bounds
  <2> QED BY <2>1, <2>2, <2>3, <2>4
<1>2. \A l \in Calls : \/ call'[l] = call[l]
                       \/ /\ call[l].at \notin {"incidents", "purge"}
                          /\ call'[l].at \notin {"incidents", "purge"}
  BY <1>1, Shapes
<1>3. \A v \in Windows : /\ Misses(v)' <=> Misses(v)
                         /\ SettledLast(v)' <=> SettledLast(v)
                         /\ Syncing(v)' <=> Syncing(v)
  BY <1>1, <1>2 DEF Misses, SettledLast, Syncing
<1>4. Alarmed => Alarmed'
  BY <1>1 DEF Alarmed
<1>5. \A l \in Calls : call'[l].at = "purge" =>
         call[l].at = "purge" /\ call'[l].match = call[l].match
  BY <1>2
<1> QED BY <1>1, <1>3, <1>4, <1>5, AlarmFrame

\* A failed fetch has its own incident.
LEMMA AlarmOfFetch ==
    ASSUME RunsInv, AlarmInv, IncidentsExact, NEW k \in Calls, FetchFails(k)
    PROVE  AlarmInv'
<1>1. PICK c : c = [at |-> "failed", window |-> call[k].window, began |-> call[k].began,
                    match |-> NoMatch, error |-> call[k].at]
  OBVIOUS
<1>2. /\ call[k].at \in Connectors /\ c.at = "failed"
      /\ call' = [call EXCEPT ![k] = c]
      /\ telling = 0 /\ Report("connector_unavailable")
      /\ UNCHANGED <<run, cut, waived, crashes>>
  BY <1>1 DEF FetchFails, LoopFree, bounds
<1>3. \A l \in Calls : \/ call'[l] = call[l]
                       \/ /\ call[l].at \notin {"incidents", "purge"}
                          /\ call'[l].at \notin {"incidents", "purge"}
  BY <1>2, Shapes DEF Connectors
<1>4. \A v \in Windows : /\ Misses(v)' <=> Misses(v)
                         /\ SettledLast(v)' <=> SettledLast(v)
                         /\ Syncing(v)' <=> Syncing(v)
  BY <1>2, <1>3 DEF Misses, SettledLast, Syncing
<1>5. Alarmed => Alarmed'
  BY <1>2, ReportDoes, KnownProblems, StaysAlarmed
<1>6. \A l \in Calls : call'[l].at = "purge" =>
         call[l].at = "purge" /\ call'[l].match = call[l].match
  BY <1>3
<1> QED BY <1>2, <1>4, <1>5, <1>6, AlarmFrame

\* A failed run is not about what misses.
LEMMA AlarmOfFail ==
    ASSUME RunsInv, AlarmInv, NEW k \in Calls, FailRun(k),
           NEW w, w = call[k].window
    PROVE  AlarmInv'
<1>1. /\ call[k].at = "failed"
      /\ run' = [run EXCEPT ![w] = Failed(@, call[k].error)]
      /\ call' = [call EXCEPT ![k] = Idle]
      /\ UNCHANGED <<incidents, waived, crashes>>
  BY DEF FailRun, bounds
<1>2. /\ DOMAIN run = Windows /\ run = [v \in Windows |-> run[v]]
      /\ DOMAIN call = Calls /\ call = [l \in Calls |-> call[l]]
      /\ now \in Nat
  BY Shapes
<1>3. w \in Windows /\ run[w] \in Row /\ call[k].error \in {"source", "destination"}
  <2>1. call[k] # Idle
    BY <1>1 DEF Idle
  <2> QED BY <1>1, <2>1 DEF RunsInv, CallFair, Connectors
<1>4. /\ run'[w].error \in {"source", "destination"} /\ run'[w].completed = now
      /\ run'[w] # NoRun
  <2>1. run'[w] = Failed(run[w], call[k].error)
    BY <1>1, <1>2, <1>3
  <2>2. /\ run'[w].error = call[k].error /\ run'[w].completed = now /\ run'[w].status = "failed"
    BY <1>2, <1>3, <2>1, FailedRow
  <2> QED BY <1>3, <2>2 DEF NoRun
<1>5. ASSUME NEW v \in Windows, Misses(v)', SettledLast(v)' PROVE FALSE
  <2>1. v # w
    BY <1>4, <1>5 DEF Misses
  <2>2. run'[v] = run[v] /\ run[v] # NoRun
    BY <1>1, <1>2, <1>5, <2>1 DEF Misses
  <2>3. run[v].completed \in Int /\ run[v].completed <= now
    BY <2>2, CompletedBy
  <2>4. now < run[v].completed
    BY <1>3, <1>4, <1>5, <2>1, <2>2 DEF SettledLast
  <2> QED BY <1>2, <2>3, <2>4
<1>6. Alarmed => Alarmed'
  BY <1>1 DEF Alarmed
<1>7. \A l \in Calls : call'[l].at = "purge" =>
         call[l].at = "purge" /\ call'[l].match = call[l].match
  BY <1>1, <1>2 DEF Idle
<1> QED BY <1>1, <1>5, <1>6, <1>7, AlarmFrame

\* A verdict of missing items is followed by an incident,
LEMMA AlarmOfUpdate ==
    ASSUME RunsInv, AlarmInv, NEW k \in Calls, UpdateRun(k), NEW w, w = call[k].window
    PROVE  AlarmInv'
<1>1. /\ call[k].at = "update"
      /\ run' = [run EXCEPT ![w] = [@ EXCEPT !.status = Verdict(call[k].match),
                                             !.found = [call[k].match EXCEPT !.items = {}],
                                             !.evidence = Evidence(call[k].match),
                                             !.completed = now, !.error = "none"]]
      /\ call' = [call EXCEPT ![k] = [call[k] EXCEPT !.at = "incidents"]]
      /\ UNCHANGED <<incidents, waived, crashes>>
  BY Shapes DEF UpdateRun, bounds
<1>2. /\ DOMAIN run = Windows /\ run = [v \in Windows |-> run[v]]
      /\ DOMAIN call = Calls /\ call = [l \in Calls |-> call[l]]
      /\ now \in Nat
  BY Shapes
<1>3. w \in Windows /\ run[w] \in Row
  <2>1. call[k] # Idle
    BY <1>1 DEF Idle
  <2> QED BY <1>1, <2>1 DEF RunsInv, CallFair
<1>4. PICK status, found, evidence :
         run'[w] = [run[w] EXCEPT !.status = status, !.found = found, !.evidence = evidence,
                                  !.completed = now, !.error = "none"]
  BY <1>1, <1>2, <1>3
<1>5. run'[w].completed = now /\ (run'[w] # NoRun)
  <2>1. run'[w].completed = now /\ run'[w].started = run[w].started
        /\ DOMAIN run'[w] = DOMAIN run[w]
    BY <1>3, <1>4 DEF Row
  <2>2. DOMAIN run[w] # DOMAIN NoRun
    BY <1>3 DEF Row, NoRun
  <2> QED BY <2>1, <2>2
<1>6. call'[k].at = "incidents" /\ call'[k].window = w
  <2>1. call'[k] = [call[k] EXCEPT !.at = "incidents"]
    BY <1>1, <1>2
  <2> QED BY <2>1
<1>7. ASSUME NEW v \in Windows, Misses(v)', SettledLast(v)', ~Syncing(v)' PROVE FALSE
  <2>1. v # w
    BY <1>6, <1>7 DEF Syncing
  <2>2. run'[v] = run[v] /\ run[v] # NoRun
    BY <1>1, <1>2, <1>7, <2>1 DEF Misses
  <2>3. run[v].completed \in Int /\ run[v].completed <= now
    BY <2>2, CompletedBy
  <2>4. now < run[v].completed
    BY <1>3, <1>5, <1>7, <2>1, <2>2 DEF SettledLast
  <2> QED BY <1>2, <2>3, <2>4
<1>8. Alarmed => Alarmed'
  BY <1>1 DEF Alarmed
<1>9. \A l \in Calls : call'[l].at = "purge" =>
         call[l].at = "purge" /\ call'[l].match = call[l].match
  BY <1>1, <1>2, <1>6
<1> QED BY <1>1, <1>7, <1>8, <1>9, AlarmFrame

\* which this step opens,
LEMMA AlarmOfSync ==
    ASSUME RunsInv, IncidentsExact, NEW k \in Calls, SyncIncidents(k),
           NEW w, w = call[k].window
    PROVE  AlarmInv'
<1>1. PICK c : c = IF contract.mode = "reconciliation"
                   THEN [call[k] EXCEPT !.at = "purge"] ELSE Idle
  OBVIOUS
<1>2. /\ call[k].at = "incidents"
      /\ telling = 0 /\ Sync(call[k].match)
      /\ call' = [call EXCEPT ![k] = c]
      /\ UNCHANGED <<run, cut, waived, crashes, now>>
  BY <1>1 DEF SyncIncidents, bounds
<1>3. CallFair(call[k]) /\ w \in Windows
  <2>1. call[k] # Idle
    BY <1>2 DEF Idle
  <2> QED BY <2>1 DEF RunsInv, CallFair
<1>4. /\ call[k].match.missing \in Nat /\ run[w] \in Row /\ run[w].completed = now
      /\ run[w].found.missing = call[k].match.missing
  BY <1>2, <1>3 DEF CallFair, Finding
<1>5. call[k].match.missing > 0 => Alarmed'
  BY <1>2, <1>4, SyncDoes DEF Alarmed
<1>6. ASSUME NEW v \in Windows, Misses(v)', SettledLast(v)' PROVE Alarmed'
  <2>1. CASE v = w
    BY <1>2, <1>4, <1>5, <1>6, <2>1 DEF Misses
  <2>2. CASE v # w
    <3>1. run[v].completed \in Int /\ run[v].completed <= now /\ now \in Nat
      BY <1>2, <1>6, CompletedBy DEF Misses
    <3>2. now < run[v].completed
      BY <1>2, <1>3, <1>4, <1>6, <2>2 DEF SettledLast, Row, NoRun, Judged
    <3> QED BY <3>1, <3>2
  <2> QED BY <2>1, <2>2
<1>7. ASSUME NEW l \in Calls, call'[l].at = "purge", call'[l].match.missing > 0 PROVE Alarmed'
  <2>1. CASE l = k
    <3>1. call'[k] = c /\ c # Idle
      BY <1>2, <1>7, <2>1, Shapes DEF Idle
    <3>2. c.match = call[k].match
      BY <1>1, <3>1
    <3> QED BY <1>5, <1>7, <2>1, <3>1, <3>2
  <2>2. CASE l # k
    <3>1. call[l].at = "purge"
      BY <1>2, <1>7, <2>2, Shapes
    <3> QED BY <1>2, <2>2, <3>1 DEF RunsInv, OneAtWork, Statements
  <2> QED BY <2>1, <2>2
<1> QED BY <1>6, <1>7 DEF AlarmInv

\* and the purge does not end.
LEMMA AlarmOfPurge ==
    ASSUME RunsInv, AlarmInv, NEW k \in Calls, Purge(k), NEW w, w = call[k].window
    PROVE  AlarmInv'
<1>1. PICK gone \in SUBSET Expired, stuck \in SUBSET Expired :
         run' = [v \in Windows |->
                       IF v \in gone THEN NoRun
                       ELSE IF stuck # {} /\ v = w
                            THEN Failed(run[v], "constraint") ELSE run[v]]
  <2>1. PICK gone \in SUBSET (Expired \ {v \in Expired : referenced[v]}),
             stuck \in SUBSET {v \in Expired : referenced[v]} :
         run' = [v \in Windows |->
                       IF v \in gone THEN NoRun
                       ELSE IF stuck # {} /\ v = call[k].window
                            THEN Failed(run[v], "constraint") ELSE run[v]]
    BY DEF Purge
  <2>2. gone \in SUBSET Expired /\ stuck \in SUBSET Expired
    BY <2>1
  <2> QED BY <2>1, <2>2
<1>2. /\ call[k].at = "purge" /\ call' = [call EXCEPT ![k] = Idle]
      /\ UNCHANGED <<incidents, now, waived, crashes>>
  BY DEF Purge, bounds
<1>3. DOMAIN call = Calls /\ call = [l \in Calls |-> call[l]] /\ now \in Nat
  BY Shapes
<1>4. CallFair(call[k]) /\ w \in Windows
  <2>1. call[k] # Idle
    BY <1>2 DEF Idle
  <2> QED BY <2>1 DEF RunsInv, CallFair
<1>5. /\ run[w] \in Row /\ run[w].completed = now
      /\ run[w].found.missing = call[k].match.missing
  BY <1>2, <1>4 DEF CallFair
<1>6. w \notin gone
  BY <1>4, <1>5, NotExpired
<1>7. /\ run'[w].completed = now /\ run'[w] # NoRun
      /\ run'[w] = run[w] \/ run'[w].error = "constraint"
  <2>1. CASE stuck = {}
    BY <1>1, <1>4, <1>5, <1>6, <2>1 DEF Row, NoRun, Judged
  <2>2. CASE stuck # {}
    <3>1. run'[w] = Failed(run[w], "constraint")
      BY <1>1, <1>4, <1>6, <2>2
    <3> QED BY <1>3, <1>5, <3>1, FailedRow DEF NoRun
  <2> QED BY <2>1, <2>2
<1>8. Alarmed' <=> Alarmed
  BY <1>2 DEF Alarmed
<1>9. ASSUME crashes = 0, waived = 0, NEW v \in Windows, Misses(v)', SettledLast(v)'
      PROVE  Alarmed
  <2>1. CASE v = w
    <3>1. run'[w] = run[w] /\ run[w].found.missing > 0
      BY <1>7, <1>9, <2>1 DEF Misses
    <3> QED BY <1>2, <1>5, <1>9, <3>1 DEF AlarmInv
  <2>2. CASE v # w
    <3>1. run'[v] = run[v] /\ run[v] # NoRun
      BY <1>1, <1>9, <2>2 DEF Misses
    <3>2. run[v].completed \in Int /\ run[v].completed <= now
      BY <3>1, CompletedBy
    <3>3. now < run[v].completed
      BY <1>4, <1>7, <1>9, <2>2, <3>1 DEF SettledLast
    <3> QED BY <1>3, <3>2, <3>3
  <2> QED BY <2>1, <2>2
<1>10. \A l \in Calls : call'[l].at = "purge" =>
          call[l].at = "purge" /\ call'[l].match = call[l].match
  BY <1>2, <1>3 DEF Idle
<1>11. ASSUME crashes = 0, waived = 0, NEW l \in Calls, call'[l].at = "purge",
              call'[l].match.missing > 0
       PROVE  Alarmed
  BY <1>10, <1>11 DEF AlarmInv
<1> QED BY <1>2, <1>8, <1>9, <1>11 DEF AlarmInv

\* The other steps leave the alarms alone.
LEMMA AlarmOfOther ==
    ASSUME RunsInv, AlarmInv, IncidentsExact,
           \/ \E k \in Calls : Refuse(k)
           \/ \E k \in Calls, w \in Windows : Hit(k, w)
           \/ \E c \in Connectors : StartProbe(c) \/ FinishProbe(c) \/ Revoke(c)
           \/ Announce
           \/ Waive
           \/ \E w \in Windows : Export(w)
           \/ \E e \in Emails : Deliver(e)
           \/ Time \/ Crash
           \/ UNCHANGED vars
    PROVE  AlarmInv'
<1>0. waived \in Nat /\ crashes \in Nat
  BY DEF RunsInv, Base
<1>1. CASE Crash \/ Waive
  <2>1. crashes' = crashes + 1 \/ waived' = waived + 1
    BY <1>1 DEF Crash, Waive
  <2>2. crashes' # 0 \/ waived' # 0
    BY <1>0, <2>1
  <2> QED BY <2>2 DEF AlarmInv
<1>2. CASE \/ \E k \in Calls : Refuse(k)
           \/ \E c \in Connectors : StartProbe(c) \/ FinishProbe(c) \/ Revoke(c)
           \/ \E k \in Calls, w \in Windows : Hit(k, w)
           \/ \E w \in Windows : Export(w)
           \/ \E e \in Emails : Deliver(e)
           \/ Announce \/ Time
           \/ UNCHANGED vars
  <2>1. UNCHANGED <<run, call, waived, crashes>>
    BY <1>2 DEF Refuse, Announce, Hit, StartProbe, FinishProbe, Revoke, Export, Deliver,
                Time, vars, bounds
  <2>2. \/ incidents' = incidents
        \/ telling = 0 /\ cut' = cut /\ Report("connector_unavailable")
        \/ Announce
    <3>1. ASSUME NEW k \in Calls, Refuse(k)
          PROVE  telling = 0 /\ cut' = cut /\ Report("connector_unavailable")
      BY <3>1 DEF Refuse, LoopFree
    <3>2. ASSUME NEW c \in Connectors, StartProbe(c) \/ FinishProbe(c) \/ Revoke(c)
          PROVE  \/ incidents' = incidents
                 \/ telling = 0 /\ cut' = cut /\ Report("connector_unavailable")
      BY <3>2 DEF StartProbe, FinishProbe, Revoke, LoopFree
    <3>3. ASSUME NEW k \in Calls, NEW w \in Windows, Hit(k, w) PROVE incidents' = incidents
      BY <3>3 DEF Hit
    <3>4. ASSUME NEW w \in Windows, Export(w) PROVE incidents' = incidents
      BY <3>4 DEF Export
    <3>5. ASSUME NEW e \in Emails, Deliver(e) PROVE incidents' = incidents
      BY <3>5 DEF Deliver
    <3>6. ASSUME Time \/ UNCHANGED vars PROVE incidents' = incidents
      BY <3>6 DEF Time, vars
    <3> QED BY <1>2, <3>1, <3>2, <3>3, <3>4, <3>5, <3>6
  <2>3. Alarmed => Alarmed'
    <3>1. CASE incidents' = incidents
      BY <3>1 DEF Alarmed
    <3>2. CASE telling = 0 /\ cut' = cut /\ Report("connector_unavailable")
      BY <3>2, ReportDoes, KnownProblems, StaysAlarmed
    <3>3. CASE Announce
      BY <3>3, AnnounceDoes, StaysAlarmed
    <3> QED BY <2>2, <3>1, <3>2, <3>3
  <2>4. \A v \in Windows : /\ Misses(v)' <=> Misses(v)
                           /\ SettledLast(v)' <=> SettledLast(v)
                           /\ Syncing(v)' <=> Syncing(v)
    BY <2>1 DEF Misses, SettledLast, Syncing
  <2> QED BY <2>1, <2>3, <2>4, AlarmFrame
<1> QED BY <1>1, <1>2

\* Every step keeps AlarmInv.
LEMMA AlarmStep ==
    RunsInv /\ Apart /\ IncidentsExact /\ AlarmInv /\ [Next]_vars => AlarmInv'
BY AlarmOfStart, AlarmOfWait, AlarmOfFetch, AlarmOfFail, AlarmOfUpdate, AlarmOfSync,
   AlarmOfPurge, AlarmOfOther DEF Next, Proceed

\* There is nothing to be alarmed about.
LEMMA AlarmInit == Init => AlarmInv
BY DEF Init, AlarmInv, Misses, Idle

\* While nothing dies and nobody waives, missing items have their incident.
LEMMA AlarmInvariant == Spec /\ []Apart => []AlarmInv
BY AlarmInit, AlarmStep, RunsInvariant, ExactInvariant, PTL DEF Spec

-----------------------------------------------------------------------------
(* The theorems                                                            *)

\* The invariants report what is missing,
LEMMA InvReported == ASSUME RunsInv, AlarmInv PROVE MissingIsReported
<1>1. ASSUME NEW w \in Windows, run[w] # NoRun, run[w].status # "running",
             run[w].error = "none", contract.mode = "reconciliation", w \notin Expired
      PROVE  /\ Len(items[w]) = 1
             /\ \A s \in {"matched", "missing", "late", "waiting"} :
                   Cardinality({i \in items[w][1] : i[2] = s}) = run[w].found[s]
  <2>1. RunFair(w)
    BY DEF RunsInv
  <2> QED BY <1>1, <2>1 DEF RunFair, Recording, Counted, Found
<1>2. ASSUME NEW w \in Windows, Settled, run[w] # NoRun, run[w].status \in {"warning", "failed"},
             run[w].error = "none", run[w].found.missing > 0, SettledLast(w)
      PROVE  Alarmed \/ waived > 0
  <2>1. ~Syncing(w) /\ Misses(w) /\ crashes = 0 /\ waived \in Nat
    BY <1>2 DEF Settled, LoopFree, Statements, Syncing, Misses, RunsInv, Base
  <2> QED BY <1>2, <2>1 DEF AlarmInv
<1> QED BY <1>1, <1>2 DEF MissingIsReported

\* What a finished run has found is what anybody gets to see: its items are those it
\* counted, and while the latest run misses some, an incident is open or somebody has
\* waived it, whatever other windows are served, purged or fail meanwhile
\* (runWindow, syncOutcomeIncidents, purgeExpiredEvidence).
THEOREM MissingReported == Spec /\ []Apart => []MissingIsReported
BY InvReported, RunsInvariant, AlarmInvariant, PTL

\* Evidence is shown as high only if the run has stored it.
LEMMA HighIsStored ==
    ASSUME NEW w, EvidenceShown(w) = "high"
    PROVE  /\ contract.mode = "reconciliation" /\ run[w].evidence = "high"
           /\ run[w].completed # None /\ run[w].status # "failed"
<1> DEFINE records == contract.mode = "reconciliation" /\ RunFresh(w) /\ run[w].evidence = "high"
<1>1. CASE records
  BY <1>1 DEF RunFresh
<1>2. CASE ~records
  <2>1. PICK ceiling \in {1, 2} :
          EvidenceShown(w) = IF ~Readable THEN "basic"
                             ELSE IF RankIn(Levels, contract.target) <= ceiling
                                  THEN contract.target ELSE Levels[ceiling]
    BY <1>2 DEF EvidenceShown, EffectiveLevel
  <2>2. Levels[1] = "basic" /\ Levels[2] = "medium" /\ Levels[3] = "high" /\ DOMAIN Levels = 1 .. 3
    BY DEF Levels
  <2>3. RankIn(Levels, "high") = 3
    BY <2>2 DEF RankIn
  <2> QED BY <2>1, <2>2, <2>3
<1> QED BY <1>1, <1>2

\* An outcome is shown as satisfied only if its run is healthy.
LEMMA SatisfiedIsHealthy ==
    ASSUME NEW w, NEW severity, Satisfied(OutcomeRow(w, severity))
    PROVE  run[w].status = "healthy"
<1>1. PICK row : row = OutcomeRow(w, severity)
  OBVIOUS
<1>2. row.schedule = "healthy"
  BY <1>1 DEF Satisfied, Badge, ScheduleDimension
<1> QED BY <1>1, <1>2 DEF OutcomeRow

\* and call nothing green that was not delivered.
LEMMA InvGreen == ASSUME RunsInv PROVE GreenIsDelivered
<1>1. ASSUME NEW w \in LatestRuns, NEW severity \in {"warning", "critical"},
             contract.mode = "reconciliation",
             Satisfied(OutcomeRow(w, severity)) \/ EvidenceShown(w) = "high"
      PROVE  /\ ~OutcomeMissing(OutcomeRow(w, severity))
             /\ \A e \in Emails :
                    (\E t \in RegisteredAt[e] : t <= run[w].started /\ Within(w, t)) =>
                      \E t \in delivered[e] : Within(w, t)
  <2>1. w \in Windows /\ run[w] # NoRun /\ RunFair(w)
    BY DEF LatestRuns, RunsInv
  <2>2. \/ run[w].status = "healthy"
        \/ /\ run[w].evidence = "high" /\ run[w].completed # None
           /\ run[w].status # "failed"
    BY <1>1, HighIsStored, SatisfiedIsHealthy
  <2>3. run[w] \in Row /\ (run[w].completed = None <=> run[w].status = "running")
    BY <2>1 DEF RunFair
  <2>4. \/ run[w].status = "healthy"
        \/ run[w].status = "warning" /\ run[w].evidence = "high"
    BY <2>2, <2>3 DEF Row, Judged
  <2>5. run[w].found.missing = 0 /\ Covered(w, run[w].started)
    BY <1>1, <2>1, <2>4 DEF RunFair, Recording
  <2>6. OutcomeRow(w, severity).missing = run[w].found.missing
    BY DEF OutcomeRow
  <2> QED BY <2>5, <2>6 DEF OutcomeMissing, Covered
<1> QED BY <1>1 DEF GreenIsDelivered

\* The catalog is earned: while it shows the outcome as satisfied, or its evidence as
\* high, every email that had registered when the run began has been delivered
\* (queryOutcomeCatalogRows, resolveEffectiveEvidenceLevel, runWindow).
THEOREM GreenDelivered == Spec /\ []Apart => []GreenIsDelivered
BY InvGreen, RunsInvariant, PTL
=============================================================================
