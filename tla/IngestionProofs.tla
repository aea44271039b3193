---------------------------- MODULE IngestionProofs ----------------------------
(***************************************************************************)
(* Proofs about Ingestion for every set of processes, keys, reports and    *)
(* contracts, and whatever the bounds.                                     *)
(***************************************************************************)
EXTENDS Ingestion, FiniteSetTheorems, TLAPS

-----------------------------------------------------------------------------
(* The incidents                                                           *)

IsUnresolved(row) == row.status \in {"open", "acknowledged"}

\* Who is excused: the incidents written from a reading that no longer held, and
\* those whose announcement is under way.
OpeningSet == {inc[p] : p \in {q \in Processes : pc[q] = "announce" /\ ~read[q]}}
EndingSet == {inc[p] : p \in {q \in Processes : pc[q] = "tellResolved"}}
Excuses == [raced |-> raced, opening |-> OpeningSet, ending |-> EndingSet]

\* Row i was announced once as opened, and once as resolved if it is.
RowGood(row, i, x) ==
    /\ row \in Incident
    /\ i \notin x.raced =>
          /\ row.told["opened"] = IF i \in x.opening THEN 0 ELSE 1
          /\ row.told["resolved"]
               = IF row.status = "resolved" /\ i \notin x.ending THEN 1 ELSE 0
          /\ row.recovered <=> row.status = "resolved"
          /\ i \in x.ending => row.status = "resolved"

\* And there is one unresolved row of a problem at most.
RowsGood(rows, x) ==
    /\ rows \in Seq(Incident)
    /\ x.opening \cup x.ending \subseteq DOMAIN rows
    /\ \A i \in DOMAIN rows : RowGood(rows[i], i, x)
    /\ \A i, j \in DOMAIN rows :
          IsUnresolved(rows[i]) /\ IsUnresolved(rows[j]) /\ rows[i].problem = rows[j].problem
            => i = j

\* No row goes away, and none that has recovered is as if it had not.
Kept(rows, next) ==
    /\ DOMAIN rows \subseteq DOMAIN next
    /\ \A i \in DOMAIN rows : rows[i].recovered => next[i].recovered

\* The UPDATE of one row.
LEMMA UpdatedRow ==
    ASSUME NEW rows \in Seq(Incident), NEW i \in DOMAIN rows, NEW row \in Incident
    PROVE  /\ [rows EXCEPT ![i] = row] \in Seq(Incident)
           /\ DOMAIN [rows EXCEPT ![i] = row] = DOMAIN rows
           /\ \A j \in DOMAIN rows : [rows EXCEPT ![i] = row][j] = IF j = i THEN row ELSE rows[j]
OBVIOUS

\* An announcement counts for the row it is about, and changes nothing else.
LEMMA ToldDoes ==
    ASSUME NEW rows \in Seq(Incident), NEW i \in DOMAIN rows, NEW event \in EventType,
           NEW next, next = Told(rows, i, event)
    PROVE  /\ next \in Seq(Incident) /\ DOMAIN next = DOMAIN rows
           /\ \A j \in DOMAIN rows \ {i} : next[j] = rows[j]
           /\ next[i].problem = rows[i].problem /\ next[i].status = rows[i].status
           /\ next[i].recovered = rows[i].recovered
           /\ \A a \in Announcement :
                 next[i].told[a] = IF a = event THEN OneMore(rows[i].told[a])
                                   ELSE rows[i].told[a]
<1> DEFINE more == [a \in Announcement |->
                       IF a = event THEN OneMore(rows[i].told[a]) ELSE rows[i].told[a]]
           row == [rows[i] EXCEPT !.pending = OneMore(@), !.told = more]
<1>0. rows[i] \in Incident
  OBVIOUS
<1>1. rows[i] \in Incident /\ rows[i].told \in [Announcement -> 0 .. 2]
  BY <1>0 DEF Incident
<1>2. \A n \in 0 .. 2 : OneMore(n) \in 0 .. 2
  BY DEF OneMore
<1>3. /\ more \in [Announcement -> 0 .. 2]
      /\ \A a \in Announcement : more[a] = IF a = event THEN OneMore(rows[i].told[a])
                                           ELSE rows[i].told[a]
  BY <1>1, <1>2
<1>4. next = [rows EXCEPT ![i] = row]
  BY <1>1 DEF Told, Incident
<1> HIDE DEF more
<1>5. /\ row.problem = rows[i].problem /\ row.status = rows[i].status
      /\ row.recovered = rows[i].recovered
      /\ row.told = more /\ row \in Incident
  BY <1>1, <1>2, <1>3 DEF Incident
<1> HIDE DEF row
<1> QED BY <1>3, <1>4, <1>5, UpdatedRow

\* A resolution changes the status of its row, and nothing else.
LEMMA ResolvedDoes ==
    ASSUME NEW rows \in Seq(Incident), NEW i \in DOMAIN rows, NEW next, next = Resolved(rows, i)
    PROVE  /\ next \in Seq(Incident) /\ DOMAIN next = DOMAIN rows
           /\ \A j \in DOMAIN rows \ {i} : next[j] = rows[j]
           /\ next[i].problem = rows[i].problem /\ next[i].status = "resolved"
           /\ next[i].recovered /\ next[i].told = rows[i].told
<1> DEFINE row == [rows[i] EXCEPT !.status = "resolved", !.recovered = TRUE]
<1>0. rows[i] \in Incident
  OBVIOUS
<1>1. /\ row \in Incident /\ row.problem = rows[i].problem /\ row.status = "resolved"
      /\ row.recovered /\ row.told = rows[i].told
  BY <1>0 DEF Incident, Status
<1>2. next = [rows EXCEPT ![i] = row]
  BY <1>0 DEF Resolved, Incident
<1> HIDE DEF row
<1> QED BY <1>1, <1>2, UpdatedRow

\* An acknowledgement changes the status to what it has computed.
LEMMA AcknowledgedDoes ==
    ASSUME NEW rows \in Seq(Incident), NEW i \in DOMAIN rows, NEW status \in Status,
           NEW next, next = Acknowledged(rows, i, status)
    PROVE  /\ next \in Seq(Incident) /\ DOMAIN next = DOMAIN rows
           /\ \A j \in DOMAIN rows \ {i} : next[j] = rows[j]
           /\ next[i].problem = rows[i].problem /\ next[i].status = status
           /\ next[i].recovered = rows[i].recovered /\ next[i].told = rows[i].told
<1> DEFINE row == [rows[i] EXCEPT !.status = status, !.acked = TRUE]
<1>0. rows[i] \in Incident
  OBVIOUS
<1>1. /\ row \in Incident /\ row.problem = rows[i].problem /\ row.status = status
      /\ row.recovered = rows[i].recovered /\ row.told = rows[i].told
  BY <1>0 DEF Incident
<1>2. next = [rows EXCEPT ![i] = row]
  BY <1>0 DEF Acknowledged, Incident
<1> HIDE DEF row
<1> QED BY <1>1, <1>2, UpdatedRow

\* The INSERT adds one row, open and announced to nobody ...
LEMMA OpenedDoes ==
    ASSUME NEW rows \in Seq(Incident), NEW p \in Problems,
           NEW next, next = Opened(rows, p)
    PROVE  /\ next \in Seq(Incident) /\ DOMAIN next = DOMAIN rows \cup {Len(rows) + 1}
           /\ Len(rows) + 1 \notin DOMAIN rows
           /\ \A j \in DOMAIN rows : next[j] = rows[j]
           /\ next[Len(rows) + 1].problem = p /\ next[Len(rows) + 1].status = "open"
           /\ next[Len(rows) + 1].told["opened"] = 0
           /\ next[Len(rows) + 1].told["resolved"] = 0
<1> DEFINE row == [problem |-> p, status |-> "open", recovered |-> FALSE,
                   acked |-> FALSE, told |-> [e \in Announcement |-> 0],
                   pending |-> 0, age |-> 0]
<1>1. /\ row \in Incident /\ row.problem = p /\ row.status = "open"
      /\ row.told["opened"] = 0 /\ row.told["resolved"] = 0
  BY BackoffAssumption DEF Incident, Status, Announcement, EventType
<1>2. next = Append(rows, row)
  BY DEF Opened
<1> HIDE DEF row
<1> QED BY <1>1, <1>2

\* ... and not recovered.
LEMMA OpenedUnrecovered ==
    ASSUME NEW rows \in Seq(Incident), NEW p \in Problems,
           NEW next, next = Opened(rows, p)
    PROVE  ~next[Len(rows) + 1].recovered
<1> DEFINE row == [problem |-> p, status |-> "open", recovered |-> FALSE,
                   acked |-> FALSE, told |-> [e \in Announcement |-> 0],
                   pending |-> 0, age |-> 0]
<1>1. row \in Incident /\ ~row.recovered
  BY BackoffAssumption DEF Incident, Status, Announcement, EventType
<1>2. next = Append(rows, row)
  BY DEF Opened
<1> HIDE DEF row
<1> QED BY <1>1, <1>2

\* Both announcements are announcements, and different.
LEMMA Announcements ==
    /\ {"opened", "resolved"} \subseteq Announcement /\ Announcement \subseteq EventType
    /\ "acknowledged" \in EventType \ Announcement
    /\ OneMore(0) = 1
BY DEF Announcement, EventType, OneMore

\* An unresolved row that is resolved and announced is good again.
LEMMA ResolveDoes ==
    ASSUME NEW x, NEW rows, RowsGood(rows, x), NEW i \in DOMAIN rows, IsUnresolved(rows[i]),
           NEW next, next = Told(Resolved(rows, i), i, "resolved")
    PROVE  /\ next \in Seq(Incident) /\ DOMAIN next = DOMAIN rows
           /\ \A j \in DOMAIN rows \ {i} : next[j] = rows[j]
           /\ RowGood(next[i], i, x) /\ next[i].problem = rows[i].problem
           /\ next[i].status = "resolved" /\ next[i].recovered
<1> DEFINE done == Resolved(rows, i)
<1>1. /\ rows \in Seq(Incident) /\ RowGood(rows[i], i, x)
      /\ rows[i].status # "resolved"
  BY DEF RowsGood, IsUnresolved
<1>2. /\ done \in Seq(Incident) /\ DOMAIN done = DOMAIN rows
      /\ \A j \in DOMAIN rows \ {i} : done[j] = rows[j]
      /\ done[i].problem = rows[i].problem /\ done[i].status = "resolved"
      /\ done[i].recovered /\ done[i].told = rows[i].told
  BY <1>1, ResolvedDoes
<1>3. next = Told(done, i, "resolved")
  OBVIOUS
<1> HIDE DEF done
<1>4. /\ next \in Seq(Incident) /\ DOMAIN next = DOMAIN rows
      /\ \A j \in DOMAIN rows \ {i} : next[j] = rows[j]
      /\ next[i].problem = rows[i].problem /\ next[i].status = "resolved"
      /\ next[i].recovered
      /\ next[i].told["opened"] = rows[i].told["opened"]
      /\ next[i].told["resolved"] = OneMore(rows[i].told["resolved"])
  BY <1>2, <1>3, ToldDoes, Announcements
<1>5. RowGood(next[i], i, x)
  <2>1. next[i] \in Incident
    BY <1>4
  <2> QED BY <1>1, <1>4, <2>1, Announcements DEF RowGood
<1> QED BY <1>4, <1>5

\* Where rows are good and no more of them unresolved than before.
LEMMA StillGood ==
    ASSUME NEW x, NEW rows, RowsGood(rows, x), NEW next \in Seq(Incident), DOMAIN next = DOMAIN rows,
           \A j \in DOMAIN rows :
              /\ RowGood(next[j], j, x) /\ next[j].problem = rows[j].problem
              /\ IsUnresolved(next[j]) => IsUnresolved(rows[j])
    PROVE  RowsGood(next, x) /\ \A t : Unresolved(next, t) \subseteq Unresolved(rows, t)
<1>1. RowsGood(next, x)
  BY DEF RowsGood
<1>2. \A t : Unresolved(next, t) \subseteq Unresolved(rows, t)
  BY DEF Unresolved, IsUnresolved
<1> QED BY <1>1, <1>2

\* A problem that is opened and announced becomes unresolved, the others stay.
LEMMA OpenedTold ==
    ASSUME NEW x, NEW rows, RowsGood(rows, x), NEW t \in Problems, Unresolved(rows, t) = {},
           NEW next, next = Told(Opened(rows, t), Len(rows) + 1, "opened")
    PROVE  /\ RowsGood(next, x)
           /\ \A u \in Problems \ {t} : Unresolved(next, u) = Unresolved(rows, u)
           /\ Kept(rows, next)
<1>0. rows \in Seq(Incident) /\ x.opening \cup x.ending \subseteq DOMAIN rows
  BY DEF RowsGood
<1>1. \A i \in DOMAIN rows : RowGood(rows[i], i, x)
  BY DEF RowsGood
<1> DEFINE opened == Opened(rows, t)
           n == Len(rows) + 1
<1>3. /\ opened \in Seq(Incident) /\ DOMAIN opened = DOMAIN rows \cup {n} /\ n \notin DOMAIN rows
      /\ \A j \in DOMAIN rows : opened[j] = rows[j]
      /\ opened[n].problem = t /\ opened[n].status = "open" /\ ~opened[n].recovered
      /\ opened[n].told["opened"] = 0 /\ opened[n].told["resolved"] = 0
  <2>1. /\ opened \in Seq(Incident) /\ DOMAIN opened = DOMAIN rows \cup {Len(rows) + 1}
        /\ Len(rows) + 1 \notin DOMAIN rows
        /\ \A j \in DOMAIN rows : opened[j] = rows[j]
        /\ opened[Len(rows) + 1].problem = t /\ opened[Len(rows) + 1].status = "open"
        /\ opened[Len(rows) + 1].told["opened"] = 0
        /\ opened[Len(rows) + 1].told["resolved"] = 0
    BY <1>0, OpenedDoes
  <2>2. ~opened[Len(rows) + 1].recovered
    BY <1>0, OpenedUnrecovered
  <2> QED BY <2>1, <2>2
<1>2. next = Told(opened, n, "opened")
  OBVIOUS
<1> HIDE DEF n, opened
<1>4. /\ next \in Seq(Incident) /\ DOMAIN next = DOMAIN rows \cup {n}
      /\ \A j \in DOMAIN rows : next[j] = rows[j]
      /\ next[n].problem = t /\ next[n].status = "open" /\ ~next[n].recovered
      /\ next[n].told["opened"] = OneMore(0) /\ next[n].told["resolved"] = 0
  <2>1. n \in DOMAIN opened
    BY <1>3
  <2>0. opened \in Seq(Incident) /\ "opened" \in EventType
    BY <1>3, Announcements
  <2>2. /\ next \in Seq(Incident) /\ DOMAIN next = DOMAIN opened
        /\ \A j \in DOMAIN opened \ {n} : next[j] = opened[j]
        /\ next[n].problem = opened[n].problem /\ next[n].status = opened[n].status
        /\ next[n].recovered = opened[n].recovered
        /\ \A a \in Announcement :
              next[n].told[a] = IF a = "opened" THEN OneMore(opened[n].told[a])
                                ELSE opened[n].told[a]
    BY <1>2, <2>0, <2>1, ToldDoes
  <2>3. /\ next[n].told["opened"] = OneMore(opened[n].told["opened"])
        /\ next[n].told["resolved"] = opened[n].told["resolved"]
    BY <2>2, Announcements
  <2> QED BY <1>3, <2>2, <2>3
<1>5. RowGood(next[n], n, x)
  <2>1. next[n] \in Incident
    BY <1>4
  <2> QED BY <1>0, <1>3, <1>4, <2>1, Announcements DEF RowGood
<1>6. ASSUME NEW i \in DOMAIN next, NEW j \in DOMAIN next,
             IsUnresolved(next[i]), IsUnresolved(next[j]), next[i].problem = next[j].problem
      PROVE  i = j
  <2>1. \A k \in DOMAIN rows : IsUnresolved(rows[k]) => rows[k].problem # t
    BY DEF Unresolved, IsUnresolved
  <2>2. CASE i \in DOMAIN rows /\ j \in DOMAIN rows
    BY <1>4, <1>6, <2>2 DEF RowsGood
  <2>3. CASE i = n /\ j \in DOMAIN rows
    BY <1>4, <1>6, <2>1, <2>3
  <2>4. CASE j = n /\ i \in DOMAIN rows
    BY <1>4, <1>6, <2>1, <2>4
  <2> QED BY <1>4, <2>2, <2>3, <2>4
<1>7. RowsGood(next, x)
  BY <1>0, <1>1, <1>4, <1>5, <1>6 DEF RowsGood
<1>8. \A u \in Problems \ {t} : Unresolved(next, u) = Unresolved(rows, u)
  BY <1>4 DEF Unresolved
<1> QED BY <1>4, <1>7, <1>8 DEF Kept

\* openOrObserveIncident and its announcement.
LEMMA RaiseDoes ==
    ASSUME NEW x, NEW rows, RowsGood(rows, x), NEW t \in Problems, NEW next, next = Raise(rows, t)
    PROVE  /\ RowsGood(next, x)
           /\ \A u \in Problems \ {t} : Unresolved(next, u) = Unresolved(rows, u)
           /\ Kept(rows, next)
<1>1. CASE Unresolved(rows, t) = {}
  BY <1>1, OpenedTold DEF Raise
<1>2. CASE Unresolved(rows, t) # {}
  BY <1>2 DEF Raise, Kept
<1> QED BY <1>1, <1>2

\* resolveOpenIncidentsOfTypes ends what is of these types, and leaves the rest.
LEMMA CloseDoes ==
    ASSUME NEW x, NEW rows, RowsGood(rows, x), NEW types, NEW next, next = CloseAll(rows, types)
    PROVE  /\ RowsGood(next, x)
           /\ \A t \in types : Unresolved(next, t) = {}
           /\ \A t : t \notin types => Unresolved(next, t) = Unresolved(rows, t)
           /\ Kept(rows, next)
<1> DEFINE hit(i) == i \in UNION {Unresolved(rows, t) : t \in types}
           closed(i) == Told(Resolved(rows, i), i, "resolved")[i]
<1>1. rows \in Seq(Incident) /\ \A i \in DOMAIN rows : RowGood(rows[i], i, x)
  BY DEF RowsGood
<1>2. ASSUME NEW i \in DOMAIN rows
      PROVE  hit(i) => rows[i].problem \in types /\ IsUnresolved(rows[i])
  BY DEF Unresolved, IsUnresolved
<1>3. ASSUME NEW i \in DOMAIN rows
      PROVE  rows[i].problem \in types /\ IsUnresolved(rows[i]) => hit(i)
  BY DEF Unresolved, IsUnresolved
<1>4. next = [i \in DOMAIN rows |-> IF hit(i) THEN closed(i) ELSE rows[i]]
  BY DEF CloseAll
<1>5. ASSUME NEW i \in DOMAIN rows, hit(i)
      PROVE  RowGood(closed(i), i, x) /\ closed(i).problem = rows[i].problem
             /\ closed(i).status = "resolved" /\ closed(i).recovered
  BY <1>2, <1>5, ResolveDoes
<1> HIDE DEF hit, closed
<1>6. /\ DOMAIN next = DOMAIN rows
      /\ \A i \in DOMAIN rows : hit(i) => next[i] = closed(i)
      /\ \A i \in DOMAIN rows : ~hit(i) => next[i] = rows[i]
  BY <1>4
<1>7. \A i \in DOMAIN rows : RowGood(next[i], i, x) /\ next[i].problem = rows[i].problem
  BY <1>1, <1>5, <1>6
<1>8. next \in Seq(Incident)
  <2>1. \A i \in DOMAIN rows : (IF hit(i) THEN closed(i) ELSE rows[i]) \in Incident
    BY <1>1, <1>5 DEF RowGood
  <2>2. DOMAIN rows = 1 .. Len(rows) /\ Len(rows) \in Nat
    BY <1>1
  <2> QED BY <1>4, <2>1, <2>2
<1>9. \A i \in DOMAIN rows : hit(i) => ~IsUnresolved(next[i])
  BY <1>5, <1>6 DEF IsUnresolved
<1>10. \A i \in DOMAIN rows : IsUnresolved(next[i]) => IsUnresolved(rows[i])
  BY <1>6, <1>9
<1>11. RowsGood(next, x)
  BY <1>6, <1>7, <1>8, <1>10, StillGood
<1>12. \A t \in types : Unresolved(next, t) = {}
  <2> SUFFICES ASSUME NEW t \in types, NEW i \in Unresolved(next, t) PROVE FALSE
    OBVIOUS
  <2>1. i \in DOMAIN rows /\ IsUnresolved(next[i]) /\ next[i].problem = t
    BY <1>6 DEF Unresolved, IsUnresolved
  <2> QED BY <1>3, <1>7, <1>9, <1>10, <2>1
<1>13. ASSUME NEW t, t \notin types PROVE Unresolved(next, t) = Unresolved(rows, t)
  <2>1. \A i \in DOMAIN rows : rows[i].problem = t => next[i] = rows[i]
    BY <1>2, <1>6, <1>13
  <2>2. \A i \in DOMAIN rows : next[i].problem = rows[i].problem
    BY <1>7
  <2> QED BY <1>6, <2>1, <2>2 DEF Unresolved
<1>14. Kept(rows, next)
  BY <1>5, <1>6 DEF Kept
<1> QED BY <1>11, <1>12, <1>13, <1>14

-----------------------------------------------------------------------------
(* The types                                                               *)

RequestPlace == {"limit", "reject", "contract", "write"}
Pc == {"idle"} \cup RequestPlace \cup HandlerPlace \cup TickPlace

\* p is about to write, or to tell, something about an incident.
Pointing(p) == pc[p] \in HandlerPlace \cup {"announce"}

\* What a handler and the tick remember: rows that are there, readings that still
\* hold or a row that raced; one tick at a time, and one who ends an incident.
HandlersGood ==
    /\ inc \in [Processes -> Nat] /\ read \in [Processes -> BOOLEAN]
    /\ raced \subseteq DOMAIN incidents
    /\ \A p \in Processes : Pointing(p) => inc[p] \in DOMAIN incidents
    /\ \A p, q \in Processes : pc[p] \in TickPlace /\ pc[q] \in TickPlace => p = q
    /\ \A p, q \in Processes :
          pc[p] = "tellResolved" /\ pc[q] = "tellResolved" /\ inc[p] = inc[q]
              /\ inc[p] \notin raced => p = q
    /\ \A p \in Processes :
          /\ pc[p] = "writeResolve" /\ inc[p] \notin raced => ~read[p]
          /\ pc[p] = "writeAck" /\ inc[p] \notin raced /\ read[p]
                => incidents[inc[p]].recovered
          /\ pc[p] = "find" /\ ~read[p] => Silences \subseteq raced

\* The types, the rows of the incidents, and a report wherever there is a request.
TypeInv ==
    /\ RowsGood(incidents, Excuses)
    /\ HandlersGood
    /\ events \in Seq(Reports)
    /\ state \in States
    /\ agreement \in Agreements
    /\ active \in BOOLEAN
    /\ trusted \in BOOLEAN
    /\ limit \in Limits
    /\ pc \in [Processes -> Pc]
    /\ request \in [Processes -> Reports \cup {NoReport}]
    /\ decision \in [Processes -> Limits]
    /\ answer \in [Processes -> Answer]
    /\ admin \in 0 .. MaxAdmin
    /\ \A p \in Processes : IF pc[p] \in RequestPlace THEN request[p] \in Reports
                             ELSE request[p] = NoReport

\* What the invariant says of the incidents is what the property says.
LEMMA TypeOkAtOnce == TypeInv => TypeOK
BY DEF TypeInv, TypeOK, RowsGood, HandlersGood, Pc, RequestPlace

\* The kinds of evidence are different from each other.
LEMMA ReportIs ==
    ASSUME NEW r \in Reports
    PROVE  /\ r \in Report /\ EvidenceOf(r) \in Evidence
           /\ r.at \in Nat /\ r.mark \in Nat \cup {NoMark}
           /\ r.items \in {Never, 0, 1}
           /\ EvidenceOf(r) = "failure" => r.status = "failure"
<1>1. r \in Report
  BY IngestionAssumption
<1>2. /\ r.status \in {"success", "failure"} /\ r.at \in Nat /\ r.mark \in Nat \cup {NoMark}
      /\ r.items \in {Never, 0, 1}
  BY <1>1 DEF Report
<1>3. /\ EvidenceOf(r) \in Evidence
      /\ EvidenceOf(r) = "failure" => r.status = "failure"
  BY <1>2 DEF EvidenceOf, Evidence
<1> QED BY <1>1, <1>2, <1>3

\* What a contract is.
LEMMA AgreementIs ==
    ASSUME agreement \in Agreements
    PROVE  /\ agreement.threshold \in Nat /\ agreement.threshold > 0
           /\ agreement.method \in {"push", "poll"}
           /\ agreement.policy \in {"allowed", "warning", "failure"}
           /\ agreement.staleness \in Nat
<1>1. agreement \in Agreement
  BY IngestionAssumption
<1> QED BY <1>1 DEF Agreement

\* What becomes of the watermark.
LEMMA FreshnessIs ==
    ASSUME NEW st \in States, NEW r \in Reports, agreement \in Agreements
    PROVE  /\ Freshness(st, r).mark \in Nat \cup {NoMark}
           /\ Freshness(st, r).markAt \in Nat \cup {Never}
           /\ Freshness(st, r).stale \in Nat
           /\ EvidenceOf(r) # "success" => Freshness(st, r).stale = st.stale
<1>1. /\ st.mark \in Nat \cup {NoMark} /\ st.markAt \in Nat \cup {Never} /\ st.stale \in Nat
  BY DEF States
<1>2. r.at \in Nat /\ r.mark \in Nat \cup {NoMark}
  BY ReportIs
<1> DEFINE kept == [mark |-> st.mark, markAt |-> st.markAt, stale |-> st.stale]
<1>3. CASE ~MarkCounts(r)
  <2>1. Freshness(st, r) = kept
    BY <1>3 DEF Freshness
  <2> QED BY <1>1, <2>1
<1>4. CASE MarkCounts(r)
  <2>0. EvidenceOf(r) = "success"
    BY <1>4 DEF MarkCounts
  <2>1. CASE r.mark = NoMark
    <3>1. Freshness(st, r) = [kept EXCEPT !.stale = @ + 1]
      BY <1>4, <2>1 DEF Freshness
    <3> QED BY <1>1, <2>0, <3>1
  <2>2. CASE r.mark # NoMark /\ Advances(st, r)
    <3>1. Freshness(st, r) = [mark |-> r.mark, markAt |-> r.at, stale |-> 0]
      BY <1>4, <2>2 DEF Freshness
    <3> QED BY <1>2, <2>0, <3>1
  <2>3. CASE r.mark # NoMark /\ ~Advances(st, r) /\ Tolerated(st, r)
    <3>1. Freshness(st, r) = [kept EXCEPT !.mark = r.mark]
      BY <1>4, <2>3 DEF Freshness
    <3> QED BY <1>1, <1>2, <2>0, <3>1
  <2>4. CASE r.mark # NoMark /\ ~Advances(st, r) /\ ~Tolerated(st, r)
    <3>1. Freshness(st, r) = [kept EXCEPT !.mark = r.mark, !.stale = @ + 1]
      BY <1>4, <2>4 DEF Freshness
    <3> QED BY <1>1, <1>2, <2>0, <3>1
  <2> QED BY <2>1, <2>2, <2>3, <2>4
<1> QED BY <1>3, <1>4

\* How a report changes the streak of empty results.
LEMMA EmptiesIs ==
    ASSUME NEW st \in States, NEW r \in Reports
    PROVE  /\ Empties(st, r) \in Nat
           /\ EvidenceOf(r) = "empty_result" => Empties(st, r) = st.empties + 1
           /\ EvidenceOf(r) = "success" /\ r.items > 0 => Empties(st, r) = 0
           /\ EvidenceOf(r) # "empty_result" /\ ~(EvidenceOf(r) = "success" /\ r.items > 0)
                => Empties(st, r) = st.empties
<1>1. st.empties \in Nat
  BY DEF States
<1>2. CASE EvidenceOf(r) = "empty_result"
  BY <1>1, <1>2 DEF Empties
<1>3. CASE EvidenceOf(r) = "success" /\ r.items > 0
  BY <1>3 DEF Empties
<1>4. CASE EvidenceOf(r) # "empty_result" /\ ~(EvidenceOf(r) = "success" /\ r.items > 0)
  BY <1>1, <1>4 DEF Empties
<1> QED BY <1>2, <1>3, <1>4

\* The state of the workflow remains one.
LEMMA AfterIs ==
    ASSUME NEW st \in States, NEW r \in Reports, agreement \in Agreements
    PROVE  After(st, r) \in States
<1>1. /\ EvidenceOf(r) \in Evidence /\ r.at \in Nat
  BY ReportIs
<1>2. /\ Freshness(st, r).mark \in Nat \cup {NoMark}
      /\ Freshness(st, r).markAt \in Nat \cup {Never}
      /\ Freshness(st, r).stale \in Nat
  BY FreshnessIs
<1>3. Empties(st, r) \in Nat
  BY EmptiesIs
<1>4. Effect(st, r) \in {"none", "not_evaluated", "passed", "breached"}
  <2>1. r.effect \in {"missing", "equal", "unequal"}
    BY ReportIs DEF Report
  <2>2. st.effect \in {"none", "not_evaluated", "passed", "breached"}
    BY DEF States
  <2> QED BY <2>1, <2>2 DEF Effect
<1>5. After(st, r) = [last |-> EvidenceOf(r), at |-> r.at, health |-> "healthy",
                      empties |-> Empties(st, r), mark |-> Freshness(st, r).mark,
                      markAt |-> Freshness(st, r).markAt, stale |-> Freshness(st, r).stale,
                      effect |-> Effect(st, r)]
  BY DEF After
<1> QED BY <1>1, <1>2, <1>3, <1>4, <1>5 DEF States

-----------------------------------------------------------------------------
(* What a report does to the incidents                                     *)

\* The types of incidents are problems.
LEMMA Types ==
    /\ {"silent_absence", "hard_failure", "empty_result", "freshness_stale",
        "effect_count_mismatch"} \subseteq Problems
    /\ Problems = IncidentType
BY IngestionAssumption DEF IncidentType

\* A failure opens a hard failure and nothing else.
LEMMA FailureDoes ==
    ASSUME NEW x, NEW rows, RowsGood(rows, x), NEW st, NEW r, EvidenceOf(r) = "failure",
           NEW next, next = Incidence(rows, st, r)
    PROVE  /\ RowsGood(next, x)
           /\ \A t \in {"empty_result", "freshness_stale", "effect_count_mismatch"} :
                 Unresolved(next, t) = Unresolved(rows, t)
<1>1. PICK heard : heard = CloseAll(rows, {"silent_absence"})
  OBVIOUS
<1>2. next = Raise(heard, "hard_failure")
  BY <1>1 DEF Incidence
<1>3. /\ RowsGood(heard, x)
      /\ \A t : t # "silent_absence" => Unresolved(heard, t) = Unresolved(rows, t)
  BY <1>1, CloseDoes
<1>4. /\ RowsGood(next, x)
      /\ \A t \in Problems \ {"hard_failure"} : Unresolved(next, t) = Unresolved(heard, t)
  BY <1>2, <1>3, RaiseDoes, Types
<1> QED BY <1>3, <1>4, Types

\* An empty result ends hard failures, and is an incident if the contract says so.
LEMMA EmptyDoes ==
    ASSUME NEW x, NEW rows, RowsGood(rows, x), NEW st, NEW r, EvidenceOf(r) = "empty_result",
           NEW next, next = Incidence(rows, st, r)
    PROVE  /\ RowsGood(next, x)
           /\ Unresolved(next, "hard_failure") = {}
           /\ \A t \in {"freshness_stale", "effect_count_mismatch"} :
                 Unresolved(next, t) = Unresolved(rows, t)
           /\ agreement.policy = "allowed" => Unresolved(next, "empty_result") = {}
           /\ ~(Empties(st, r) >= agreement.threshold)
                => Unresolved(next, "empty_result") \subseteq Unresolved(rows, "empty_result")
<1>1. PICK heard : heard = CloseAll(rows, {"silent_absence"})
  OBVIOUS
<1>2. PICK unfailed : unfailed = CloseAll(heard, {"hard_failure"})
  OBVIOUS
<1>3. next = OnEmpty(heard, Empties(st, r))
  BY <1>1 DEF Incidence
<1>4. /\ RowsGood(heard, x)
      /\ \A t : t # "silent_absence" => Unresolved(heard, t) = Unresolved(rows, t)
  BY <1>1, CloseDoes
<1>5. /\ RowsGood(unfailed, x) /\ Unresolved(unfailed, "hard_failure") = {}
      /\ \A t : t # "hard_failure" => Unresolved(unfailed, t) = Unresolved(heard, t)
  BY <1>2, <1>4, CloseDoes
<1>6. \A t \in {"empty_result", "freshness_stale", "effect_count_mismatch"} :
         Unresolved(unfailed, t) = Unresolved(rows, t)
  BY <1>4, <1>5
<1>7. CASE agreement.policy = "allowed"
  <2>1. next = CloseAll(unfailed, {"empty_result"})
    BY <1>2, <1>3, <1>7 DEF OnEmpty
  <2>2. /\ RowsGood(next, x) /\ Unresolved(next, "empty_result") = {}
        /\ \A t : t # "empty_result" => Unresolved(next, t) = Unresolved(unfailed, t)
    BY <1>5, <2>1, CloseDoes
  <2> QED BY <1>5, <1>6, <2>2
<1>8. CASE agreement.policy # "allowed" /\ Empties(st, r) >= agreement.threshold
  <2>1. next = Raise(unfailed, "empty_result")
    BY <1>2, <1>3, <1>8 DEF OnEmpty
  <2>2. /\ RowsGood(next, x)
        /\ \A t \in Problems \ {"empty_result"} : Unresolved(next, t) = Unresolved(unfailed, t)
    BY <1>5, <2>1, RaiseDoes, Types
  <2> QED BY <1>5, <1>6, <1>8, <2>2, Types
<1>9. CASE agreement.policy # "allowed" /\ ~(Empties(st, r) >= agreement.threshold)
  <2>1. next = unfailed
    BY <1>2, <1>3, <1>9 DEF OnEmpty
  <2> QED BY <1>5, <1>6, <1>9, <2>1
<1> QED BY <1>7, <1>8, <1>9

\* The receipt of a success opens or ends the mismatch of its counts.
LEMMA EffectDoes ==
    ASSUME NEW x, NEW rows, RowsGood(rows, x), NEW r \in Reports, NEW next, next = OnEffect(rows, r)
    PROVE  /\ RowsGood(next, x)
           /\ \A t \in Problems \ {"effect_count_mismatch"} :
                 Unresolved(next, t) = Unresolved(rows, t)
           /\ ~EffectCounts(r) => next = rows
           /\ r.effect = "equal" /\ EffectCounts(r)
                => Unresolved(next, "effect_count_mismatch") = {}
<1>1. CASE ~EffectCounts(r) \/ r.effect = "missing"
  BY <1>1 DEF OnEffect
<1>2. CASE EffectCounts(r) /\ r.effect = "equal"
  <2>1. next = CloseAll(rows, {"effect_count_mismatch"})
    BY <1>2 DEF OnEffect
  <2> QED BY <1>2, <2>1, CloseDoes
<1>3. CASE EffectCounts(r) /\ r.effect # "equal" /\ r.effect # "missing"
  <2>1. next = Raise(rows, "effect_count_mismatch")
    BY <1>3 DEF OnEffect
  <2> QED BY <1>3, <2>1, RaiseDoes, Types
<1> QED BY <1>1, <1>2, <1>3

\* A success ends whatever it contradicts.
LEMMA SuccessDoes ==
    ASSUME NEW x, NEW rows, RowsGood(rows, x), NEW st, NEW r \in Reports, EvidenceOf(r) = "success",
           NEW next, next = Incidence(rows, st, r)
    PROVE  /\ RowsGood(next, x)
           /\ Unresolved(next, "hard_failure") = {} /\ Unresolved(next, "empty_result") = {}
           /\ ~StaleNow(st, r) => Unresolved(next, "freshness_stale") = {}
           /\ ~EffectCounts(r) => Unresolved(next, "effect_count_mismatch")
                                    = Unresolved(rows, "effect_count_mismatch")
           /\ r.effect = "equal" /\ EffectCounts(r)
                => Unresolved(next, "effect_count_mismatch") = {}
<1> DEFINE three == {"hard_failure", "empty_result", "freshness_stale"}
<1>1. PICK heard : heard = CloseAll(rows, {"silent_absence"})
  OBVIOUS
<1>2. PICK closed : closed = CloseAll(heard, three)
  OBVIOUS
<1>3. PICK fresh : fresh = IF StaleNow(st, r) THEN Raise(closed, "freshness_stale") ELSE closed
  OBVIOUS
<1>4. next = OnEffect(fresh, r)
  BY <1>1, <1>2, <1>3 DEF Incidence, OnSuccess
<1>5. /\ RowsGood(heard, x)
      /\ \A t : t # "silent_absence" => Unresolved(heard, t) = Unresolved(rows, t)
  BY <1>1, CloseDoes
<1>6. /\ RowsGood(closed, x) /\ \A t \in three : Unresolved(closed, t) = {}
      /\ \A t : t \notin three => Unresolved(closed, t) = Unresolved(heard, t)
  BY <1>2, <1>5, CloseDoes
<1>7. /\ RowsGood(fresh, x)
      /\ \A t \in Problems \ {"freshness_stale"} : Unresolved(fresh, t) = Unresolved(closed, t)
      /\ ~StaleNow(st, r) => fresh = closed
  <2>1. CASE StaleNow(st, r)
    <3>1. fresh = Raise(closed, "freshness_stale")
      BY <1>3, <2>1
    <3> QED BY <1>6, <2>1, <3>1, RaiseDoes, Types
  <2>2. CASE ~StaleNow(st, r)
    BY <1>3, <1>6, <2>2
  <2> QED BY <2>1, <2>2
<1>8. /\ RowsGood(next, x)
      /\ \A t \in Problems \ {"effect_count_mismatch"} :
            Unresolved(next, t) = Unresolved(fresh, t)
      /\ ~EffectCounts(r) => next = fresh
      /\ r.effect = "equal" /\ EffectCounts(r)
           => Unresolved(next, "effect_count_mismatch") = {}
  BY <1>4, <1>7, EffectDoes
<1>9. Unresolved(fresh, "effect_count_mismatch") = Unresolved(rows, "effect_count_mismatch")
  BY <1>5, <1>6, <1>7, Types
<1>10. /\ Unresolved(next, "hard_failure") = {} /\ Unresolved(next, "empty_result") = {}
       /\ ~StaleNow(st, r) => Unresolved(next, "freshness_stale") = {}
  BY <1>6, <1>7, <1>8, Types
<1> QED BY <1>8, <1>9, <1>10

-----------------------------------------------------------------------------
(* The streak of empty results                                             *)

IsEmpty(r) == EvidenceOf(r) = "empty_result"
IsFull(r) == EvidenceOf(r) = "success" /\ r.items > 0

\* The empty reports stored since the last one with items.
Streak(ev) == {i \in DOMAIN ev : IsEmpty(ev[i]) /\ \A j \in i .. Len(ev) : ~IsFull(ev[j])}

\* It is a set of positions.
LEMMA StreakFinite ==
    ASSUME NEW ev \in Seq(Reports)
    PROVE  /\ IsFiniteSet(Streak(ev)) /\ Cardinality(Streak(ev)) \in Nat
           /\ Len(ev) + 1 \notin Streak(ev)
<1>1. Len(ev) \in Nat /\ DOMAIN ev = 1 .. Len(ev)
  OBVIOUS
<1>2. IsFiniteSet(1 .. Len(ev))
  BY <1>1, FS_Interval
<1>3. Streak(ev) \subseteq 1 .. Len(ev)
  BY <1>1 DEF Streak
<1>4. IsFiniteSet(Streak(ev))
  BY <1>2, <1>3, FS_Subset
<1> QED BY <1>1, <1>3, <1>4, FS_CardinalityType

\* A further report lengthens it, ends it or leaves it.
LEMMA StreakGrows ==
    ASSUME NEW ev \in Seq(Reports), NEW r \in Reports, NEW next, next = Append(ev, r)
    PROVE  /\ IsEmpty(r) => Cardinality(Streak(next)) = Cardinality(Streak(ev)) + 1
           /\ IsFull(r) => Cardinality(Streak(next)) = 0
           /\ ~IsEmpty(r) /\ ~IsFull(r) => Cardinality(Streak(next)) = Cardinality(Streak(ev))
<1>1. PICK n : n = Len(ev) /\ n \in Nat
  OBVIOUS
<1>2. DOMAIN ev = 1 .. n /\ DOMAIN next = 1 .. (n + 1) /\ Len(next) = n + 1
  BY <1>1
<1>3. next[n + 1] = r /\ \A i \in 1 .. n : next[i] = ev[i]
  BY <1>1
<1>4. \A i \in 1 .. n : i \in Streak(next) <=> i \in Streak(ev) /\ ~IsFull(r)
  <2> SUFFICES ASSUME NEW i \in 1 .. n
               PROVE  i \in Streak(next) <=> i \in Streak(ev) /\ ~IsFull(r)
    OBVIOUS
  <2>1. i .. (n + 1) = (i .. n) \cup {n + 1} /\ i .. n \subseteq 1 .. n
    BY <1>1
  <2>2. (\A j \in i .. (n + 1) : ~IsFull(next[j]))
          <=> (\A j \in i .. n : ~IsFull(ev[j])) /\ ~IsFull(r)
    BY <1>3, <2>1
  <2>3. i \in Streak(next) <=> IsEmpty(ev[i]) /\ \A j \in i .. (n + 1) : ~IsFull(next[j])
    BY <1>2, <1>3, <1>1 DEF Streak
  <2>4. i \in Streak(ev) <=> IsEmpty(ev[i]) /\ \A j \in i .. n : ~IsFull(ev[j])
    BY <1>2, <1>1 DEF Streak
  <2> QED BY <2>2, <2>3, <2>4
<1>5. n + 1 \in Streak(next) <=> IsEmpty(r)
  <2>1. (n + 1) .. (n + 1) = {n + 1}
    BY <1>1
  <2>2. n + 1 \in DOMAIN next
    BY <1>1, <1>2
  <2>3. n + 1 \in Streak(next) <=> IsEmpty(r) /\ ~IsFull(r)
    BY <1>2, <1>3, <2>1, <2>2 DEF Streak
  <2> QED BY <2>3 DEF IsEmpty, IsFull
<1>6. Streak(next) \subseteq (1 .. n) \cup {n + 1} /\ Streak(ev) \subseteq 1 .. n
  BY <1>1, <1>2 DEF Streak
<1>7. IsEmpty(r) => ~IsFull(r)
  BY DEF IsEmpty, IsFull
<1>8. CASE IsEmpty(r)
  <2>1. Streak(next) = Streak(ev) \cup {n + 1}
    BY <1>4, <1>5, <1>6, <1>7, <1>8
  <2>2. n + 1 \notin Streak(ev) /\ IsFiniteSet(Streak(ev))
    BY <1>1, StreakFinite
  <2>3. Cardinality(Streak(next)) = Cardinality(Streak(ev)) + 1
    BY <2>1, <2>2, FS_AddElement
  <2> QED BY <1>7, <1>8, <2>3
<1>9. CASE IsFull(r)
  <2>1. Streak(next) = {}
    BY <1>4, <1>5, <1>6, <1>7, <1>9
  <2> QED BY <1>7, <1>9, <2>1, FS_EmptySet
<1>10. CASE ~IsEmpty(r) /\ ~IsFull(r)
  <2>1. Streak(next) = Streak(ev)
    BY <1>4, <1>5, <1>6, <1>10
  <2> QED BY <1>10, <2>1
<1> QED BY <1>8, <1>9, <1>10

-----------------------------------------------------------------------------
(* The steps keep the types                                                *)

\* The silence is over, and no row of the first ones has gone or been reopened.
Heard(first, rows, x) ==
    /\ RowsGood(rows, x) /\ Kept(first, rows)
    /\ Unresolved(rows, "silent_absence") = {}

LEMMA KeptOn ==
    ASSUME NEW one, NEW two, NEW three, Kept(one, two), Kept(two, three)
    PROVE  Kept(one, three)
BY DEF Kept

LEMMA HeardRaise ==
    ASSUME NEW x, NEW first, NEW rows, Heard(first, rows, x),
           NEW t \in Problems, t # "silent_absence"
    PROVE  Heard(first, Raise(rows, t), x)
<1>1. PICK next : next = Raise(rows, t)
  OBVIOUS
<1>2. RowsGood(next, x) /\ Kept(rows, next)
      /\ Unresolved(next, "silent_absence") = Unresolved(rows, "silent_absence")
  BY <1>1, RaiseDoes, Types DEF Heard
<1> QED BY <1>1, <1>2, KeptOn DEF Heard

LEMMA HeardClose ==
    ASSUME NEW x, NEW first, NEW rows, Heard(first, rows, x), NEW types
    PROVE  Heard(first, CloseAll(rows, types), x)
<1>1. PICK next : next = CloseAll(rows, types)
  OBVIOUS
<1>2. /\ RowsGood(next, x) /\ Kept(rows, next)
      /\ \A t \in types : Unresolved(next, t) = {}
      /\ \A t : t \notin types => Unresolved(next, t) = Unresolved(rows, t)
  BY <1>1, CloseDoes DEF Heard
<1>3. Unresolved(next, "silent_absence") = {}
  BY <1>2 DEF Heard
<1> QED BY <1>1, <1>2, <1>3, KeptOn DEF Heard

\* A report leaves the incidents good, and no silence.
LEMMA IncidenceGood ==
    ASSUME NEW x, NEW rows, RowsGood(rows, x), NEW st, NEW r \in Reports
    PROVE  Heard(rows, Incidence(rows, st, r), x)
<1>1. EvidenceOf(r) \in {"failure", "empty_result", "success"}
  BY ReportIs DEF Evidence
<1>2. PICK heard : heard = CloseAll(rows, {"silent_absence"})
  OBVIOUS
<1>3. Heard(rows, heard, x)
  BY <1>2, CloseDoes DEF Heard
<1>4. CASE EvidenceOf(r) = "failure"
  <2>1. Incidence(rows, st, r) = Raise(heard, "hard_failure")
    BY <1>2, <1>4 DEF Incidence
  <2> QED BY <1>3, <2>1, HeardRaise, Types
<1>5. CASE EvidenceOf(r) = "empty_result"
  <2>1. PICK unfailed : unfailed = CloseAll(heard, {"hard_failure"})
    OBVIOUS
  <2>2. Heard(rows, unfailed, x)
    BY <1>3, <2>1, HeardClose
  <2>3. Incidence(rows, st, r) \in {CloseAll(unfailed, {"empty_result"}),
                                    Raise(unfailed, "empty_result"), unfailed}
    BY <1>2, <1>5, <2>1 DEF Incidence, OnEmpty
  <2> QED BY <2>2, <2>3, HeardClose, HeardRaise, Types
<1>6. CASE EvidenceOf(r) = "success"
  <2>1. PICK closed : closed = CloseAll(heard, {"hard_failure", "empty_result", "freshness_stale"})
    OBVIOUS
  <2>2. Heard(rows, closed, x)
    BY <1>3, <2>1, HeardClose
  <2>3. PICK fresh : fresh = IF StaleNow(st, r) THEN Raise(closed, "freshness_stale") ELSE closed
    OBVIOUS
  <2>4. Heard(rows, fresh, x)
    BY <2>2, <2>3, HeardRaise, Types
  <2>5. Incidence(rows, st, r) = OnEffect(fresh, r)
    BY <1>2, <1>6, <2>1, <2>3 DEF Incidence, OnSuccess
  <2>6. OnEffect(fresh, r) \in {fresh, CloseAll(fresh, {"effect_count_mismatch"}),
                                Raise(fresh, "effect_count_mismatch")}
    BY DEF OnEffect
  <2> QED BY <2>4, <2>5, <2>6, HeardClose, HeardRaise, Types
<1> QED BY <1>1, <1>4, <1>5, <1>6

\* What stands in the way of a report: a handler or a tick of the same process.
Requesting(p) == pc[p] \in {"idle"} \cup RequestPlace

\* A request moves nobody else, and points at no incident.
LEMMA RequestKeeps ==
    ASSUME TypeInv, NEW p \in Processes, Requesting(p), NEW place \in {"idle"} \cup RequestPlace,
           pc' = [pc EXCEPT ![p] = place], UNCHANGED <<handlerVars, raced>>,
           Kept(incidents, incidents'),
           Unresolved(incidents', "silent_absence") \subseteq Unresolved(incidents, "silent_absence")
    PROVE  HandlersGood' /\ Excuses' = Excuses
<1>1. pc \in [Processes -> Pc]
  BY DEF TypeInv
<1>2. \A q \in Processes : pc'[q] = pc[q] \/ (q = p /\ pc'[p] \in {"idle"} \cup RequestPlace)
  BY <1>1
<1>3. OpeningSet' = OpeningSet /\ EndingSet' = EndingSet
  <2>1. \A q \in Processes : /\ pc'[q] = "announce" <=> pc[q] = "announce"
                             /\ pc'[q] = "tellResolved" <=> pc[q] = "tellResolved"
    BY <1>1, <1>2 DEF Requesting, RequestPlace
  <2> QED BY <2>1 DEF OpeningSet, EndingSet, handlerVars
<1>4. \A q \in Processes : pc'[q] \in HandlerPlace \cup TickPlace => pc'[q] = pc[q]
  BY <1>2 DEF RequestPlace, HandlerPlace, TickPlace
<1>5. HandlersGood
  BY DEF TypeInv
<1>6. /\ inc' = inc /\ read' = read /\ raced' = raced
      /\ DOMAIN incidents \subseteq DOMAIN incidents'
      /\ \A i \in DOMAIN incidents : incidents[i].recovered => incidents'[i].recovered
      /\ Silences' \subseteq Silences
  BY DEF handlerVars, Kept, Silences
<1>7. HandlersGood'
  BY <1>4, <1>5, <1>6 DEF HandlersGood, Pointing, HandlerPlace, TickPlace
<1> QED BY <1>3, <1>6, <1>7 DEF Excuses

\* What the end of a request leaves behind.
LEMMA Finishes ==
    ASSUME TypeInv, NEW p \in Processes, Requesting(p), NEW a \in Answer, Finish(p, a)
    PROVE  /\ pc' \in [Processes -> Pc] /\ pc'[p] = "idle" /\ answer'[p] = a
           /\ pc' = [pc EXCEPT ![p] = "idle"]
           /\ request' \in [Processes -> Reports \cup {NoReport}]
           /\ decision' \in [Processes -> Limits]
           /\ answer' \in [Processes -> Answer]
           /\ \A q \in Processes : IF pc'[q] \in RequestPlace THEN request'[q] \in Reports
                                ELSE request'[q] = NoReport
<1>1. NewWindow \in Limits
  BY IngestionAssumption DEF NewWindow, Limits
<1> QED BY <1>1 DEF TypeInv, Finish, Pc, RequestPlace

\* What a request that proceeds leaves behind.
LEMMA Proceeds ==
    ASSUME TypeInv, NEW p \in Processes, NEW place \in RequestPlace, pc[p] \in RequestPlace,
           Proceed(p, place)
    PROVE  /\ pc' \in [Processes -> Pc] /\ pc'[p] = place
           /\ pc' = [pc EXCEPT ![p] = place]
           /\ request' \in [Processes -> Reports \cup {NoReport}]
           /\ answer' \in [Processes -> Answer]
           /\ \A q \in Processes : IF pc'[q] \in RequestPlace THEN request'[q] \in Reports
                                ELSE request'[q] = NoReport
BY DEF TypeInv, Proceed, Pc

\* A request that leaves the incidents alone.
LEMMA RequestLeaves ==
    ASSUME TypeInv, NEW p \in Processes, Requesting(p), NEW place \in {"idle"} \cup RequestPlace,
           pc' = [pc EXCEPT ![p] = place], UNCHANGED <<incidents, handlerVars, raced>>
    PROVE  RowsGood(incidents, Excuses)' /\ HandlersGood'
<1>1. Kept(incidents, incidents')
  BY DEF Kept
<1>2. HandlersGood' /\ Excuses' = Excuses
  BY <1>1, RequestKeeps
<1> QED BY <1>2 DEF TypeInv

\* The limiter's window.
LEMMA CurrentIs ==
    ASSUME NEW l \in Limits
    PROVE  /\ Current(l) \in Limits
           /\ OneMoreRejected(l) \in Limits
           /\ Allowed(l) => [Current(l) EXCEPT !.accepted = @ + 1] \in Limits
<1>0. Cap \in Nat \ {0} /\ Window \in Nat \ {0} /\ Sustained \in Nat \ {0}
  BY IngestionAssumption
<1>1. l.age \in 0 .. Window /\ l.accepted \in 0 .. Cap /\ l.rejected \in Nat
  BY DEF Limits
<1>2. Current(l) \in Limits
  BY <1>0, <1>1 DEF Current, Limits
<1>3. OneMoreRejected(l) \in Limits
  BY <1>0, <1>2 DEF OneMoreRejected, Limits
<1>4. Allowed(l) => [Current(l) EXCEPT !.accepted = @ + 1] \in Limits
  BY <1>0, <1>2 DEF Allowed, Limits
<1> QED BY <1>2, <1>3, <1>4

\* The types hold at first.
LEMMA InitTypes == Init => TypeInv
<1> SUFFICES ASSUME Init PROVE TypeInv
  OBVIOUS
<1>0. /\ Window \in Nat /\ Cap \in Nat /\ MaxAdmin \in Nat
  BY IngestionAssumption
<1>1. NewWindow \in Limits
  BY <1>0 DEF NewWindow, Limits
<1>3. state \in States /\ events \in Seq(Reports) /\ agreement \in Agreements
  <2>1. state = [last |-> "unknown", at |-> Never, health |-> "unknown", empties |-> 0,
                 mark |-> NoMark, markAt |-> Never, stale |-> 0, effect |-> "none"]
    BY DEF Init
  <2>2. state \in States
    BY <2>1 DEF States, Evidence
  <2> QED BY <2>2 DEF Init
<1>6. HandlersGood /\ OpeningSet = {} /\ EndingSet = {}
  <2>1. /\ inc \in [Processes -> Nat] /\ read \in [Processes -> BOOLEAN] /\ raced = {}
        /\ \A p \in Processes : pc[p] = "idle"
    BY DEF Init
  <2> QED BY <2>1 DEF HandlersGood, Pointing, HandlerPlace, TickPlace, OpeningSet, EndingSet
<1>4. /\ active \in BOOLEAN /\ trusted \in BOOLEAN
      /\ limit \in Limits
      /\ pc = [p \in Processes |-> "idle"]
      /\ request \in [Processes -> Reports \cup {NoReport}]
      /\ decision \in [Processes -> Limits]
      /\ answer \in [Processes -> Answer]
      /\ admin \in 0 .. MaxAdmin
  BY <1>0, <1>1 DEF Init, Answer
<1>2. RowsGood(incidents, Excuses)
  <2>1. incidents = <<>>
    BY DEF Init
  <2> QED BY <1>6, <2>1 DEF RowsGood, Excuses
<1>5. /\ pc \in [Processes -> Pc]
      /\ \A p \in Processes : pc[p] = "idle" /\ request[p] = NoReport
  BY <1>4 DEF Pc, Init
<1> QED BY <1>2, <1>3, <1>4, <1>5, <1>6 DEF TypeInv, RequestPlace

\* A report arrives.
LEMMA ArriveTypes ==
    ASSUME TypeInv, NEW p \in Processes, NEW r \in Reports, Arrive(p, r) \/ ArrivePolled(p, r)
    PROVE  TypeInv'
<1>1. /\ UNCHANGED <<incidents, events, state, agreement, active, trusted, limit, admin,
                     handlerVars, raced>>
      /\ Requesting(p)
  BY DEF Arrive, ArrivePolled, Requesting
<1>2. \/ \E a \in Answer : Finish(p, a)
      \/ /\ \E place \in RequestPlace : pc' = [pc EXCEPT ![p] = place]
         /\ request' = [request EXCEPT ![p] = r]
         /\ answer' = [answer EXCEPT ![p] = "none"]
         /\ UNCHANGED decision
  BY DEF Arrive, ArrivePolled, Answer, RequestPlace
<1>3. CASE \E a \in Answer : Finish(p, a)
  <2>1. /\ pc' = [pc EXCEPT ![p] = "idle"]
        /\ pc' \in [Processes -> Pc] /\ request' \in [Processes -> Reports \cup {NoReport}]
        /\ decision' \in [Processes -> Limits] /\ answer' \in [Processes -> Answer]
        /\ \A q \in Processes : IF pc'[q] \in RequestPlace THEN request'[q] \in Reports
                                ELSE request'[q] = NoReport
    BY <1>1, <1>3, Finishes
  <2>2. RowsGood(incidents, Excuses)' /\ HandlersGood'
    BY <1>1, <2>1, RequestLeaves
  <2> QED BY <1>1, <2>1, <2>2 DEF TypeInv
<1>4. CASE /\ \E place \in RequestPlace : pc' = [pc EXCEPT ![p] = place]
           /\ request' = [request EXCEPT ![p] = r]
           /\ answer' = [answer EXCEPT ![p] = "none"]
           /\ UNCHANGED decision
  <2>1. RowsGood(incidents, Excuses)' /\ HandlersGood'
    BY <1>1, <1>4, RequestLeaves
  <2> QED BY <1>1, <1>4, <2>1 DEF TypeInv, Pc, Answer
<1> QED BY <1>2, <1>3, <1>4

\* The steps at the limiter.
LEMMA LimiterTypes ==
    ASSUME TypeInv, NEW p \in Processes, PassLimit(p) \/ HitLimit(p) \/ Reject(p)
    PROVE  TypeInv'
<1>0. limit \in Limits /\ decision \in [Processes -> Limits]
  BY DEF TypeInv
<1>1. CASE PassLimit(p) \/ HitLimit(p)
  <2>1. /\ pc[p] \in RequestPlace
        /\ Proceed(p, "contract") \/ Proceed(p, "reject")
        /\ decision' \in [Processes -> Limits]
        /\ UNCHANGED <<incidents, events, state, agreement, active, trusted, limit, admin,
                       handlerVars, raced>>
    BY <1>0, <1>1, CurrentIs DEF PassLimit, HitLimit, RequestPlace
  <2>2. PICK place \in RequestPlace : Proceed(p, place)
    BY <2>1 DEF RequestPlace
  <2>3. /\ pc' = [pc EXCEPT ![p] = place]
        /\ pc' \in [Processes -> Pc] /\ request' \in [Processes -> Reports \cup {NoReport}]
        /\ answer' \in [Processes -> Answer]
        /\ \A q \in Processes : IF pc'[q] \in RequestPlace THEN request'[q] \in Reports
                                ELSE request'[q] = NoReport
    BY <2>1, <2>2, Proceeds
  <2>4. RowsGood(incidents, Excuses)' /\ HandlersGood'
    BY <2>1, <2>3, RequestLeaves DEF Requesting
  <2> QED BY <2>1, <2>3, <2>4 DEF TypeInv
<1>2. CASE Reject(p)
  <2>1. /\ limit' \in Limits /\ Finish(p, "rate_limited") /\ Requesting(p)
        /\ UNCHANGED <<incidents, events, agreement, active, trusted, admin, handlerVars, raced>>
    BY <1>0, <1>2 DEF Reject, Requesting, RequestPlace
  <2>2. state' \in States
    <3>1. state \in States /\ [state EXCEPT !.health = "warning"] \in States
      BY DEF TypeInv, States
    <3> QED BY <1>2, <3>1 DEF Reject
  <2>3. /\ pc' = [pc EXCEPT ![p] = "idle"]
        /\ pc' \in [Processes -> Pc] /\ request' \in [Processes -> Reports \cup {NoReport}]
        /\ decision' \in [Processes -> Limits] /\ answer' \in [Processes -> Answer]
        /\ \A q \in Processes : IF pc'[q] \in RequestPlace THEN request'[q] \in Reports
                                ELSE request'[q] = NoReport
    BY <2>1, Finishes DEF Answer
  <2>4. RowsGood(incidents, Excuses)' /\ HandlersGood'
    BY <2>1, <2>3, RequestLeaves
  <2> QED BY <2>1, <2>2, <2>3, <2>4 DEF TypeInv
<1> QED BY <1>1, <1>2

\* The contract is looked at, or the transaction refused.
LEMMA CheckContractTypes ==
    ASSUME TypeInv, NEW p \in Processes, CheckContract(p) \/ WriteRefused(p)
    PROVE  TypeInv'
<1>1. /\ UNCHANGED <<incidents, events, state, agreement, active, trusted, limit, admin,
                     handlerVars, raced>>
      /\ pc[p] \in RequestPlace /\ Requesting(p)
  BY DEF CheckContract, WriteRefused, RequestPlace, Requesting
<1>2. \/ \E a \in Answer : Finish(p, a)
      \/ Proceed(p, "write") /\ UNCHANGED decision
  BY DEF CheckContract, WriteRefused, Answer
<1>3. CASE \E a \in Answer : Finish(p, a)
  <2>1. /\ pc' = [pc EXCEPT ![p] = "idle"]
        /\ pc' \in [Processes -> Pc] /\ request' \in [Processes -> Reports \cup {NoReport}]
        /\ decision' \in [Processes -> Limits] /\ answer' \in [Processes -> Answer]
        /\ \A q \in Processes : IF pc'[q] \in RequestPlace THEN request'[q] \in Reports
                                ELSE request'[q] = NoReport
    BY <1>1, <1>3, Finishes
  <2>2. RowsGood(incidents, Excuses)' /\ HandlersGood'
    BY <1>1, <2>1, RequestLeaves
  <2> QED BY <1>1, <2>1, <2>2 DEF TypeInv
<1>4. CASE Proceed(p, "write") /\ UNCHANGED decision
  <2>1. /\ pc' = [pc EXCEPT ![p] = "write"]
        /\ pc' \in [Processes -> Pc] /\ request' \in [Processes -> Reports \cup {NoReport}]
        /\ answer' \in [Processes -> Answer]
        /\ \A q \in Processes : IF pc'[q] \in RequestPlace THEN request'[q] \in Reports
                                ELSE request'[q] = NoReport
    BY <1>1, <1>4, Proceeds DEF RequestPlace
  <2>2. RowsGood(incidents, Excuses)' /\ HandlersGood'
    BY <1>1, <2>1, RequestLeaves DEF RequestPlace
  <2> QED BY <1>1, <1>4, <2>1, <2>2 DEF TypeInv
<1> QED BY <1>2, <1>3, <1>4

\* The transaction.
LEMMA WriteTypes ==
    ASSUME TypeInv, NEW p \in Processes, Write(p)
    PROVE  TypeInv'
<1>1. request[p] \in Reports /\ Requesting(p)
  BY DEF TypeInv, Write, Requesting, RequestPlace
<1>2. PICK r : r = request[p]
  OBVIOUS
<1>3. /\ events' = Append(events, r) /\ state' = After(state, r)
      /\ incidents' = Incidence(incidents, state, r)
      /\ UNCHANGED <<agreement, active, trusted, admin, handlerVars, raced>>
      /\ Finish(p, "accepted") /\ limit' \in {decision[p], limit}
  BY <1>2 DEF Write
<1>4. /\ pc' = [pc EXCEPT ![p] = "idle"]
      /\ pc' \in [Processes -> Pc] /\ request' \in [Processes -> Reports \cup {NoReport}]
      /\ decision' \in [Processes -> Limits] /\ answer' \in [Processes -> Answer]
      /\ \A q \in Processes : IF pc'[q] \in RequestPlace THEN request'[q] \in Reports
                                ELSE request'[q] = NoReport
  BY <1>1, <1>3, Finishes DEF Answer
<1>5. RowsGood(incidents, Excuses)' /\ HandlersGood'
  <2>1. Heard(incidents, incidents', Excuses)
    BY <1>1, <1>2, <1>3, IncidenceGood DEF TypeInv
  <2>2. HandlersGood' /\ Excuses' = Excuses
    BY <1>1, <1>3, <1>4, <2>1, RequestKeeps DEF Heard
  <2> QED BY <2>1, <2>2 DEF Heard
<1>6. state' \in States
  BY <1>1, <1>2, <1>3, AfterIs DEF TypeInv
<1>7. events' \in Seq(Reports) /\ limit' \in Limits
  BY <1>1, <1>2, <1>3 DEF TypeInv
<1> QED BY <1>3, <1>4, <1>5, <1>6, <1>7 DEF TypeInv

-----------------------------------------------------------------------------
(* The incident API and the watchdog                                       *)

\* What the sets of announcements under way consist of.
LEMMA ExcusesAre ==
    /\ \A i : i \in OpeningSet <=> \E q \in Processes : Opening(q, i)
    /\ \A i : i \in EndingSet <=> \E q \in Processes : Ending(q, i)
    /\ Excuses.raced = raced /\ Excuses.opening = OpeningSet /\ Excuses.ending = EndingSet
BY DEF OpeningSet, EndingSet, Opening, Ending, Excuses

\* One row is written, and the excuses of the others are no fewer than before.
LEMMA OneRowGood ==
    ASSUME NEW x, NEW y, NEW rows, RowsGood(rows, x), NEW i \in DOMAIN rows,
           NEW next \in Seq(Incident), DOMAIN next = DOMAIN rows,
           \A j \in DOMAIN rows \ {i} : next[j] = rows[j],
           y.opening \cup y.ending \subseteq DOMAIN rows,
           \A j \in DOMAIN rows \ {i} : j \notin y.raced =>
              /\ j \notin x.raced
              /\ j \in y.opening <=> j \in x.opening
              /\ j \in y.ending <=> j \in x.ending,
           RowGood(next[i], i, y), next[i].problem = rows[i].problem,
           IsUnresolved(next[i]) =>
              IsUnresolved(rows[i]) \/ Unresolved(rows, rows[i].problem) \ {i} = {}
    PROVE  RowsGood(next, y)
<1>1. ASSUME NEW j \in DOMAIN rows PROVE RowGood(next[j], j, y)
  <2>1. CASE j = i
    BY <2>1
  <2>2. CASE j # i
    <3>1. next[j] = rows[j] /\ RowGood(rows[j], j, x)
      BY <2>2 DEF RowsGood
    <3> QED BY <2>2, <3>1 DEF RowGood
  <2> QED BY <2>1, <2>2
<1>2. ASSUME NEW j \in DOMAIN rows, NEW k \in DOMAIN rows, IsUnresolved(next[j]),
             IsUnresolved(next[k]), next[j].problem = next[k].problem
      PROVE  j = k
  <2>1. \A m \in DOMAIN rows \ {i} :
           IsUnresolved(rows[m]) /\ rows[m].problem = rows[i].problem
             => m \in Unresolved(rows, rows[i].problem) \ {i}
    BY DEF Unresolved, IsUnresolved
  <2>0. \A m \in DOMAIN rows : next[m].problem = rows[m].problem
    OBVIOUS
  <2>2. CASE IsUnresolved(next[i]) /\ ~IsUnresolved(rows[i])
    <3>1. \A m \in DOMAIN rows \ {i} :
             ~(IsUnresolved(rows[m]) /\ rows[m].problem = rows[i].problem)
      BY <2>1, <2>2
    <3>2. CASE j # i /\ k # i
      BY <1>2, <2>0, <3>2 DEF RowsGood
    <3>3. CASE j = i \/ k = i
      BY <1>2, <2>0, <3>1, <3>3
    <3> QED BY <3>2, <3>3
  <2>3. CASE ~IsUnresolved(next[i]) \/ IsUnresolved(rows[i])
    <3>1. \A m \in DOMAIN rows : IsUnresolved(next[m]) => IsUnresolved(rows[m])
      BY <2>3
    <3> QED BY <1>2, <2>0, <3>1 DEF RowsGood
  <2> QED BY <2>2, <2>3
<1> QED BY <1>1, <1>2 DEF RowsGood

\* What a step of a handler or of the tick leaves behind, besides incidents.
Handled ==
    /\ RowsGood(incidents, Excuses)' /\ HandlersGood'
    /\ \A t \in Problems \ {"silent_absence"} :
          Unresolved(incidents', t) \ raced' \subseteq Unresolved(incidents, t) \ raced

\* p has moved on, with or without a row and a reading.
LEMMA MovesOn ==
    ASSUME NEW p \in Processes, pc \in [Processes -> Pc], NEW place \in Pc,
           pc' = [pc EXCEPT ![p] = place],
           inc \in [Processes -> Nat], read \in [Processes -> BOOLEAN],
           NEW i \in Nat, NEW b \in BOOLEAN,
           inc' = [inc EXCEPT ![p] = i], read' = [read EXCEPT ![p] = b]
    PROVE  /\ inc' \in [Processes -> Nat] /\ read' \in [Processes -> BOOLEAN]
           /\ pc' \in [Processes -> Pc]
           /\ pc'[p] = place /\ inc'[p] = i /\ read'[p] = b
           /\ \A q \in Processes \ {p} : pc'[q] = pc[q] /\ inc'[q] = inc[q] /\ read'[q] = read[q]
           /\ \A j : j \in OpeningSet' <=>
                 \/ \E q \in Processes \ {p} : Opening(q, j)
                 \/ place = "announce" /\ b = FALSE /\ i = j
           /\ \A j : j \in EndingSet' <=>
                 \/ \E q \in Processes \ {p} : Ending(q, j)
                 \/ place = "tellResolved" /\ i = j
BY DEF OpeningSet, EndingSet, Opening, Ending

\* A handler reads its row.
LEMMA HandlerReads ==
    ASSUME TypeInv, NEW p \in Processes, NEW i \in DOMAIN incidents,
           AdminResolve(p, i) \/ AdminAcknowledge(p, i)
    PROVE  Handled
<1>0. /\ RowsGood(incidents, Excuses) /\ HandlersGood /\ pc \in [Processes -> Pc]
      /\ incidents[i] \in Incident /\ incidents[i].recovered \in BOOLEAN /\ i \in Nat
      /\ Resolvable(incidents[i]) => incidents[i].status # "resolved"
  <2>1. incidents \in Seq(Incident) /\ RowsGood(incidents, Excuses) /\ HandlersGood
        /\ pc \in [Processes -> Pc]
    BY DEF TypeInv, RowsGood
  <2>2. incidents[i] \in Incident /\ i \in Nat
    BY <2>1
  <2> QED BY <2>1, <2>2 DEF Incident, Resolvable
<1>1. PICK place \in {"writeResolve", "writeAck"} :
         /\ pc' = [pc EXCEPT ![p] = place]
         /\ place = "writeResolve" => Resolvable(incidents[i])
  BY DEF AdminResolve, AdminAcknowledge, Proceed
<1>2. /\ pc[p] = "idle" /\ UNCHANGED <<incidents, raced>>
      /\ inc' = [inc EXCEPT ![p] = i]
      /\ read' = [read EXCEPT ![p] = incidents[i].recovered]
  BY DEF AdminResolve, AdminAcknowledge
<1>3. place \in Pc
  BY <1>1 DEF Pc, HandlerPlace
<1>4. /\ inc' \in [Processes -> Nat] /\ read' \in [Processes -> BOOLEAN]
      /\ pc'[p] = place /\ inc'[p] = i /\ read'[p] = incidents[i].recovered
      /\ \A q \in Processes \ {p} : pc'[q] = pc[q] /\ inc'[q] = inc[q] /\ read'[q] = read[q]
      /\ \A j : j \in OpeningSet' <=> \E q \in Processes \ {p} : Opening(q, j)
      /\ \A j : j \in EndingSet' <=> \E q \in Processes \ {p} : Ending(q, j)
  BY <1>0, <1>1, <1>2, <1>3, MovesOn DEF HandlersGood
<1>5. Excuses' = Excuses
  <2>1. \A j : (j \in OpeningSet' <=> j \in OpeningSet) /\ (j \in EndingSet' <=> j \in EndingSet)
    BY <1>2, <1>4, ExcusesAre DEF Opening, Ending
  <2>2. OpeningSet' = OpeningSet /\ EndingSet' = EndingSet
    BY <2>1
  <2> QED BY <1>2, <2>2 DEF Excuses
<1>6. i \notin raced => (incidents[i].recovered <=> incidents[i].status = "resolved")
  BY <1>0, ExcusesAre DEF RowsGood, RowGood
<1>7. HandlersGood'
  <2>1. Silences' = Silences
    BY <1>2 DEF Silences
  <2> QED BY <1>0, <1>1, <1>2, <1>4, <1>6, <2>1
      DEF HandlersGood, Pointing, HandlerPlace, TickPlace
<1> QED BY <1>0, <1>2, <1>5, <1>7 DEF Handled

\* A handler or the tick ends without a further word about incidents.
LEMMA EndsQuietly ==
    ASSUME TypeInv, NEW p \in Processes, EndHandler(p), UNCHANGED <<incidents, raced>>,
           pc[p] \in HandlerPlace \cup TickPlace, pc[p] # "tellResolved",
           pc[p] = "announce" => read[p]
    PROVE  Handled
<1>0. /\ RowsGood(incidents, Excuses) /\ HandlersGood /\ pc \in [Processes -> Pc]
  BY DEF TypeInv
<1>1. /\ inc' \in [Processes -> Nat] /\ read' \in [Processes -> BOOLEAN]
      /\ pc'[p] = "idle"
      /\ \A q \in Processes \ {p} : pc'[q] = pc[q] /\ inc'[q] = inc[q] /\ read'[q] = read[q]
      /\ \A j : j \in OpeningSet' <=> \E q \in Processes \ {p} : Opening(q, j)
      /\ \A j : j \in EndingSet' <=> \E q \in Processes \ {p} : Ending(q, j)
  <2>1. /\ pc' = [pc EXCEPT ![p] = "idle"] /\ "idle" \in Pc /\ 0 \in Nat /\ FALSE \in BOOLEAN
        /\ inc' = [inc EXCEPT ![p] = 0] /\ read' = [read EXCEPT ![p] = FALSE]
    BY DEF EndHandler, Proceed, Pc
  <2>2. inc \in [Processes -> Nat] /\ read \in [Processes -> BOOLEAN]
    BY <1>0 DEF HandlersGood
  <2>3. /\ inc' \in [Processes -> Nat] /\ read' \in [Processes -> BOOLEAN]
        /\ pc'[p] = "idle"
        /\ \A q \in Processes \ {p} : pc'[q] = pc[q] /\ inc'[q] = inc[q] /\ read'[q] = read[q]
        /\ \A j : j \in OpeningSet' <=>
              \/ \E q \in Processes \ {p} : Opening(q, j)
              \/ "idle" = "announce" /\ FALSE = FALSE /\ 0 = j
        /\ \A j : j \in EndingSet' <=>
              \/ \E q \in Processes \ {p} : Ending(q, j)
              \/ "idle" = "tellResolved" /\ 0 = j
    BY <1>0, <2>1, <2>2, MovesOn
  <2> QED BY <2>3
<1>2. Excuses' = Excuses
  <2>1. \A j : (j \in OpeningSet' <=> j \in OpeningSet) /\ (j \in EndingSet' <=> j \in EndingSet)
    BY <1>1, ExcusesAre DEF Opening, Ending
  <2>2. OpeningSet' = OpeningSet /\ EndingSet' = EndingSet
    BY <2>1
  <2> QED BY <2>2 DEF Excuses
<1>3. HandlersGood'
  <2>1. Silences' = Silences
    BY DEF Silences
  <2> QED BY <1>0, <1>1, <2>1 DEF HandlersGood, Pointing, HandlerPlace, TickPlace
<1> QED BY <1>0, <1>2, <1>3 DEF Handled

\* The UPDATE of a resolution.
LEMMA ResolveWrites ==
    ASSUME TypeInv, NEW p \in Processes, WriteResolve(p)
    PROVE  Handled
<1> DEFINE i == inc[p]
<1>0. /\ RowsGood(incidents, Excuses) /\ HandlersGood /\ pc \in [Processes -> Pc]
      /\ incidents \in Seq(Incident) /\ i \in DOMAIN incidents
      /\ RowGood(incidents[i], i, Excuses) /\ incidents[i].recovered \in BOOLEAN
  <2>1. /\ RowsGood(incidents, Excuses) /\ HandlersGood /\ pc \in [Processes -> Pc]
        /\ incidents \in Seq(Incident) /\ i \in DOMAIN incidents
    BY DEF TypeInv, RowsGood, WriteResolve, HandlersGood, Pointing, HandlerPlace
  <2>2. incidents[i] \in Incident
    BY <2>1
  <2> QED BY <2>1, <2>2 DEF RowsGood, Incident
<1>1. /\ pc[p] = "writeResolve" /\ incidents' = Resolved(incidents, i) /\ raced' = RacedFor(p)
      /\ pc' = [pc EXCEPT ![p] = "tellResolved"] /\ inc' = inc /\ read' = read
  BY DEF WriteResolve, Proceed, handlerVars
<1>2. /\ incidents' \in Seq(Incident) /\ DOMAIN incidents' = DOMAIN incidents
      /\ \A j \in DOMAIN incidents \ {i} : incidents'[j] = incidents[j]
      /\ incidents'[i].problem = incidents[i].problem /\ incidents'[i].status = "resolved"
      /\ incidents'[i].recovered /\ incidents'[i].told = incidents[i].told
  <2> HIDE DEF i
  <2>1. incidents \in Seq(Incident) /\ i \in DOMAIN incidents /\ incidents' = Resolved(incidents, i)
    BY <1>0, <1>1
  <2> QED BY <2>1, ResolvedDoes
<1>3. /\ raced \subseteq raced' /\ raced' \subseteq raced \cup {i}
      /\ i \notin raced' => /\ i \notin raced /\ ~incidents[i].recovered
                            /\ incidents[i].status # "resolved" /\ i \notin EndingSet
  <2>1. i \notin raced => ~read[p]
    BY <1>0, <1>1 DEF HandlersGood
  <2>2. /\ raced' = raced \/ raced' = raced \cup {i}
        /\ i \notin raced' => i \notin raced /\ incidents[i].recovered = read[p]
    BY <1>1 DEF RacedFor
  <2>3. i \notin raced /\ ~incidents[i].recovered
          => incidents[i].status # "resolved" /\ i \notin EndingSet
    BY <1>0, ExcusesAre DEF RowGood
  <2> QED BY <2>1, <2>2, <2>3
<1>4. /\ pc'[p] = "tellResolved"
      /\ \A q \in Processes \ {p} : pc'[q] = pc[q]
  BY <1>0, <1>1
<1>5. /\ \A j : j \in OpeningSet' <=> j \in OpeningSet
      /\ \A j : j \in EndingSet' <=> j \in EndingSet \/ j = i
  BY <1>1, <1>4 DEF OpeningSet, EndingSet
<1>6. /\ Excuses'.raced = raced' /\ Excuses'.opening = OpeningSet'
      /\ Excuses'.ending = EndingSet'
  BY DEF Excuses
<1>7. RowGood(incidents'[i], i, Excuses')
  <2>1. incidents'[i] \in Incident
    BY <1>0, <1>2
  <2> QED BY <1>0, <1>2, <1>3, <1>5, <1>6, <2>1, ExcusesAre DEF RowGood
<1>8. RowsGood(incidents, Excuses)'
  <2>1. Excuses'.opening \cup Excuses'.ending \subseteq DOMAIN incidents
    BY <1>0, <1>5, <1>6, ExcusesAre DEF RowsGood
  <2>2. \A j \in DOMAIN incidents \ {i} : j \notin Excuses'.raced =>
              /\ j \notin Excuses.raced
              /\ j \in Excuses'.opening <=> j \in Excuses.opening
              /\ j \in Excuses'.ending <=> j \in Excuses.ending
    BY <1>3, <1>5, <1>6, ExcusesAre
  <2>3. ~IsUnresolved(incidents'[i])
    BY <1>2 DEF IsUnresolved
  <2> HIDE DEF i
  <2> QED BY <1>0, <1>2, <1>7, <2>1, <2>2, <2>3, OneRowGood
<1>9. \A t : Unresolved(incidents', t) \subseteq Unresolved(incidents, t)
  BY <1>2 DEF Unresolved
<1>10. HandlersGood'
  <2>1. Silences' \subseteq Silences
    BY <1>9 DEF Silences
  <2>2. \A q \in Processes \ {p} : pc[q] = "tellResolved" /\ inc[q] = i => i \in raced'
    BY <1>3, ExcusesAre DEF Ending
  <2>3. /\ inc' \in [Processes -> Nat] /\ read' \in [Processes -> BOOLEAN]
        /\ raced' \subseteq DOMAIN incidents'
    BY <1>0, <1>1, <1>2, <1>3 DEF HandlersGood
  <2>4. \A q \in Processes : Pointing(q)' => inc'[q] \in DOMAIN incidents'
    BY <1>0, <1>1, <1>2, <1>4 DEF HandlersGood, Pointing, HandlerPlace, TickPlace
  <2>5. \A q \in Processes : pc'[q] \in TickPlace <=> pc[q] \in TickPlace
    BY <1>1, <1>4 DEF TickPlace
  <2>6. \A q, u \in Processes :
           pc'[q] = "tellResolved" /\ pc'[u] = "tellResolved" /\ inc'[q] = inc'[u]
              /\ inc'[q] \notin raced' => q = u
    <3> SUFFICES ASSUME NEW q \in Processes, NEW u \in Processes,
                        pc'[q] = "tellResolved", pc'[u] = "tellResolved", inc[q] = inc[u],
                        inc[q] \notin raced'
                 PROVE  q = u
      BY <1>1
    <3>1. CASE q # p /\ u # p
      BY <1>0, <1>3, <1>4, <3>1 DEF HandlersGood
    <3>2. CASE q = p /\ u # p
      BY <1>4, <2>2, <3>2
    <3>3. CASE q # p /\ u = p
      BY <1>4, <2>2, <3>3
    <3> QED BY <3>1, <3>2, <3>3
  <2>7. ASSUME NEW q \in Processes
        PROVE  /\ pc'[q] = "writeResolve" /\ inc'[q] \notin raced' => ~read'[q]
               /\ pc'[q] = "writeAck" /\ inc'[q] \notin raced' /\ read'[q]
                     => incidents'[inc'[q]].recovered
               /\ pc'[q] = "find" /\ ~read'[q] => Silences' \subseteq raced'
    <3>1. CASE q = p
      BY <1>4, <3>1
    <3>2. CASE q # p
      <4>1. pc'[q] = pc[q] /\ inc'[q] = inc[q] /\ read'[q] = read[q]
        BY <1>1, <1>4, <3>2
      <4>2. pc[q] = "writeAck" => inc[q] \in DOMAIN incidents
        BY <1>0 DEF HandlersGood, Pointing, HandlerPlace
      <4>3. /\ pc[q] = "writeResolve" /\ inc[q] \notin raced => ~read[q]
            /\ pc[q] = "writeAck" /\ inc[q] \notin raced /\ read[q]
                  => incidents[inc[q]].recovered
            /\ pc[q] = "find" /\ ~read[q] => Silences \subseteq raced
        BY <1>0 DEF HandlersGood
      <4> QED BY <1>2, <1>3, <2>1, <4>1, <4>2, <4>3
    <3> QED BY <3>1, <3>2
  <2>8. \A q, u \in Processes : pc'[q] \in TickPlace /\ pc'[u] \in TickPlace => q = u
    BY <1>0, <2>5 DEF HandlersGood
  <2> QED BY <2>3, <2>4, <2>6, <2>7, <2>8 DEF HandlersGood
<1> QED BY <1>3, <1>8, <1>9, <1>10 DEF Handled

\* The UPDATE of an acknowledgement.
LEMMA AckWrites ==
    ASSUME TypeInv, NEW p \in Processes, WriteAck(p)
    PROVE  Handled
<1> DEFINE i == inc[p]
           status == NewStatus(p)
<1>0. /\ RowsGood(incidents, Excuses) /\ HandlersGood /\ pc \in [Processes -> Pc]
      /\ incidents \in Seq(Incident) /\ i \in DOMAIN incidents
      /\ RowGood(incidents[i], i, Excuses) /\ incidents[i].recovered \in BOOLEAN
      /\ incidents[i] \in Incident /\ incidents[i].status \in Status
  <2>1. /\ RowsGood(incidents, Excuses) /\ HandlersGood /\ pc \in [Processes -> Pc]
        /\ incidents \in Seq(Incident) /\ i \in DOMAIN incidents
    BY DEF TypeInv, RowsGood, WriteAck, HandlersGood, Pointing, HandlerPlace
  <2>2. incidents[i] \in Incident
    BY <2>1
  <2> QED BY <2>1, <2>2 DEF RowsGood, Incident
<1>1. /\ pc[p] = "writeAck" /\ incidents' = Acknowledged(incidents, i, status)
      /\ raced' = RacedFor(p)
      /\ status = "acknowledged" => Unresolved(incidents, incidents[i].problem) \ {i} = {}
      /\ pc' = [pc EXCEPT ![p] = "tellAck"] /\ inc' = inc /\ read' = read
  BY DEF WriteAck, Proceed, handlerVars, Others
<1>2. status = IF read[p] THEN "resolved" ELSE "acknowledged"
  BY <1>0 DEF NewStatus, LegacyStatus, Incident
<1>3. status \in Status
  BY <1>2 DEF Status
<1> HIDE DEF status
<1>4. /\ incidents' \in Seq(Incident) /\ DOMAIN incidents' = DOMAIN incidents
      /\ \A j \in DOMAIN incidents \ {i} : incidents'[j] = incidents[j]
      /\ incidents'[i].problem = incidents[i].problem /\ incidents'[i].status = status
      /\ incidents'[i].recovered = incidents[i].recovered
      /\ incidents'[i].told = incidents[i].told
  BY <1>0, <1>1, <1>3, AcknowledgedDoes
<1>5. /\ raced \subseteq raced' /\ raced' \subseteq raced \cup {i}
      /\ i \notin raced' =>
            i \notin raced /\ (status = "resolved" <=> incidents[i].status = "resolved")
  <2>1. /\ raced' = raced \/ raced' = raced \cup {i}
        /\ i \notin raced' => i \notin raced /\ incidents[i].recovered = read[p]
    BY <1>1 DEF RacedFor
  <2>2. i \notin raced => (incidents[i].recovered <=> incidents[i].status = "resolved")
    BY <1>0, ExcusesAre DEF RowGood
  <2> QED BY <1>2, <2>1, <2>2
<1>6. /\ pc'[p] = "tellAck"
      /\ \A q \in Processes \ {p} : pc'[q] = pc[q]
  BY <1>0, <1>1
<1>7. /\ \A j : j \in OpeningSet' <=> j \in OpeningSet
      /\ \A j : j \in EndingSet' <=> j \in EndingSet
  BY <1>1, <1>6 DEF OpeningSet, EndingSet
<1>8. /\ Excuses'.raced = raced' /\ Excuses'.opening = OpeningSet'
      /\ Excuses'.ending = EndingSet'
  BY DEF Excuses
<1>9. RowGood(incidents'[i], i, Excuses')
  <2>1. incidents'[i] \in Incident
    BY <1>0, <1>4
  <2> QED BY <1>0, <1>4, <1>5, <1>7, <1>8, <2>1, ExcusesAre DEF RowGood
<1>10. RowsGood(incidents, Excuses)'
  <2>1. Excuses'.opening \cup Excuses'.ending \subseteq DOMAIN incidents
    BY <1>0, <1>7, <1>8, ExcusesAre DEF RowsGood
  <2>2. \A j \in DOMAIN incidents \ {i} : j \notin Excuses'.raced =>
              /\ j \notin Excuses.raced
              /\ j \in Excuses'.opening <=> j \in Excuses.opening
              /\ j \in Excuses'.ending <=> j \in Excuses.ending
    BY <1>5, <1>7, <1>8, ExcusesAre
  <2>3. IsUnresolved(incidents'[i]) => Unresolved(incidents, incidents[i].problem) \ {i} = {}
    BY <1>1, <1>2, <1>4 DEF IsUnresolved
  <2> HIDE DEF i
  <2> QED BY <1>0, <1>4, <1>9, <2>1, <2>2, <2>3, OneRowGood
<1>11. \A t : Unresolved(incidents', t) \ raced' \subseteq Unresolved(incidents, t) \ raced
  <2>1. i \notin raced' => (IsUnresolved(incidents'[i]) <=> IsUnresolved(incidents[i]))
    BY <1>0, <1>2, <1>4, <1>5 DEF IsUnresolved, Status
  <2> QED BY <1>4, <1>5, <2>1 DEF Unresolved, IsUnresolved
<1>12. HandlersGood'
  <2>1. Silences' \ raced' \subseteq Silences \ raced
    BY <1>11 DEF Silences
  <2> QED BY <1>0, <1>1, <1>4, <1>5, <1>6, <2>1
      DEF HandlersGood, Pointing, HandlerPlace, TickPlace
<1> QED BY <1>10, <1>11, <1>12 DEF Handled

\* The last statement of a handler, or of the tick that tells of an opening.
LEMMA TellsAtLast ==
    ASSUME TypeInv, NEW p \in Processes, NEW event \in EventType,
           incidents' = Told(incidents, inc[p], event), EndHandler(p), raced' = raced,
           \/ pc[p] = "tellResolved" /\ event = "resolved"
           \/ pc[p] = "tellAck" /\ event = "acknowledged"
           \/ pc[p] = "announce" /\ ~read[p] /\ event = "opened"
    PROVE  Handled
<1> DEFINE i == inc[p]
<1>0. /\ RowsGood(incidents, Excuses) /\ HandlersGood /\ pc \in [Processes -> Pc]
      /\ incidents \in Seq(Incident) /\ i \in DOMAIN incidents
      /\ RowGood(incidents[i], i, Excuses)
  <2>1. /\ RowsGood(incidents, Excuses) /\ HandlersGood /\ pc \in [Processes -> Pc]
        /\ incidents \in Seq(Incident) /\ i \in DOMAIN incidents
    BY DEF TypeInv, RowsGood, HandlersGood, Pointing, HandlerPlace
  <2> QED BY <2>1 DEF RowsGood
<1>1. /\ inc' \in [Processes -> Nat] /\ read' \in [Processes -> BOOLEAN]
      /\ pc'[p] = "idle"
      /\ \A q \in Processes \ {p} : pc'[q] = pc[q] /\ inc'[q] = inc[q] /\ read'[q] = read[q]
      /\ \A j : j \in OpeningSet' <=> \E q \in Processes \ {p} : Opening(q, j)
      /\ \A j : j \in EndingSet' <=> \E q \in Processes \ {p} : Ending(q, j)
  <2>1. /\ pc' = [pc EXCEPT ![p] = "idle"] /\ "idle" \in Pc /\ 0 \in Nat /\ FALSE \in BOOLEAN
        /\ inc' = [inc EXCEPT ![p] = 0] /\ read' = [read EXCEPT ![p] = FALSE]
    BY DEF EndHandler, Proceed, Pc
  <2>2. inc \in [Processes -> Nat] /\ read \in [Processes -> BOOLEAN]
    BY <1>0 DEF HandlersGood
  <2>3. /\ inc' \in [Processes -> Nat] /\ read' \in [Processes -> BOOLEAN]
        /\ pc'[p] = "idle"
        /\ \A q \in Processes \ {p} : pc'[q] = pc[q] /\ inc'[q] = inc[q] /\ read'[q] = read[q]
        /\ \A j : j \in OpeningSet' <=>
              \/ \E q \in Processes \ {p} : Opening(q, j)
              \/ "idle" = "announce" /\ FALSE = FALSE /\ 0 = j
        /\ \A j : j \in EndingSet' <=>
              \/ \E q \in Processes \ {p} : Ending(q, j)
              \/ "idle" = "tellResolved" /\ 0 = j
    BY <1>0, <2>1, <2>2, MovesOn
  <2> QED BY <2>3
<1>2. /\ incidents' \in Seq(Incident) /\ DOMAIN incidents' = DOMAIN incidents
      /\ \A j \in DOMAIN incidents \ {i} : incidents'[j] = incidents[j]
      /\ incidents'[i].problem = incidents[i].problem
      /\ incidents'[i].status = incidents[i].status
      /\ incidents'[i].recovered = incidents[i].recovered
      /\ \A a \in Announcement :
            incidents'[i].told[a] = IF a = event THEN OneMore(incidents[i].told[a])
                                    ELSE incidents[i].told[a]
  BY <1>0, ToldDoes
<1>3. /\ \A j : j # i => (j \in OpeningSet' <=> j \in OpeningSet)
      /\ \A j : j # i => (j \in EndingSet' <=> j \in EndingSet)
      /\ OpeningSet' \subseteq OpeningSet /\ EndingSet' \subseteq EndingSet
  BY <1>1, ExcusesAre DEF Opening, Ending
<1>4. /\ Excuses'.raced = raced /\ Excuses'.opening = OpeningSet'
      /\ Excuses'.ending = EndingSet'
  BY DEF Excuses
<1>5. /\ incidents'[i].told["opened"] = IF event = "opened"
                                        THEN OneMore(incidents[i].told["opened"])
                                        ELSE incidents[i].told["opened"]
      /\ incidents'[i].told["resolved"] = IF event = "resolved"
                                          THEN OneMore(incidents[i].told["resolved"])
                                          ELSE incidents[i].told["resolved"]
  BY <1>2, Announcements
<1>6. i \notin raced =>
         /\ i \in OpeningSet' <=> i \in OpeningSet /\ pc[p] # "announce"
         /\ i \in EndingSet' <=> i \in EndingSet /\ pc[p] # "tellResolved"
  <2>1. pc[p] = "announce" => i \notin OpeningSet'
    BY <1>0, <1>1 DEF HandlersGood, TickPlace, Opening
  <2>2. pc[p] = "tellResolved" /\ i \notin raced => i \notin EndingSet'
    BY <1>0, <1>1 DEF HandlersGood, Ending
  <2>3. pc[p] # "announce" => (i \in OpeningSet' <=> i \in OpeningSet)
    BY <1>1, ExcusesAre DEF Opening
  <2>4. pc[p] # "tellResolved" => (i \in EndingSet' <=> i \in EndingSet)
    BY <1>1, ExcusesAre DEF Ending
  <2> QED BY <1>3, <2>1, <2>2, <2>3, <2>4
<1>7. /\ pc[p] = "announce" => i \in OpeningSet
      /\ pc[p] = "tellResolved" => i \in EndingSet
  BY ExcusesAre DEF Opening, Ending
<1>8. RowGood(incidents'[i], i, Excuses')
  <2>1. incidents'[i] \in Incident
    BY <1>0, <1>2
  <2>2. CASE i \in raced
    BY <1>4, <2>1, <2>2 DEF RowGood
  <2>3. CASE i \notin raced
    BY <1>0, <1>2, <1>4, <1>5, <1>6, <1>7, <2>1, <2>3, ExcusesAre, Announcements DEF RowGood
  <2> QED BY <2>2, <2>3
<1>9. RowsGood(incidents, Excuses)'
  <2>1. Excuses'.opening \cup Excuses'.ending \subseteq DOMAIN incidents
    BY <1>0, <1>3, <1>4, ExcusesAre DEF RowsGood
  <2>2. \A j \in DOMAIN incidents \ {i} : j \notin Excuses'.raced =>
              /\ j \notin Excuses.raced
              /\ j \in Excuses'.opening <=> j \in Excuses.opening
              /\ j \in Excuses'.ending <=> j \in Excuses.ending
    BY <1>3, <1>4, ExcusesAre
  <2>3. IsUnresolved(incidents'[i]) => IsUnresolved(incidents[i])
    BY <1>2 DEF IsUnresolved
  <2> HIDE DEF i
  <2> QED BY <1>0, <1>2, <1>8, <2>1, <2>2, <2>3, OneRowGood
<1>10. \A t : Unresolved(incidents', t) \subseteq Unresolved(incidents, t)
  BY <1>2 DEF Unresolved
<1>11. HandlersGood'
  <2>1. Silences' \subseteq Silences
    BY <1>10 DEF Silences
  <2>2. \A j \in DOMAIN incidents : incidents'[j].recovered = incidents[j].recovered
    BY <1>2
  <2>3. \A q \in Processes : pc'[q] # "idle" => q # p
    BY <1>1
  <2>4. /\ raced' \subseteq DOMAIN incidents'
        /\ \A q \in Processes : Pointing(q)' => inc'[q] \in DOMAIN incidents'
    BY <1>0, <1>1, <1>2, <2>3 DEF HandlersGood, Pointing, HandlerPlace
  <2>5. \A q, u \in Processes :
           /\ pc'[q] \in TickPlace /\ pc'[u] \in TickPlace => q = u
           /\ pc'[q] = "tellResolved" /\ pc'[u] = "tellResolved" /\ inc'[q] = inc'[u]
                 /\ inc'[q] \notin raced' => q = u
    BY <1>0, <1>1, <2>3 DEF HandlersGood, TickPlace
  <2>6. ASSUME NEW q \in Processes
        PROVE  /\ pc'[q] = "writeResolve" /\ inc'[q] \notin raced' => ~read'[q]
               /\ pc'[q] = "writeAck" /\ inc'[q] \notin raced' /\ read'[q]
                     => incidents'[inc'[q]].recovered
               /\ pc'[q] = "find" /\ ~read'[q] => Silences' \subseteq raced'
    <3>1. CASE q = p
      BY <1>1, <3>1
    <3>2. CASE q # p
      <4>2. pc[q] = "writeAck" => inc[q] \in DOMAIN incidents
        BY <1>0 DEF HandlersGood, Pointing, HandlerPlace
      <4>3. /\ pc[q] = "writeResolve" /\ inc[q] \notin raced => ~read[q]
            /\ pc[q] = "writeAck" /\ inc[q] \notin raced /\ read[q]
                  => incidents[inc[q]].recovered
            /\ pc[q] = "find" /\ ~read[q] => Silences \subseteq raced
        BY <1>0 DEF HandlersGood
      <4> QED BY <1>1, <2>1, <2>2, <3>2, <4>2, <4>3
    <3> QED BY <3>1, <3>2
  <2> QED BY <1>1, <2>4, <2>5, <2>6 DEF HandlersGood
<1> QED BY <1>9, <1>10, <1>11 DEF Handled

\* The tick looks for an incident, twice.
LEMMA TickLooks ==
    ASSUME TypeInv, NEW p \in Processes, FindOverdue(p) \/ LookBefore(p) \/ FindExisting(p)
    PROVE  Handled
<1>0. /\ RowsGood(incidents, Excuses) /\ HandlersGood /\ pc \in [Processes -> Pc]
      /\ incidents \in Seq(Incident)
  BY DEF TypeInv, RowsGood
<1>1. UNCHANGED <<incidents, raced>>
  BY DEF FindOverdue, LookBefore, FindExisting
<1>2. Silences' = Silences /\ Silences \subseteq DOMAIN incidents
  BY <1>1 DEF Silences, Unresolved
<1>3. Excuses'.raced = raced /\ Excuses'.opening = OpeningSet' /\ Excuses'.ending = EndingSet'
  BY <1>1 DEF Excuses
<1>4. CASE FindOverdue(p)
  <2>1. /\ pc[p] = "idle" /\ pc' = [pc EXCEPT ![p] = "before"] /\ inc' = inc /\ read' = read
        /\ \A q \in Processes : pc[q] \notin TickPlace
    BY <1>4 DEF FindOverdue, Proceed, handlerVars
  <2>2. pc'[p] = "before" /\ \A q \in Processes \ {p} : pc'[q] = pc[q]
    BY <1>0, <2>1
  <2>3. OpeningSet' = OpeningSet /\ EndingSet' = EndingSet
    <3>1. \A q \in Processes : /\ pc'[q] = "announce" <=> pc[q] = "announce"
                               /\ pc'[q] = "tellResolved" <=> pc[q] = "tellResolved"
      BY <2>1, <2>2
    <3> QED BY <2>1, <3>1 DEF OpeningSet, EndingSet
  <2>4. Excuses' = Excuses
    BY <1>1, <2>3 DEF Excuses
  <2>5. HandlersGood'
    BY <1>0, <1>1, <1>2, <2>1, <2>2 DEF HandlersGood, Pointing, HandlerPlace, TickPlace
  <2> QED BY <1>0, <1>1, <2>4, <2>5 DEF Handled
<1>5. CASE LookBefore(p)
  <2>1. /\ pc[p] = "before" /\ pc' = [pc EXCEPT ![p] = "find"] /\ inc' = inc
        /\ read' = [read EXCEPT ![p] = Silences # {}]
    BY <1>5 DEF LookBefore, Proceed
  <2>2. /\ pc'[p] = "find" /\ read'[p] = (Silences # {})
        /\ \A q \in Processes \ {p} : pc'[q] = pc[q] /\ read'[q] = read[q]
        /\ read' \in [Processes -> BOOLEAN]
    BY <1>0, <2>1 DEF HandlersGood
  <2>3. OpeningSet' = OpeningSet /\ EndingSet' = EndingSet
    <3>1. \A q \in Processes :
             /\ pc'[q] = "announce" /\ ~read'[q] <=> pc[q] = "announce" /\ ~read[q]
             /\ pc'[q] = "tellResolved" <=> pc[q] = "tellResolved"
      BY <2>1, <2>2
    <3> QED BY <2>1, <3>1 DEF OpeningSet, EndingSet
  <2>4. Excuses' = Excuses
    BY <1>1, <2>3 DEF Excuses
  <2>5. HandlersGood'
    BY <1>0, <1>1, <1>2, <2>1, <2>2 DEF HandlersGood, Pointing, HandlerPlace, TickPlace
  <2> QED BY <1>0, <1>1, <2>4, <2>5 DEF Handled
<1>6. CASE FindExisting(p) /\ pc'[p] = "insert"
  <2>1. pc[p] = "find" /\ pc' = [pc EXCEPT ![p] = "insert"] /\ inc' = inc /\ read' = read
    BY <1>0, <1>6 DEF FindExisting, Proceed
  <2>2. pc'[p] = "insert" /\ \A q \in Processes \ {p} : pc'[q] = pc[q]
    BY <1>0, <2>1
  <2>3. OpeningSet' = OpeningSet /\ EndingSet' = EndingSet
    <3>1. \A q \in Processes : /\ pc'[q] = "announce" <=> pc[q] = "announce"
                               /\ pc'[q] = "tellResolved" <=> pc[q] = "tellResolved"
      BY <2>1, <2>2
    <3> QED BY <2>1, <3>1 DEF OpeningSet, EndingSet
  <2>4. Excuses' = Excuses
    BY <1>1, <2>3 DEF Excuses
  <2>5. HandlersGood'
    BY <1>0, <1>1, <1>2, <2>1, <2>2 DEF HandlersGood, Pointing, HandlerPlace, TickPlace
  <2> QED BY <1>0, <1>1, <2>4, <2>5 DEF Handled
<1>7. CASE FindExisting(p) /\ pc'[p] # "insert"
  <2>1. PICK i \in Silences : /\ pc[p] = "find" /\ pc' = [pc EXCEPT ![p] = "announce"]
                              /\ inc' = [inc EXCEPT ![p] = i] /\ read' = read
    BY <1>0, <1>7 DEF FindExisting, Proceed
  <2>2. i \in DOMAIN incidents /\ i \in Nat /\ (read[p] = FALSE => i \in raced)
    BY <1>0, <1>2, <2>1 DEF HandlersGood
  <2>3. "announce" \in Pc /\ read[p] \in BOOLEAN /\ read' = [read EXCEPT ![p] = read[p]]
    BY <1>0, <2>1 DEF Pc, TickPlace, HandlersGood
  <2>4. /\ inc' \in [Processes -> Nat] /\ read' \in [Processes -> BOOLEAN]
        /\ pc'[p] = "announce" /\ inc'[p] = i /\ read'[p] = read[p]
        /\ \A q \in Processes \ {p} : pc'[q] = pc[q] /\ inc'[q] = inc[q] /\ read'[q] = read[q]
        /\ \A j : j \in OpeningSet' <=>
              \/ \E q \in Processes \ {p} : Opening(q, j)
              \/ read[p] = FALSE /\ i = j
        /\ \A j : j \in EndingSet' <=> \E q \in Processes \ {p} : Ending(q, j)
    <3>1. inc \in [Processes -> Nat] /\ read \in [Processes -> BOOLEAN]
      BY <1>0 DEF HandlersGood
    <3>2. /\ inc' \in [Processes -> Nat] /\ read' \in [Processes -> BOOLEAN]
          /\ pc'[p] = "announce" /\ inc'[p] = i /\ read'[p] = read[p]
          /\ \A q \in Processes \ {p} :
                pc'[q] = pc[q] /\ inc'[q] = inc[q] /\ read'[q] = read[q]
          /\ \A j : j \in OpeningSet' <=>
                \/ \E q \in Processes \ {p} : Opening(q, j)
                \/ "announce" = "announce" /\ read[p] = FALSE /\ i = j
          /\ \A j : j \in EndingSet' <=>
                \/ \E q \in Processes \ {p} : Ending(q, j)
                \/ "announce" = "tellResolved" /\ i = j
      BY <1>0, <2>1, <2>2, <2>3, <3>1, MovesOn
    <3> QED BY <3>2
  <2>5. /\ \A j : j \in EndingSet' <=> j \in EndingSet
        /\ \A j : j \in OpeningSet' <=> j \in OpeningSet \/ (read[p] = FALSE /\ i = j)
    <3>1. ~\E j : Opening(p, j) \/ Ending(p, j)
      BY <2>1 DEF Opening, Ending
    <3>2. \A j : /\ j \in EndingSet <=> \E q \in Processes \ {p} : Ending(q, j)
                 /\ j \in OpeningSet <=> \E q \in Processes \ {p} : Opening(q, j)
      BY <3>1, ExcusesAre
    <3> QED BY <2>4, <3>2
  <2>6. RowsGood(incidents, Excuses')
    <3>1. \A j \in DOMAIN incidents : RowGood(incidents[j], j, Excuses')
      <4> SUFFICES ASSUME NEW j \in DOMAIN incidents PROVE RowGood(incidents[j], j, Excuses')
        OBVIOUS
      <4>1. RowGood(incidents[j], j, Excuses)
        BY <1>0 DEF RowsGood
      <4>2. /\ j \notin raced => (j \in OpeningSet' <=> j \in OpeningSet)
            /\ j \in EndingSet' <=> j \in EndingSet
        BY <2>2, <2>5
      <4> QED BY <1>3, <4>1, <4>2, ExcusesAre DEF RowGood
    <3>2. Excuses'.opening \cup Excuses'.ending \subseteq DOMAIN incidents
      BY <1>0, <1>3, <2>2, <2>5, ExcusesAre DEF RowsGood
    <3> QED BY <1>0, <3>1, <3>2 DEF RowsGood
  <2>7. HandlersGood'
    BY <1>0, <1>1, <1>2, <2>1, <2>2, <2>4 DEF HandlersGood, Pointing, HandlerPlace, TickPlace
  <2> QED BY <1>1, <2>6, <2>7 DEF Handled
<1> QED BY <1>4, <1>5, <1>6, <1>7

\* The tick inserts an incident.
LEMMA TickInserts ==
    ASSUME TypeInv, NEW p \in Processes, InsertIncident(p)
    PROVE  Handled
<1> DEFINE n == Len(incidents) + 1
<1>0. /\ RowsGood(incidents, Excuses) /\ HandlersGood /\ pc \in [Processes -> Pc]
      /\ incidents \in Seq(Incident) /\ n \in Nat /\ n \notin DOMAIN incidents
  BY DEF TypeInv, RowsGood
<1>1. /\ pc[p] = "insert" /\ pc' = [pc EXCEPT ![p] = "announce"]
      /\ Silences = {} /\ incidents' = Opened(incidents, "silent_absence")
      /\ inc' = [inc EXCEPT ![p] = n] /\ read' = read
      /\ raced' = IF read[p] THEN raced \cup {n} ELSE raced
  BY DEF InsertIncident, Proceed
<1>2. /\ incidents' \in Seq(Incident) /\ DOMAIN incidents' = DOMAIN incidents \cup {n}
      /\ \A j \in DOMAIN incidents : incidents'[j] = incidents[j]
      /\ incidents'[n].problem = "silent_absence" /\ incidents'[n].status = "open"
      /\ incidents'[n].told["opened"] = 0 /\ incidents'[n].told["resolved"] = 0
      /\ ~incidents'[n].recovered
  <2>1. "silent_absence" \in Problems
    BY Types
  <2>2. /\ incidents' \in Seq(Incident) /\ DOMAIN incidents' = DOMAIN incidents \cup {n}
        /\ \A j \in DOMAIN incidents : incidents'[j] = incidents[j]
        /\ incidents'[n].problem = "silent_absence" /\ incidents'[n].status = "open"
        /\ incidents'[n].told["opened"] = 0 /\ incidents'[n].told["resolved"] = 0
    <3>1. /\ incidents \in Seq(Incident) /\ incidents' = Opened(incidents, "silent_absence")
      BY <1>0, <1>1
    <3>0. PICK rows, t : rows = incidents /\ t = "silent_absence"
      OBVIOUS
    <3> DEFINE opened == Opened(rows, t)
    <3>2. /\ opened \in Seq(Incident) /\ DOMAIN opened = DOMAIN rows \cup {Len(rows) + 1}
          /\ Len(rows) + 1 \notin DOMAIN rows
          /\ \A j \in DOMAIN rows : opened[j] = rows[j]
          /\ opened[Len(rows) + 1].problem = t /\ opened[Len(rows) + 1].status = "open"
          /\ opened[Len(rows) + 1].told["opened"] = 0
          /\ opened[Len(rows) + 1].told["resolved"] = 0
      <4>1. rows \in Seq(Incident) /\ t \in Problems
        BY <2>1, <3>0, <3>1
      <4> QED BY <4>1, OpenedDoes
    <3> QED BY <3>0, <3>1, <3>2
  <2>3. ~incidents'[n].recovered
    BY <1>0, <1>1, <2>1, OpenedUnrecovered
  <2> QED BY <2>2, <2>3
<1>3. "announce" \in Pc /\ read[p] \in BOOLEAN /\ read' = [read EXCEPT ![p] = read[p]]
  BY <1>0, <1>1 DEF Pc, TickPlace, HandlersGood
<1>4. /\ inc' \in [Processes -> Nat] /\ read' \in [Processes -> BOOLEAN]
      /\ pc'[p] = "announce" /\ inc'[p] = n /\ read'[p] = read[p]
      /\ \A q \in Processes \ {p} : pc'[q] = pc[q] /\ inc'[q] = inc[q] /\ read'[q] = read[q]
      /\ \A j : j \in OpeningSet' <=>
            \/ \E q \in Processes \ {p} : Opening(q, j)
            \/ read[p] = FALSE /\ n = j
      /\ \A j : j \in EndingSet' <=> \E q \in Processes \ {p} : Ending(q, j)
  <2> HIDE DEF n
  <2> QED BY <1>0, <1>1, <1>3, MovesOn DEF HandlersGood
<1> HIDE DEF n
<1>5. /\ \A j : j \in EndingSet' <=> j \in EndingSet
      /\ \A j : j \in OpeningSet' <=> j \in OpeningSet \/ (read[p] = FALSE /\ n = j)
  <2>1. ~\E j : Opening(p, j) \/ Ending(p, j)
    BY <1>1 DEF Opening, Ending
  <2>2. \A j : /\ j \in EndingSet <=> \E q \in Processes \ {p} : Ending(q, j)
               /\ j \in OpeningSet <=> \E q \in Processes \ {p} : Opening(q, j)
    BY <2>1, ExcusesAre
  <2> QED BY <1>4, <2>2
<1>6. Excuses'.raced = raced' /\ Excuses'.opening = OpeningSet' /\ Excuses'.ending = EndingSet'
  BY DEF Excuses
<1>7. OpeningSet \cup EndingSet \subseteq DOMAIN incidents
  BY <1>0, ExcusesAre DEF RowsGood
<1>8. RowsGood(incidents', Excuses')
  <2>1. ASSUME NEW j \in DOMAIN incidents' PROVE RowGood(incidents'[j], j, Excuses')
    <3>1. CASE j = n
      <4>1. incidents'[n] \in Incident
        BY <1>2
      <4>2. /\ n \notin EndingSet'
            /\ n \notin raced' => n \in OpeningSet'
        BY <1>0, <1>1, <1>5, <1>7
      <4> QED BY <1>2, <1>6, <3>1, <4>1, <4>2 DEF RowGood
    <3>2. CASE j \in DOMAIN incidents
      <4>1. RowGood(incidents[j], j, Excuses)
        BY <1>0, <3>2 DEF RowsGood
      <4>2. /\ j # n /\ (j \in OpeningSet' <=> j \in OpeningSet)
            /\ j \in EndingSet' <=> j \in EndingSet
            /\ j \in raced' <=> j \in raced
        <5>1. j # n
          BY <1>0, <3>2
        <5> QED BY <1>1, <1>5, <5>1
      <4> QED BY <1>2, <1>6, <3>2, <4>1, <4>2, ExcusesAre DEF RowGood
    <3> QED BY <1>2, <3>1, <3>2
  <2>2. ASSUME NEW i \in DOMAIN incidents', NEW j \in DOMAIN incidents',
               IsUnresolved(incidents'[i]), IsUnresolved(incidents'[j]),
               incidents'[i].problem = incidents'[j].problem
        PROVE  i = j
    <3>1. \A k \in DOMAIN incidents :
             IsUnresolved(incidents[k]) => incidents[k].problem # "silent_absence"
      BY <1>1 DEF Silences, Unresolved, IsUnresolved
    <3>2. CASE i \in DOMAIN incidents /\ j \in DOMAIN incidents
      BY <1>0, <1>2, <2>2, <3>2 DEF RowsGood
    <3>3. CASE i = n /\ j \in DOMAIN incidents
      BY <1>2, <2>2, <3>1, <3>3
    <3>4. CASE j = n /\ i \in DOMAIN incidents
      BY <1>2, <2>2, <3>1, <3>4
    <3> QED BY <1>2, <3>2, <3>3, <3>4
  <2>3. Excuses'.opening \cup Excuses'.ending \subseteq DOMAIN incidents'
    BY <1>2, <1>5, <1>6, <1>7
  <2> QED BY <1>2, <2>1, <2>2, <2>3 DEF RowsGood
<1>9. HandlersGood'
  <2>1. \A q \in Processes \ {p} : pc[q] \notin TickPlace
    BY <1>0, <1>1 DEF HandlersGood, TickPlace
  <2>2. raced \subseteq raced' /\ raced' \subseteq DOMAIN incidents'
        /\ \A j \in DOMAIN incidents : j \in raced' <=> j \in raced
    BY <1>0, <1>1, <1>2 DEF HandlersGood
  <2> QED BY <1>0, <1>1, <1>2, <1>4, <2>1, <2>2
      DEF HandlersGood, Pointing, HandlerPlace, TickPlace
<1>10. \A t \in Problems \ {"silent_absence"} :
          Unresolved(incidents', t) \ raced' \subseteq Unresolved(incidents, t) \ raced
  BY <1>0, <1>1, <1>2 DEF Unresolved
<1> QED BY <1>8, <1>9, <1>10 DEF Handled

\* Every step of a handler or of the tick.
LEMMA OthersDo ==
    ASSUME TypeInv, NEW p \in Processes, HandlerStep(p) \/ TickStep(p)
    PROVE  Handled
<1>1. CASE \E i \in DOMAIN incidents : AdminResolve(p, i) \/ AdminAcknowledge(p, i)
  BY <1>1, HandlerReads
<1>2. CASE WriteResolve(p) \/ WriteAck(p)
  BY <1>2, ResolveWrites, AckWrites
<1>3. CASE AckRefused(p) \/ InsertRefused(p)
  <2>1. /\ EndHandler(p) /\ UNCHANGED <<incidents, raced>>
        /\ pc[p] \in {"writeAck", "insert"}
    BY <1>3 DEF AckRefused, InsertRefused
  <2> QED BY <2>1, EndsQuietly DEF HandlerPlace, TickPlace
<1>4. CASE TellHandler(p)
  <2>1. PICK event \in {"resolved", "acknowledged"} :
           /\ incidents' = Told(incidents, inc[p], event) /\ EndHandler(p) /\ raced' = raced
           /\ pc[p] = IF event = "resolved" THEN "tellResolved" ELSE "tellAck"
    BY <1>4 DEF TellHandler
  <2>2. event \in EventType
    BY <2>1 DEF EventType
  <2> QED BY <2>1, <2>2, TellsAtLast
<1>5. CASE Announce(p)
  <2>1. CASE read[p]
    <3>1. /\ EndHandler(p) /\ UNCHANGED <<incidents, raced>> /\ pc[p] = "announce"
      BY <1>5, <2>1 DEF Announce
    <3> QED BY <2>1, <3>1, EndsQuietly DEF TickPlace
  <2>2. CASE ~read[p]
    <3>1. /\ incidents' = Told(incidents, inc[p], "opened") /\ EndHandler(p) /\ raced' = raced
          /\ pc[p] = "announce" /\ "opened" \in EventType
      BY <1>5, <2>2 DEF Announce, EventType
    <3> QED BY <2>2, <3>1, TellsAtLast
  <2> QED BY <2>1, <2>2
<1>6. CASE FindOverdue(p) \/ LookBefore(p) \/ FindExisting(p)
  BY <1>6, TickLooks
<1>7. CASE InsertIncident(p)
  BY <1>7, TickInserts
<1>8. CASE HandlerStep(p)
  BY <1>1, <1>2, <1>3, <1>4, <1>8 DEF HandlerStep
<1>9. CASE TickStep(p)
  BY <1>3, <1>5, <1>6, <1>7, <1>9 DEF TickStep
<1> QED BY <1>8, <1>9

\* They write no report, and of the state the health at most.
LEMMA OthersLeave ==
    ASSUME TypeInv, NEW p \in Processes, HandlerStep(p) \/ TickStep(p)
    PROVE  /\ UNCHANGED <<events, agreement, active, trusted, limit, request, decision, answer>>
           /\ pc[p] \in {"idle"} \cup HandlerPlace \cup TickPlace
           /\ \E place \in {"idle"} \cup HandlerPlace \cup TickPlace :
                 pc' = [pc EXCEPT ![p] = place]
           /\ state' = state \/ state' = [state EXCEPT !.health = "overdue"]
           /\ admin' = admin \/ (admin < MaxAdmin /\ admin' = admin + 1)
<1>1. CASE HandlerStep(p)
  BY <1>1 DEF HandlerStep, AdminResolve, WriteResolve, AdminAcknowledge, WriteAck, AckRefused,
              TellHandler, EndHandler, Proceed, HandlerPlace
<1>2. CASE TickStep(p)
  BY <1>2 DEF TickStep, FindOverdue, LookBefore, FindExisting, InsertIncident, InsertRefused,
              Announce, EndHandler, Proceed, TickPlace
<1> QED BY <1>1, <1>2

\* The steps of the rest of the program.
LEMMA OtherTypes ==
    ASSUME TypeInv, (\E p \in Processes : HandlerStep(p) \/ TickStep(p)) \/ Remove \/ Revoke \/ Tick
    PROVE  TypeInv'
<1>0. MaxAdmin \in Nat /\ admin \in 0 .. MaxAdmin
  BY IngestionAssumption DEF TypeInv
<1>1. CASE \E p \in Processes : HandlerStep(p) \/ TickStep(p)
  <2>0. PICK p \in Processes : HandlerStep(p) \/ TickStep(p)
    BY <1>1
  <2>1. RowsGood(incidents, Excuses)' /\ HandlersGood'
    BY <2>0, OthersDo DEF Handled
  <2>2. PICK place \in {"idle"} \cup HandlerPlace \cup TickPlace :
           /\ UNCHANGED <<events, agreement, active, trusted, limit, request, decision, answer>>
           /\ pc' = [pc EXCEPT ![p] = place]
           /\ state' = state \/ state' = [state EXCEPT !.health = "overdue"]
           /\ admin' = admin \/ (admin < MaxAdmin /\ admin' = admin + 1)
           /\ pc[p] \in {"idle"} \cup HandlerPlace \cup TickPlace
    BY <2>0, OthersLeave
  <2>3. state' \in States
    <3>1. state \in States /\ [state EXCEPT !.health = "overdue"] \in States
      BY DEF TypeInv, States
    <3> QED BY <2>2, <3>1
  <2>4. admin' \in 0 .. MaxAdmin
    BY <1>0, <2>2
  <2>5. /\ pc' \in [Processes -> Pc]
        /\ \A q \in Processes : IF pc'[q] \in RequestPlace THEN request'[q] \in Reports
                                ELSE request'[q] = NoReport
    <3>1. place \in Pc /\ place \notin RequestPlace /\ pc[p] \notin RequestPlace
      BY <2>2 DEF Pc, RequestPlace, HandlerPlace, TickPlace
    <3>2. /\ pc \in [Processes -> Pc]
          /\ \A q \in Processes : IF pc[q] \in RequestPlace THEN request[q] \in Reports
                                  ELSE request[q] = NoReport
      BY DEF TypeInv
    <3> QED BY <2>2, <3>1, <3>2
  <2> QED BY <2>1, <2>2, <2>3, <2>4, <2>5 DEF TypeInv
<1>2. CASE Remove \/ Revoke \/ Tick
  <2>1. /\ UNCHANGED <<incidents, events, state, agreement, pc, request, decision, answer,
                       inc, read, admin, raced>>
        /\ active' \in BOOLEAN /\ trusted' \in BOOLEAN
    BY <1>2 DEF TypeInv, Remove, Revoke, Tick, requestVars, handlerVars
  <2>2. limit' \in Limits
    <3>1. CASE Tick
      <4>0. limit \in Limits /\ limit.age < Window /\ Window \in Nat
        BY <3>1, IngestionAssumption DEF TypeInv, Tick
      <4>1. [limit EXCEPT !.age = @ + 1] \in Limits
        BY <4>0 DEF Limits
      <4> QED BY <3>1, <4>1 DEF Tick
    <3>2. CASE Remove \/ Revoke
      BY <3>2 DEF TypeInv, Remove, Revoke
    <3> QED BY <1>2, <3>1, <3>2
  <2>3. HandlersGood' /\ Excuses' = Excuses
    BY <2>1 DEF TypeInv, HandlersGood, Pointing, Silences, Excuses, OpeningSet, EndingSet
  <2> QED BY <2>1, <2>2, <2>3 DEF TypeInv
<1> QED BY <1>1, <1>2

\* Every step keeps the types.
LEMMA NextTypes == TypeInv /\ [Next]_vars => TypeInv'
<1> SUFFICES ASSUME TypeInv, [Next]_vars PROVE TypeInv'
  OBVIOUS
<1>1. CASE UNCHANGED vars
  <2>1. HandlersGood' /\ Excuses' = Excuses
    BY <1>1 DEF TypeInv, vars, requestVars, handlerVars, HandlersGood, Pointing, Silences,
                Excuses, OpeningSet, EndingSet
  <2> QED BY <1>1, <2>1 DEF TypeInv, vars, requestVars
<1>2. CASE \E p \in Processes : RequestStep(p)
  BY <1>2, ArriveTypes, LimiterTypes, CheckContractTypes,
      WriteTypes
  DEF RequestStep
<1>3. CASE (\E p \in Processes : HandlerStep(p) \/ TickStep(p)) \/ Remove \/ Revoke \/ Tick
  BY <1>3, OtherTypes
<1> QED BY <1>1, <1>2, <1>3 DEF Next

\* Requests, windows, the state and the rows of the incidents keep their types.
THEOREM TypeCorrect == Spec => []TypeOK
<1>1. Spec => []TypeInv
  BY InitTypes, NextTypes, PTL DEF Spec
<1> QED BY <1>1, TypeOkAtOnce, PTL

-----------------------------------------------------------------------------
(* One incident, announced once                                            *)

\* Good rows are what the property is about.
LEMMA RowsAnnounced ==
    ASSUME RowsGood(incidents, Excuses)
    PROVE  AnnouncedOnceEach
<1>1. ASSUME NEW t \in IncidentType PROVE Cardinality(Unresolved(incidents, t)) <= 1
  <2>1. \A i, j \in Unresolved(incidents, t) : i = j
    BY DEF RowsGood, Unresolved, IsUnresolved
  <2>2. CASE Unresolved(incidents, t) = {}
    BY <2>2, FS_EmptySet
  <2>3. CASE Unresolved(incidents, t) # {}
    <3>1. PICK i : i \in Unresolved(incidents, t)
      BY <2>3
    <3>2. Unresolved(incidents, t) = {i}
      BY <2>1, <3>1
    <3>3. Cardinality({i}) = 1
      BY FS_Singleton
    <3> QED BY <3>2, <3>3
  <2> QED BY <2>2, <2>3
<1>2. ASSUME NEW i \in DOMAIN incidents \ raced
      PROVE  /\ incidents[i].told["opened"]
                   = IF \E p \in Processes : Opening(p, i) THEN 0 ELSE 1
             /\ incidents[i].told["resolved"]
                   = IF Resolvable(incidents[i]) \/ \E p \in Processes : Ending(p, i)
                     THEN 0 ELSE 1
  <2>1. RowGood(incidents[i], i, Excuses)
    BY DEF RowsGood
  <2>2. Resolvable(incidents[i]) <=> incidents[i].status # "resolved"
    BY <2>1 DEF RowGood, Incident, Status, Resolvable
  <2> QED BY <2>1, <2>2, ExcusesAre DEF RowGood
<1> QED BY <1>1, <1>2 DEF AnnouncedOnceEach

\* Whatever arrives, and whoever intervenes between which statements, a problem has
\* one unresolved incident at most, announced once when it opens and once when it
\* ends, save for incidents written from a reading that no longer held.
THEOREM OneIncidentEach == Spec => []AnnouncedOnceEach
<1>1. Spec => []TypeInv
  BY InitTypes, NextTypes, PTL DEF Spec
<1>2. TypeInv => AnnouncedOnceEach
  BY RowsAnnounced DEF TypeInv
<1> QED BY <1>1, <1>2, PTL

-----------------------------------------------------------------------------
(* The incidents and the evidence                                          *)

\* The parts of IncidentsMatchEvidence.
StreakFits == state.empties = Cardinality(Streak(events))
FailureFits ==
    Unresolved(incidents, "hard_failure") \ raced # {}
      => events # <<>> /\ events[Len(events)].status = "failure"
EmptyFits ==
    Unresolved(incidents, "empty_result") \ raced # {}
      => agreement.policy # "allowed" /\ state.empties >= agreement.threshold
StaleFits ==
    Unresolved(incidents, "freshness_stale") \ raced # {} => state.stale >= agreement.threshold
EffectFits ==
    Unresolved(incidents, "effect_count_mismatch") \ raced # {}
      => state.effect \in {"breached", "not_evaluated"}

EvidenceInv == StreakFits /\ FailureFits /\ EmptyFits /\ StaleFits /\ EffectFits

\* Together they are the property.
LEMMA EvidenceIs == EvidenceInv => IncidentsMatchEvidence
<1> SUFFICES ASSUME EvidenceInv PROVE IncidentsMatchEvidence
  OBVIOUS
<1>1. Streak(events) = {i \in DOMAIN events :
                           Empty(i) /\ \A j \in i .. Len(events) : ~Full(j)}
  BY DEF Streak, Empty, Full, IsEmpty, IsFull
<1> QED BY <1>1 DEF EvidenceInv, StreakFits, FailureFits, EmptyFits, StaleFits, EffectFits,
                    IncidentsMatchEvidence

\* At first there is neither.
LEMMA InitEvidence == Init => EvidenceInv
<1> SUFFICES ASSUME Init PROVE EvidenceInv
  OBVIOUS
<1>1. incidents = <<>> /\ events = <<>> /\ state.empties = 0
  BY DEF Init
<1>2. \A t : Unresolved(incidents, t) = {}
  BY <1>1 DEF Unresolved
<1>3. Streak(events) = {}
  BY <1>1 DEF Streak
<1> QED BY <1>1, <1>2, <1>3, FS_EmptySet
   DEF EvidenceInv, StreakFits, FailureFits, EmptyFits, StaleFits, EffectFits

\* A step that stores nothing and opens nothing of these types changes nothing.
LEMMA EvidenceStays ==
    ASSUME EvidenceInv, UNCHANGED <<events, agreement>>,
           state'.empties = state.empties, state'.stale = state.stale,
           state'.effect = state.effect,
           \A t \in Problems \ {"silent_absence"} :
              Unresolved(incidents', t) \ raced' \subseteq Unresolved(incidents, t) \ raced
    PROVE  EvidenceInv'
<1>1. \A t \in {"hard_failure", "empty_result", "freshness_stale", "effect_count_mismatch"} :
         Unresolved(incidents', t) \ raced' \subseteq Unresolved(incidents, t) \ raced
  BY Types
<1>2. StreakFits'
  BY DEF EvidenceInv, StreakFits
<1>3. FailureFits' /\ EmptyFits' /\ StaleFits' /\ EffectFits'
  BY <1>1 DEF EvidenceInv, FailureFits, EmptyFits, StaleFits, EffectFits
<1> QED BY <1>2, <1>3 DEF EvidenceInv

\* What a report does to the state of the workflow.
LEMMA AfterFields ==
    ASSUME NEW st, NEW r
    PROVE  /\ After(st, r).empties = Empties(st, r)
           /\ After(st, r).stale = Freshness(st, r).stale
           /\ After(st, r).effect = Effect(st, r)
BY DEF After

\* The transaction stores the report that justifies what it leaves unresolved.
LEMMA WriteEvidence ==
    ASSUME TypeInv, EvidenceInv, NEW p \in Processes, Write(p)
    PROVE  EvidenceInv'
<1>1. PICK r, rows, st, ev : r = request[p] /\ rows = incidents /\ st = state /\ ev = events
  OBVIOUS
<1>2. /\ r \in Reports /\ RowsGood(rows, Excuses) /\ st \in States /\ ev \in Seq(Reports)
      /\ agreement \in Agreements
  <2>1. request[p] \in Reports
    BY DEF TypeInv, Write, RequestPlace
  <2> QED BY <1>1, <2>1 DEF TypeInv
<1>3. PICK next, longer, after :
         /\ next = Incidence(rows, st, r) /\ longer = Append(ev, r) /\ after = After(st, r)
  OBVIOUS
<1>4. incidents' = next /\ raced' = raced /\ events' = longer /\ state' = after /\ agreement' = agreement
  BY <1>1, <1>3 DEF Write
<1>5. /\ after.empties = Empties(st, r) /\ after.stale = Freshness(st, r).stale
      /\ after.effect = Effect(st, r)
  BY <1>3, AfterFields
<1>6. EvidenceOf(r) \in {"failure", "empty_result", "success"}
  BY <1>2, ReportIs DEF Evidence
<1>7. agreement.threshold \in Nat
  BY <1>2, AgreementIs
<1>8. st.empties \in Nat
  BY <1>2 DEF States
<1>10. StreakFits'
  <2>1. st.empties = Cardinality(Streak(ev))
    BY <1>1 DEF EvidenceInv, StreakFits
  <2>2. /\ IsEmpty(r) => Empties(st, r) = st.empties + 1
        /\ IsFull(r) => Empties(st, r) = 0
        /\ ~IsEmpty(r) /\ ~IsFull(r) => Empties(st, r) = st.empties
    BY <1>2, EmptiesIs DEF IsEmpty, IsFull
  <2>3. /\ IsEmpty(r) => Cardinality(Streak(longer)) = Cardinality(Streak(ev)) + 1
        /\ IsFull(r) => Cardinality(Streak(longer)) = 0
        /\ ~IsEmpty(r) /\ ~IsFull(r)
             => Cardinality(Streak(longer)) = Cardinality(Streak(ev))
    BY <1>2, <1>3, StreakGrows
  <2>4. after.empties = Cardinality(Streak(longer))
    BY <1>5, <2>1, <2>2, <2>3
  <2> QED BY <1>4, <2>4 DEF StreakFits
<1>11. FailureFits'
  <2>1. EvidenceOf(r) # "failure" => Unresolved(next, "hard_failure") = {}
    BY <1>2, <1>3, <1>6, EmptyDoes, SuccessDoes
  <2>2. longer # <<>> /\ longer[Len(longer)] = r
    BY <1>2, <1>3
  <2>3. EvidenceOf(r) = "failure" => r.status = "failure"
    BY <1>2, ReportIs
  <2> QED BY <1>4, <2>1, <2>2, <2>3 DEF FailureFits
<1>12. EmptyFits'
  <2>0. Unresolved(rows, "empty_result") \ raced # {}
          => agreement.policy # "allowed" /\ st.empties >= agreement.threshold
    BY <1>1 DEF EvidenceInv, EmptyFits
  <2>1. ASSUME Unresolved(next, "empty_result") \ raced # {}
        PROVE  agreement.policy # "allowed" /\ Empties(st, r) >= agreement.threshold
    <3>1. CASE EvidenceOf(r) = "failure"
      <4>1. Unresolved(next, "empty_result") = Unresolved(rows, "empty_result")
        BY <1>2, <1>3, <3>1, FailureDoes
      <4>2. Empties(st, r) = st.empties
        BY <1>2, <3>1, EmptiesIs
      <4> QED BY <2>0, <2>1, <4>1, <4>2
    <3>2. CASE EvidenceOf(r) = "empty_result"
      <4>1. /\ agreement.policy = "allowed" => Unresolved(next, "empty_result") = {}
            /\ ~(Empties(st, r) >= agreement.threshold)
                 => Unresolved(next, "empty_result") \subseteq Unresolved(rows, "empty_result")
        BY <1>2, <1>3, <3>2, EmptyDoes
      <4>2. Empties(st, r) = st.empties + 1
        BY <1>2, <3>2, EmptiesIs
      <4>3. CASE ~(Empties(st, r) >= agreement.threshold)
        <5>1. Unresolved(rows, "empty_result") \ raced # {}
          BY <2>1, <4>1, <4>3
        <5> QED BY <1>7, <1>8, <2>0, <4>2, <5>1
      <4> QED BY <2>1, <4>1, <4>3
    <3>3. CASE EvidenceOf(r) = "success"
      BY <1>2, <1>3, <2>1, <3>3, SuccessDoes
    <3> QED BY <1>6, <3>1, <3>2, <3>3
  <2> QED BY <1>4, <1>5, <2>1 DEF EmptyFits
<1>13. StaleFits'
  <2>0. Unresolved(rows, "freshness_stale") \ raced # {} => st.stale >= agreement.threshold
    BY <1>1 DEF EvidenceInv, StaleFits
  <2>1. ASSUME Unresolved(next, "freshness_stale") \ raced # {}
        PROVE  Freshness(st, r).stale >= agreement.threshold
    <3>1. CASE EvidenceOf(r) = "failure" \/ EvidenceOf(r) = "empty_result"
      <4>1. Unresolved(next, "freshness_stale") = Unresolved(rows, "freshness_stale")
        BY <1>2, <1>3, <3>1, FailureDoes, EmptyDoes
      <4>2. Freshness(st, r).stale = st.stale
        BY <1>2, <3>1, FreshnessIs
      <4> QED BY <2>0, <2>1, <4>1, <4>2
    <3>2. CASE EvidenceOf(r) = "success"
      <4>1. StaleNow(st, r)
        BY <1>2, <1>3, <2>1, <3>2, SuccessDoes
      <4> QED BY <4>1 DEF StaleNow
    <3> QED BY <1>6, <3>1, <3>2
  <2> QED BY <1>4, <1>5, <2>1 DEF StaleFits
<1>14. EffectFits'
  <2>0. Unresolved(rows, "effect_count_mismatch") \ raced # {}
          => st.effect \in {"breached", "not_evaluated"}
    BY <1>1 DEF EvidenceInv, EffectFits
  <2>1. ASSUME Unresolved(next, "effect_count_mismatch") \ raced # {}
        PROVE  Effect(st, r) \in {"breached", "not_evaluated"}
    <3>1. CASE EvidenceOf(r) = "failure" \/ EvidenceOf(r) = "empty_result"
      <4>1. Unresolved(next, "effect_count_mismatch")
              = Unresolved(rows, "effect_count_mismatch")
        BY <1>2, <1>3, <3>1, FailureDoes, EmptyDoes
      <4>2. Effect(st, r) = st.effect
        BY <3>1 DEF Effect, EffectCounts
      <4> QED BY <2>0, <2>1, <4>1, <4>2
    <3>2. CASE EvidenceOf(r) = "success" /\ ~EffectCounts(r)
      <4>1. Unresolved(next, "effect_count_mismatch")
              = Unresolved(rows, "effect_count_mismatch")
        BY <1>2, <1>3, <3>2, SuccessDoes
      <4>2. Effect(st, r) = st.effect
        BY <3>2 DEF Effect
      <4> QED BY <2>0, <2>1, <4>1, <4>2
    <3>3. CASE EvidenceOf(r) = "success" /\ EffectCounts(r)
      <4>1. r.effect # "equal"
        BY <1>2, <1>3, <2>1, <3>3, SuccessDoes
      <4>2. r.effect \in {"missing", "equal", "unequal"}
        BY <1>2, ReportIs DEF Report
      <4>3. CASE r.effect = "missing"
        BY <3>3, <4>3 DEF Effect
      <4>4. CASE r.effect = "unequal"
        BY <3>3, <4>4 DEF Effect
      <4> QED BY <4>1, <4>2, <4>3, <4>4
    <3> QED BY <1>6, <3>1, <3>2, <3>3
  <2> QED BY <1>4, <1>5, <2>1 DEF EffectFits
<1> QED BY <1>10, <1>11, <1>12, <1>13, <1>14 DEF EvidenceInv

\* The other steps of a request store nothing, and change the health at most.
LEMMA OtherRequests ==
    ASSUME TypeInv, NEW p \in Processes, RequestStep(p), ~Write(p)
    PROVE  /\ UNCHANGED <<incidents, raced, events, agreement>>
           /\ state'.empties = state.empties /\ state'.stale = state.stale
           /\ state'.effect = state.effect
<1>1. CASE Reject(p)
  <2>1. UNCHANGED <<incidents, raced, events, agreement>>
    BY <1>1 DEF Reject, Finish
  <2>2. state' \in {state, [state EXCEPT !.health = "warning"]} /\ state \in States
    BY <1>1 DEF Reject, TypeInv
  <2> QED BY <2>1, <2>2 DEF States
<1>2. CASE ~Reject(p)
  BY <1>2 DEF RequestStep, Arrive, ArrivePolled, PassLimit, HitLimit, CheckContract,
              WriteRefused
<1> QED BY <1>1, <1>2

\* Every step keeps the incidents and the evidence together.
LEMMA NextEvidence == TypeInv /\ EvidenceInv /\ [Next]_vars => EvidenceInv'
<1> SUFFICES ASSUME TypeInv, EvidenceInv, [Next]_vars PROVE EvidenceInv'
  OBVIOUS
<1>1. CASE UNCHANGED vars
  BY <1>1, EvidenceStays DEF vars
<1>2. CASE \E p \in Processes : RequestStep(p)
  <2>1. PICK p \in Processes : RequestStep(p)
    BY <1>2
  <2>2. CASE Write(p)
    BY <2>2, WriteEvidence
  <2>3. CASE ~Write(p)
    <3>1. /\ UNCHANGED <<incidents, raced, events, agreement>>
          /\ state'.empties = state.empties /\ state'.stale = state.stale
          /\ state'.effect = state.effect
      BY <2>1, <2>3, OtherRequests
    <3> QED BY <3>1, EvidenceStays
  <2> QED BY <2>2, <2>3
<1>3. CASE \E p \in Processes : HandlerStep(p) \/ TickStep(p)
  <2>1. \A t \in Problems \ {"silent_absence"} :
           Unresolved(incidents', t) \ raced' \subseteq Unresolved(incidents, t) \ raced
    BY <1>3, OthersDo DEF Handled
  <2>2. /\ UNCHANGED <<events, agreement>>
        /\ state' \in {state, [state EXCEPT !.health = "overdue"]} /\ state \in States
    BY <1>3, OthersLeave DEF TypeInv
  <2>3. /\ state'.empties = state.empties /\ state'.stale = state.stale
        /\ state'.effect = state.effect
    BY <2>2 DEF States
  <2> QED BY <2>1, <2>2, <2>3, EvidenceStays
<1>4. CASE Remove \/ Revoke \/ Tick
  <2>1. UNCHANGED <<incidents, raced, events, state, agreement>>
    BY <1>4 DEF Remove, Revoke, Tick
  <2> QED BY <2>1, EvidenceStays
<1> QED BY <1>1, <1>2, <1>3, <1>4 DEF Next

\* The streak counts the empty reports stored since the last one with items, and an
\* incident about the evidence is unresolved only while the evidence says so, save
\* for one that was resolved while somebody was acknowledging it.
THEOREM EvidenceMatched == Spec => []IncidentsMatchEvidence
<1>1. Init => TypeInv /\ EvidenceInv
  BY InitTypes, InitEvidence
<1>2. TypeInv /\ EvidenceInv /\ [Next]_vars => (TypeInv /\ EvidenceInv)'
  BY NextTypes, NextEvidence
<1> QED BY <1>1, <1>2, EvidenceIs, PTL DEF Spec

-----------------------------------------------------------------------------
(* The copies of polled executions                                         *)

\* A polled execution is on its way to the transaction, or nowhere.
PollInv ==
    agreement.method = "poll" =>
        \A p \in Processes : pc[p] \in {"idle", "write"} \cup HandlerPlace \cup TickPlace

\* A step of a request moves no other one.
LEMMA MovesOne ==
    ASSUME TypeInv, NEW p \in Processes, RequestStep(p)
    PROVE  agreement' = agreement /\ \A q \in Processes \ {p} : pc'[q] = pc[q]
<1>1. agreement' = agreement
  BY DEF RequestStep, Arrive, ArrivePolled, PassLimit, HitLimit, Reject, CheckContract, Write,
         WriteRefused
<1>2. \E place \in Pc : pc' = [pc EXCEPT ![p] = place]
  BY DEF RequestStep, Arrive, ArrivePolled, PassLimit, HitLimit, Reject, CheckContract, Write,
         WriteRefused, Finish, Proceed, Pc, RequestPlace
<1> QED BY <1>1, <1>2 DEF TypeInv

\* Where a polled execution goes.
LEMMA PolledSteps ==
    ASSUME TypeInv, PollInv, agreement.method = "poll", NEW p \in Processes, RequestStep(p)
    PROVE  \/ pc[p] = "idle" /\ pc'[p] \in {"idle", "write"}
           \/ /\ pc[p] = "write" /\ pc'[p] = "idle"
              /\ answer'[p] \in {"accepted", "replay"}
<1>0. /\ pc \in [Processes -> Pc] /\ answer \in [Processes -> Answer]
      /\ pc[p] \in {"idle", "write"}
  <2>1. pc[p] \in {"idle"} \cup RequestPlace
    BY DEF RequestStep, Arrive, ArrivePolled, PassLimit, HitLimit, Reject, CheckContract, Write,
           WriteRefused, RequestPlace
  <2> QED BY <2>1 DEF TypeInv, PollInv, RequestPlace, HandlerPlace, TickPlace
<1>1. CASE \E r \in Reports : Arrive(p, r) \/ ArrivePolled(p, r)
  BY <1>0, <1>1 DEF Arrive, ArrivePolled, Finish
<1>2. CASE PassLimit(p) \/ HitLimit(p) \/ Reject(p) \/ CheckContract(p)
  BY <1>0, <1>2 DEF PassLimit, HitLimit, Reject, CheckContract
<1>3. CASE Write(p)
  BY <1>0, <1>3 DEF Write, Finish
<1>4. CASE WriteRefused(p)
  BY <1>0, <1>4 DEF WriteRefused, Finish
<1> QED BY <1>1, <1>2, <1>3, <1>4 DEF RequestStep

\* No other step moves a request.
LEMMA OthersMoveNone ==
    ASSUME TypeInv, [Next]_vars, ~\E p \in Processes : RequestStep(p)
    PROVE  /\ agreement' = agreement /\ request' = request
           /\ \A p \in Processes :
                 \/ pc'[p] = pc[p]
                 \/ /\ pc[p] \in {"idle"} \cup HandlerPlace \cup TickPlace
                    /\ pc'[p] \in {"idle"} \cup HandlerPlace \cup TickPlace
<1>1. CASE \E p \in Processes : HandlerStep(p) \/ TickStep(p)
  <2>1. PICK p \in Processes : HandlerStep(p) \/ TickStep(p)
    BY <1>1
  <2>2. /\ agreement' = agreement /\ request' = request
        /\ pc[p] \in {"idle"} \cup HandlerPlace \cup TickPlace
        /\ \E place \in {"idle"} \cup HandlerPlace \cup TickPlace :
              pc' = [pc EXCEPT ![p] = place]
    BY <2>1, OthersLeave
  <2> QED BY <2>2 DEF TypeInv
<1>2. CASE UNCHANGED vars \/ Remove \/ Revoke \/ Tick
  BY <1>2 DEF vars, requestVars, Remove, Revoke, Tick
<1> QED BY <1>1, <1>2 DEF Next

\* Every step keeps polled executions away from the gates of the heartbeats.
LEMMA NextPoll == TypeInv /\ PollInv /\ [Next]_vars => PollInv'
<1> SUFFICES ASSUME TypeInv, PollInv, [Next]_vars PROVE PollInv'
  OBVIOUS
<1>1. CASE \E p \in Processes : RequestStep(p)
  <2>1. PICK p \in Processes : RequestStep(p)
    BY <1>1
  <2>2. agreement' = agreement /\ \A q \in Processes \ {p} : pc'[q] = pc[q]
    BY <2>1, MovesOne
  <2>3. agreement.method = "poll" => pc'[p] \in {"idle", "write"}
    BY <2>1, PolledSteps
  <2> QED BY <2>2, <2>3 DEF PollInv
<1>2. CASE ~\E p \in Processes : RequestStep(p)
  BY <1>2, OthersMoveNone DEF PollInv
<1> QED BY <1>1, <1>2

\* What CopiesAreAccepted says of a step.
CopyAccepted ==
    \A p \in Processes :
        active /\ agreement.method = "poll"
            /\ pc[p] # "idle" /\ pc'[p] = "idle" /\ StoredSame(request[p])
          => answer'[p] \in {"accepted", "replay"}

\* A polled execution whose key is stored by the time of its transaction is answered
\* like the first one.
THEOREM CopiesAnswered == Spec => CopiesAreAccepted
<1>1. Init => TypeInv /\ PollInv
  <2>1. Init => PollInv
    BY DEF Init, PollInv
  <2> QED BY <2>1, InitTypes
<1>2. TypeInv /\ PollInv /\ [Next]_vars => (TypeInv /\ PollInv)'
  BY NextTypes, NextPoll
<1>3. TypeInv /\ PollInv /\ [Next]_vars => [CopyAccepted]_vars
  <2> SUFFICES ASSUME TypeInv, PollInv, [Next]_vars,
                      NEW p \in Processes, agreement.method = "poll",
                      pc[p] # "idle", pc'[p] = "idle", StoredSame(request[p])
               PROVE  answer'[p] \in {"accepted", "replay"}
    BY DEF CopyAccepted
  <2>1. CASE \E q \in Processes : RequestStep(q)
    <3>1. PICK q \in Processes : RequestStep(q)
      BY <2>1
    <3>2. q = p
      BY <3>1, MovesOne
    <3> QED BY <3>1, <3>2, PolledSteps
  <2>2. CASE ~\E q \in Processes : RequestStep(q)
    <3>1. pc[p] \in HandlerPlace \cup TickPlace
      BY <2>2, OthersMoveNone
    <3>2. request[p] = NoReport
      <4>1. pc[p] \notin RequestPlace
        BY <3>1 DEF RequestPlace, HandlerPlace, TickPlace
      <4> QED BY <4>1 DEF TypeInv
    <3>3. \A i \in DOMAIN events : events[i] # NoReport
      BY IngestionAssumption DEF TypeInv
    <3> QED BY <3>2, <3>3 DEF StoredSame
  <2> QED BY <2>1, <2>2
<1>4. Spec => [][CopyAccepted]_vars
  BY <1>1, <1>2, <1>3, PTL DEF Spec
<1>5. [CopyAccepted]_vars
        <=> [\A p \in Processes :
               active /\ agreement.method = "poll"
                   /\ pc[p] # "idle" /\ pc'[p] = "idle" /\ StoredSame(request[p])
                 => answer'[p] \in {"accepted", "replay"}]_vars
  BY DEF CopyAccepted
<1> QED BY <1>4, <1>5, PTL DEF CopiesAreAccepted
=============================================================================
