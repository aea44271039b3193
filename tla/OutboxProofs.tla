---------------------------- MODULE OutboxProofs ----------------------------
(***************************************************************************)
(* Proofs about Outbox for every set of workers, rows and channels and     *)
(* every lease, timeout and retry limit.                                   *)
(***************************************************************************)
EXTENDS Outbox, SequenceTheorems, TLAPS

Working == {"item", "routes", "awaiting", "record", "giveUp"}

\* The parts of TypeOK, so that a step re-proves only what it touches.
RowsTyped ==
    /\ status \in [Rows -> {"absent", "pending"} \cup Settled]
    /\ availIn \in [Rows -> Int]
    /\ lease \in [Rows -> NoLease .. ClaimTtl]
    /\ attempts \in [Rows -> Nat]
ChannelsTyped ==
    /\ active \in [Channels -> BOOLEAN]
    /\ readable \in [Channels -> BOOLEAN]
    /\ health \in [Channels -> Health]
    /\ routes \in [Incidents -> SUBSET Channels]
    /\ named \in [Tests -> Channels \cup {NoChannel}]
    /\ notified \subseteq Incidents
    /\ sentLog \subseteq Rows \X Channels
    /\ failureOpen \in BOOLEAN
ClaimsTyped ==
    /\ pc \in [Workers -> {"idle", "awaiting"} \cup Synchronous]
    /\ candidates \in [Workers -> Seq(Rows)]
    /\ batch \in [Workers -> Seq(Rows)]
    /\ claimLeft \in [Workers -> NoLease .. ClaimTtl]
PassesTyped ==
    /\ snapshot \in [Workers -> Nat]
    /\ todo \in [Workers -> SUBSET Channels]
    /\ target \in [Workers -> Channels \cup {NoChannel}]
    /\ waitLeft \in [Workers -> 0 .. DeliveryTimeout]
    /\ answer \in [Workers -> Outcome]
    /\ results \in [Workers -> SUBSET Outcome]
HistoryTyped ==
    /\ received \subseteq Rows \X Channels
    /\ passes \in [Alerts -> 0 .. MaxAttempts + 1]
    /\ crashes \in 0 .. MaxCrashes

\* What a worker holds at each place: rows to claim, a current row, a target.
WorkerInv ==
    \A w \in Workers :
        /\ pc[w] = "claiming" => candidates[w] # <<>>
        /\ pc[w] \in Working => batch[w] # <<>>
        /\ pc[w] \in {"routes", "giveUp"} => Current(w) \in Alerts
        /\ pc[w] \in {"awaiting", "record"} => target[w] \in Channels

TypeInv == TypeOK /\ WorkerInv

\* TypeOK, by what the parts are about.
LEMMA TypeParts ==
    TypeOK <=> /\ RowsTyped /\ ChannelsTyped /\ ClaimsTyped
               /\ PassesTyped /\ HistoryTyped
BY DEF TypeOK, RowsTyped, ChannelsTyped, ClaimsTyped, PassesTyped, HistoryTyped

\* The current row of a working worker is a row.
LEMMA CurrentIsRow ==
    ASSUME TypeInv, NEW w \in Workers, pc[w] \in Working
    PROVE  Current(w) \in Rows /\ batch[w] \in Seq(Rows) /\ batch[w] # <<>>
<1>1. batch[w] \in Seq(Rows) /\ batch[w] # <<>>
  BY DEF TypeInv, TypeOK, WorkerInv
<1>2. QED
  BY <1>1, HeadTailProperties DEF Current

\* The rest of a batch.
LEMMA TailOfLonger ==
    ASSUME NEW S, NEW s \in Seq(S), s # <<>>
    PROVE  Tail(s) \in Seq(S) /\ (Len(s) # 1 => Tail(s) # <<>>)
<1>1. Tail(s) \in Seq(S) /\ Len(Tail(s)) = Len(s) - 1
  BY HeadTailProperties
<1>2. Tail(s) = <<>> <=> Len(Tail(s)) = 0
  BY <1>1, EmptySeq
<1>3. Len(s) \in Nat
  BY LenProperties
<1>4. QED
  BY <1>1, <1>2, <1>3

\* Advance keeps the types of the worker's variables and lands on a place
\* where it needs a row only if one is left.
LEMMA AdvanceTyped ==
    ASSUME TypeInv, NEW w \in Workers, pc[w] \in Working, Advance(w)
    PROVE  ClaimsTyped' /\ PassesTyped' /\ WorkerInv'
<1>. USE OutboxAssumption
<1>1. /\ batch[w] \in Seq(Rows) /\ batch[w] # <<>>
      /\ Tail(batch[w]) \in Seq(Rows)
      /\ Len(batch[w]) # 1 => Tail(batch[w]) # <<>>
  <2>1. batch[w] \in Seq(Rows) /\ batch[w] # <<>>
    BY CurrentIsRow
  <2>2. QED
    BY <2>1, TailOfLonger
<1>2. ClaimsTyped'
  BY <1>1 DEF Advance, TypeInv, TypeOK, ClaimsTyped, Synchronous
<1>3. PassesTyped'
  BY DEF Advance, TypeInv, TypeOK, PassesTyped, Outcome
<1>4. WorkerInv'
  <2>1. ASSUME NEW v \in Workers, v # w
        PROVE  /\ pc'[v] = pc[v] /\ candidates'[v] = candidates[v]
               /\ batch'[v] = batch[v] /\ target'[v] = target[v]
    BY <2>1 DEF Advance, TypeInv, TypeOK
  <2>2. /\ pc'[w] = IF Len(batch[w]) = 1 THEN "idle" ELSE "item"
        /\ batch'[w] = Tail(batch[w])
    BY DEF Advance, TypeInv, TypeOK
  <2>3. QED
    BY <1>1, <2>1, <2>2 DEF WorkerInv, TypeInv, Working, Current
<1>5. QED
  BY <1>2, <1>3, <1>4

-----------------------------------------------------------------------------
(* Type correctness                                                        *)

\* The initial state is typed.
LEMMA InitTyped == Init => TypeInv
<1>. SUFFICES ASSUME Init PROVE TypeInv
  OBVIOUS
<1>1. RowsTyped
  BY OutboxAssumption DEF Init, RowsTyped, NoLease
<1>2. ChannelsTyped
  BY DEF Init, ChannelsTyped, Health
<1>3. ClaimsTyped
  <2>1. <<>> \in Seq(Rows)
    BY EmptySeq
  <2>2. QED
    BY <2>1, OutboxAssumption DEF Init, ClaimsTyped, NoLease
<1>4. PassesTyped
  BY OutboxAssumption DEF Init, PassesTyped, Outcome
<1>5. HistoryTyped
  BY OutboxAssumption DEF Init, HistoryTyped
<1>6. WorkerInv
  BY DEF Init, WorkerInv, Working
<1>7. QED
  BY <1>1, <1>2, <1>3, <1>4, <1>5, <1>6, TypeParts DEF TypeInv

\* A row is settled within its type,
LEMMA MarkProcessedTyped ==
    ASSUME TypeInv, NEW r \in Rows, NEW how \in Settled, MarkProcessed(r, how)
    PROVE  RowsTyped'
BY OutboxAssumption DEF MarkProcessed, TypeInv, TypeOK, RowsTyped, NoLease

\* an attempt is recorded within the channels' types,
LEMMA RecordAttemptTyped ==
    ASSUME TypeInv, NEW r \in Rows, NEW c \in Channels, NEW o \in Outcome,
           NEW more, RecordAttempt(r, c, o, more), UNCHANGED <<notified, failureOpen>>
    PROVE  ChannelsTyped'
BY DEF RecordAttempt, HealthAfter, Health, TypeInv, TypeOK, ChannelsTyped

\* a pass is counted within the bound,
LEMMA CountPassTyped ==
    ASSUME TypeInv, NEW a \in Alerts, CountPass(a), UNCHANGED <<received, crashes>>
    PROVE  HistoryTyped'
BY OutboxAssumption DEF CountPass, TypeInv, TypeOK, HistoryTyped

\* and a delivery awaited within its deadline.
LEMMA AwaitTyped ==
    ASSUME TypeInv, NEW w \in Workers, NEW c \in Channels, Await(w, c),
           pc[w] \in Working, UNCHANGED <<candidates, batch, claimLeft>>
    PROVE  ClaimsTyped' /\ target' \in [Workers -> Channels \cup {NoChannel}]
           /\ waitLeft' \in [Workers -> 0 .. DeliveryTimeout] /\ WorkerInv'
BY OutboxAssumption DEF Await, TypeInv, TypeOK, ClaimsTyped, WorkerInv, Working,
   Synchronous, Current

\* Every step keeps the types.
LEMMA NextTyped == TypeInv /\ [Next]_vars => TypeInv'
<1>. SUFFICES ASSUME TypeInv, [Next]_vars PROVE TypeInv'
  OBVIOUS
<1>. USE OutboxAssumption
<1>. USE DEF rowVars, channelVars, passVars, workerVars
<1>0. RowsTyped /\ ChannelsTyped /\ ClaimsTyped /\ PassesTyped
      /\ HistoryTyped /\ WorkerInv
  BY TypeParts DEF TypeInv
<1>. DEFINE Goal == /\ RowsTyped' /\ ChannelsTyped' /\ ClaimsTyped'
                    /\ PassesTyped' /\ HistoryTyped' /\ WorkerInv'
<1>1. ASSUME NEW r \in Rows, Enqueue(r) PROVE Goal
  <2>1. RowsTyped'
    BY <1>0, <1>1 DEF Enqueue, RowsTyped, NoLease
  <2>2. WorkerInv'
    BY <1>0, <1>1 DEF Enqueue, WorkerInv, Current
  <2>3. QED
    BY <1>0, <1>1, <2>1, <2>2 DEF Enqueue, ChannelsTyped, ClaimsTyped,
       PassesTyped, HistoryTyped
<1>2. ASSUME NEW c \in Channels, DisableChannel(c) PROVE Goal
  BY <1>0, <1>2 DEF DisableChannel, RowsTyped, ChannelsTyped, ClaimsTyped,
     PassesTyped, HistoryTyped, WorkerInv, Current
<1>3. ASSUME NEW i \in Incidents, RemoveRoutes(i) PROVE Goal
  BY <1>0, <1>3 DEF RemoveRoutes, RowsTyped, ChannelsTyped, ClaimsTyped,
     PassesTyped, HistoryTyped, WorkerInv, Current
<1>4. ASSUME ResolveFailure PROVE Goal
  BY <1>0, <1>4 DEF ResolveFailure, RowsTyped, ChannelsTyped, ClaimsTyped,
     PassesTyped, HistoryTyped, WorkerInv, Current
<1>5. ASSUME NEW w \in Workers, SelectBatch(w) PROVE Goal
  <2>0. PICK n \in 1 .. BatchLimit : \E s \in [1 .. n -> Due] :
           candidates' = [candidates EXCEPT ![w] = s]
    BY <1>5 DEF SelectBatch
  <2>1. PICK s \in [1 .. n -> Due] : candidates' = [candidates EXCEPT ![w] = s]
    BY <2>0
  <2>2. s \in Seq(Rows) /\ s # <<>> /\ <<>> \in Seq(Rows)
    <3>1. s \in [1 .. n -> Rows]
      BY DEF Due
    <3>2. s \in Seq(Rows) /\ Len(s) = n
      BY <3>1, IsASeq, LenProperties
    <3>3. QED
      BY <3>2, EmptySeq
  <2>3. ClaimsTyped' /\ WorkerInv'
    BY <1>0, <1>5, <2>1, <2>2 DEF SelectBatch, ClaimsTyped, WorkerInv,
       Synchronous, Working, Current, NoLease
  <2>4. QED
    BY <1>0, <1>5, <2>3 DEF SelectBatch, RowsTyped, ChannelsTyped,
       PassesTyped, HistoryTyped
<1>6. ASSUME NEW w \in Workers, ClaimRow(w) PROVE Goal
  <2>. DEFINE r == Head(candidates[w])
  <2>. DEFINE mine == IF Claimable(r) THEN Append(batch[w], r) ELSE batch[w]
  <2>1. candidates[w] \in Seq(Rows) /\ candidates[w] # <<>>
        /\ batch[w] \in Seq(Rows)
    BY <1>0, <1>6 DEF ClaimRow, ClaimsTyped, WorkerInv
  <2>2. r \in Rows /\ Tail(candidates[w]) \in Seq(Rows)
        /\ (Len(candidates[w]) # 1 => Tail(candidates[w]) # <<>>)
        /\ Len(candidates[w]) \in Nat
    BY <2>1, HeadTailProperties, TailOfLonger, LenProperties
  <2>3. mine \in Seq(Rows)
    BY <2>1, <2>2, AppendProperties
  <2>4. /\ lease' = [lease EXCEPT ![r] = IF Claimable(r) THEN ClaimTtl ELSE @]
        /\ batch' = [batch EXCEPT ![w] = mine]
        /\ pc' = [pc EXCEPT ![w] =
                    IF Len(candidates[w]) > 1 THEN "claiming"
                    ELSE IF mine = <<>> THEN "idle" ELSE "item"]
        /\ candidates' = [candidates EXCEPT ![w] = Tail(@)]
    BY <1>6 DEF ClaimRow
  <2>. HIDE DEF mine, r
  <2>5. RowsTyped'
    <3>1. lease' \in [Rows -> NoLease .. ClaimTtl]
      BY <1>0, <2>2, <2>4 DEF RowsTyped, NoLease
    <3>2. QED
      BY <1>0, <1>6, <3>1 DEF ClaimRow, RowsTyped
  <2>6. ClaimsTyped'
    BY <1>0, <1>6, <2>2, <2>3, <2>4 DEF ClaimRow, ClaimsTyped, Synchronous
  <2>7. WorkerInv'
    <3>1. \A v \in Workers \ {w} : /\ pc'[v] = pc[v] /\ batch'[v] = batch[v]
                                  /\ candidates'[v] = candidates[v]
      BY <1>0, <2>4 DEF ClaimsTyped
    <3>2. /\ batch'[w] = mine /\ candidates'[w] = Tail(candidates[w])
          /\ pc'[w] = IF Len(candidates[w]) > 1 THEN "claiming"
                      ELSE IF mine = <<>> THEN "idle" ELSE "item"
      BY <1>0, <2>4 DEF ClaimsTyped
    <3>3. /\ pc'[w] = "claiming" => candidates'[w] # <<>>
          /\ pc'[w] = "item" => batch'[w] # <<>>
          /\ pc'[w] \in {"claiming", "idle", "item"}
      <4>1. CASE Len(candidates[w]) > 1
        <5>1. Tail(candidates[w]) # <<>>
          <6>1. \A n \in Nat : n > 1 => n # 1
            OBVIOUS
          <6>2. Len(candidates[w]) # 1
            BY <2>2, <4>1, <6>1, Zenon
          <6>3. QED
            BY <2>2, <6>2, Zenon
        <5>2. pc'[w] = "claiming"
          BY <3>2, <4>1
        <5>3. QED
          BY <3>2, <5>1, <5>2
      <4>2. CASE ~(Len(candidates[w]) > 1)
        <5>1. pc'[w] = IF mine = <<>> THEN "idle" ELSE "item"
          BY <3>2, <4>2
        <5>2. QED
          BY <3>2, <5>1
      <4>3. QED
        BY <4>1, <4>2
    <3>4. target' = target
      BY <1>6 DEF ClaimRow
    <3>5. QED
      BY <1>0, <3>1, <3>3, <3>4 DEF WorkerInv, Working, Current
  <2>8. QED
    BY <1>0, <1>6, <2>5, <2>6, <2>7 DEF ClaimRow, ChannelsTyped, PassesTyped,
       HistoryTyped
<1>7. ASSUME NEW w \in Workers, SkipProcessed(w) PROVE Goal
  <2>1. ClaimsTyped' /\ PassesTyped' /\ WorkerInv'
    BY <1>7, AdvanceTyped DEF SkipProcessed, Working
  <2>2. QED
    BY <1>0, <1>7, <2>1 DEF SkipProcessed, RowsTyped, ChannelsTyped,
       HistoryTyped
<1>8. ASSUME NEW w \in Workers, DropUndeliverable(w) PROVE Goal
  <2>1. ClaimsTyped' /\ PassesTyped' /\ WorkerInv'
    BY <1>8, AdvanceTyped DEF DropUndeliverable, Working
  <2>2. RowsTyped'
    BY <1>8, CurrentIsRow, MarkProcessedTyped
    DEF DropUndeliverable, Working, Settled
  <2>3. QED
    BY <1>0, <1>8, <2>1, <2>2 DEF DropUndeliverable, ChannelsTyped,
       HistoryTyped
<1>9. ASSUME NEW w \in Workers, BeginAlert(w) PROVE Goal
  <2>1. Current(w) \in Rows /\ batch[w] # <<>>
    BY <1>9, CurrentIsRow DEF BeginAlert, Working
  <2>2. PassesTyped'
    BY <1>0, <1>9, <2>1 DEF BeginAlert, PassesTyped, RowsTyped,
       ChannelsTyped, Rows
  <2>3. ClaimsTyped' /\ WorkerInv'
    BY <1>0, <1>9, <2>1 DEF BeginAlert, ClaimsTyped, WorkerInv, Working,
       Synchronous, Current
  <2>4. QED
    BY <1>0, <1>9, <2>2, <2>3 DEF BeginAlert, RowsTyped, ChannelsTyped,
       HistoryTyped
<1>10. ASSUME NEW w \in Workers, TestUnreadable(w) PROVE Goal
  <2>1. ClaimsTyped' /\ PassesTyped' /\ WorkerInv'
    BY <1>10, AdvanceTyped DEF TestUnreadable, Working
  <2>2. RowsTyped'
    BY <1>10, CurrentIsRow, MarkProcessedTyped
    DEF TestUnreadable, Working, Settled
  <2>3. QED
    BY <1>0, <1>10, <2>1, <2>2 DEF TestUnreadable, ChannelsTyped,
       HistoryTyped, Health
<1>30. ASSUME NEW w \in Workers, TestUnaddressed(w) PROVE Goal
  <2>1. ClaimsTyped' /\ PassesTyped' /\ WorkerInv'
    BY <1>30, AdvanceTyped DEF TestUnaddressed, Working
  <2>2. RowsTyped'
    BY <1>30, CurrentIsRow, MarkProcessedTyped
    DEF TestUnaddressed, Working, Settled
  <2>3. QED
    BY <1>0, <1>30, <2>1, <2>2 DEF TestUnaddressed, ChannelsTyped,
       HistoryTyped
<1>11. ASSUME NEW w \in Workers, BeginTest(w) PROVE Goal
  <2>1. /\ ClaimsTyped' /\ WorkerInv'
        /\ target' \in [Workers -> Channels \cup {NoChannel}]
        /\ waitLeft' \in [Workers -> 0 .. DeliveryTimeout]
    <3>1. named[Current(w)] \in Channels /\ Await(w, named[Current(w)])
      BY <1>0, <1>11 DEF BeginTest, ChannelsTyped
    <3>2. QED
      BY <1>11, <3>1, AwaitTyped DEF BeginTest, Working
  <2>2. QED
    BY <1>0, <1>11, <2>1 DEF BeginTest, RowsTyped, ChannelsTyped,
       PassesTyped, HistoryTyped
<1>12. ASSUME NEW w \in Workers, SkipInactive(w) PROVE Goal
  <2>1. PassesTyped'
    BY <1>0, <1>12 DEF SkipInactive, PassesTyped
  <2>2. WorkerInv'
    BY <1>0, <1>12 DEF SkipInactive, WorkerInv, Current
  <2>3. QED
    BY <1>0, <1>12, <2>1, <2>2 DEF SkipInactive, RowsTyped, ChannelsTyped,
       ClaimsTyped, HistoryTyped
<1>13. ASSUME NEW w \in Workers, FailUnreadable(w) PROVE Goal
  <2>1. Current(w) \in Rows
    BY <1>13, CurrentIsRow DEF FailUnreadable, Working
  <2>2. PICK c \in todo[w] :
          /\ todo' = [todo EXCEPT ![w] = @ \ {c}]
          /\ RecordAttempt(Current(w), c, "failed", FALSE)
    BY <1>13 DEF FailUnreadable
  <2>3. c \in Channels
    BY <1>0, <2>2 DEF PassesTyped
  <2>4. ChannelsTyped'
    BY <1>13, <2>1, <2>2, <2>3, RecordAttemptTyped DEF FailUnreadable, Outcome
  <2>5. QED
    BY <1>0, <1>13, <2>2, <2>4 DEF FailUnreadable, RowsTyped, ClaimsTyped,
       PassesTyped, HistoryTyped, WorkerInv, Current, Outcome
<1>14. ASSUME NEW w \in Workers, SendAlert(w) PROVE Goal
  <2>1. PICK c \in todo[w] :
          todo' = [todo EXCEPT ![w] = @ \ {c}] /\ Await(w, c)
    BY <1>14 DEF SendAlert
  <2>2. c \in Channels
    BY <1>0, <2>1 DEF PassesTyped
  <2>3. /\ ClaimsTyped' /\ WorkerInv'
        /\ target' \in [Workers -> Channels \cup {NoChannel}]
        /\ waitLeft' \in [Workers -> 0 .. DeliveryTimeout]
    BY <1>14, <2>1, <2>2, AwaitTyped DEF SendAlert, Working
  <2>4. QED
    BY <1>0, <1>14, <2>1, <2>3 DEF SendAlert, RowsTyped, ChannelsTyped,
       PassesTyped, HistoryTyped
<1>15. ASSUME NEW w \in Workers, RemoteAccepts(w) \/ RemoteFails(w) PROVE Goal
  <2>1. Current(w) \in Rows /\ target[w] \in Channels
    BY <1>0, <1>15, CurrentIsRow DEF RemoteAccepts, RemoteFails, Working,
       WorkerInv
  <2>2. HistoryTyped'
    BY <1>0, <1>15, <2>1 DEF RemoteAccepts, RemoteFails, HistoryTyped
  <2>3. QED
    BY <1>0, <1>15, <2>2 DEF RemoteAccepts, RemoteFails, RowsTyped,
       ChannelsTyped, ClaimsTyped, PassesTyped, WorkerInv, Working,
       Synchronous, Current, Outcome
<1>16. ASSUME NEW w \in Workers, RecordAlert(w) PROVE Goal
  <2>1. /\ Current(w) \in Rows /\ batch[w] # <<>>
        /\ target[w] \in Channels /\ answer[w] \in Outcome
    BY <1>0, <1>16, CurrentIsRow DEF RecordAlert, Working, WorkerInv,
       PassesTyped
  <2>2. ChannelsTyped'
    BY <1>16, <2>1, RecordAttemptTyped DEF RecordAlert
  <2>3. ClaimsTyped' /\ WorkerInv'
    BY <1>0, <1>16, <2>1 DEF RecordAlert, ClaimsTyped, WorkerInv, Working,
       Synchronous, Current
  <2>4. QED
    BY <1>0, <1>16, <2>1, <2>2, <2>3 DEF RecordAlert, RowsTyped, PassesTyped,
       HistoryTyped
<1>17. ASSUME NEW w \in Workers, RecordTest(w) PROVE Goal
  <2>1. Current(w) \in Rows /\ target[w] \in Channels /\ answer[w] \in Outcome
    BY <1>0, <1>17, CurrentIsRow DEF RecordTest, Working, WorkerInv,
       PassesTyped
  <2>2. ChannelsTyped'
    BY <1>17, <2>1, RecordAttemptTyped DEF RecordTest
  <2>3. RowsTyped'
    BY <1>17, <2>1, MarkProcessedTyped DEF RecordTest, Settled
  <2>4. ClaimsTyped' /\ PassesTyped' /\ WorkerInv'
    BY <1>17, AdvanceTyped DEF RecordTest, Working
  <2>5. QED
    BY <1>0, <1>17, <2>2, <2>3, <2>4 DEF RecordTest, HistoryTyped
<1>18. ASSUME NEW w \in Workers, FinishDelivered(w) PROVE Goal
  <2>1. Current(w) \in Alerts
    BY <1>0, <1>18 DEF FinishDelivered, PassDone, WorkerInv
  <2>2. RowsTyped'
    BY <1>18, <2>1, MarkProcessedTyped DEF FinishDelivered, Settled, Rows
  <2>3. ClaimsTyped' /\ PassesTyped' /\ WorkerInv'
    BY <1>18, AdvanceTyped DEF FinishDelivered, PassDone, Working
  <2>4. QED
    BY <1>0, <1>18, <2>1, <2>2, <2>3 DEF FinishDelivered, ChannelsTyped,
       HistoryTyped
<1>19. ASSUME NEW w \in Workers, FinishRetry(w) PROVE Goal
  <2>1. Current(w) \in Alerts
    BY <1>0, <1>19 DEF FinishRetry, PassDone, WorkerInv
  <2>2. RowsTyped'
    BY <1>0, <1>19, <2>1 DEF FinishRetry, ScheduleRetry, RowsTyped,
       PassesTyped, NoLease, Rows
  <2>3. ClaimsTyped' /\ PassesTyped' /\ WorkerInv'
    BY <1>19, AdvanceTyped DEF FinishRetry, PassDone, Working
  <2>4. HistoryTyped'
    BY <1>19, <2>1, CountPassTyped DEF FinishRetry
  <2>5. QED
    BY <1>0, <1>19, <2>2, <2>3, <2>4 DEF FinishRetry, ChannelsTyped
<1>20. ASSUME NEW w \in Workers, FinishExhausted(w) PROVE Goal
  <2>1. Current(w) \in Alerts /\ batch[w] # <<>>
    BY <1>0, <1>20 DEF FinishExhausted, PassDone, WorkerInv, Working
  <2>2. RowsTyped'
    BY <1>20, <2>1, MarkProcessedTyped DEF FinishExhausted, Settled, Rows
  <2>3. HistoryTyped'
    BY <1>20, <2>1, CountPassTyped DEF FinishExhausted
  <2>4. ClaimsTyped' /\ PassesTyped' /\ WorkerInv'
    BY <1>0, <1>20, <2>1 DEF FinishExhausted, ClaimsTyped, PassesTyped,
       WorkerInv, Working, Synchronous, Current
  <2>5. QED
    BY <1>0, <1>20, <2>2, <2>3, <2>4 DEF FinishExhausted, ChannelsTyped
<1>21. ASSUME NEW w \in Workers, OpenFailure(w) PROVE Goal
  <2>1. ClaimsTyped' /\ PassesTyped' /\ WorkerInv'
    BY <1>21, AdvanceTyped DEF OpenFailure, Working
  <2>2. QED
    BY <1>0, <1>21, <2>1 DEF OpenFailure, RowsTyped, ChannelsTyped,
       HistoryTyped
<1>22. ASSUME NEW w \in Workers, Crash(w) PROVE Goal
  <2>1. <<>> \in Seq(Rows)
    BY EmptySeq
  <2>2. ClaimsTyped' /\ PassesTyped' /\ WorkerInv'
    BY <1>0, <1>22, <2>1 DEF Crash, ClaimsTyped, PassesTyped, WorkerInv,
       Working, Current, NoLease, Outcome
  <2>3. QED
    BY <1>0, <1>22, <2>2 DEF Crash, RowsTyped, ChannelsTyped, HistoryTyped
<1>23. ASSUME Tick PROVE Goal
  <2>1. RowsTyped' /\ ClaimsTyped'
    BY <1>0, <1>23 DEF Tick, RowsTyped, ClaimsTyped, NoLease
  <2>2. waitLeft' \in [Workers -> 0 .. DeliveryTimeout]
    BY <1>0, <1>23 DEF Tick, PassesTyped
  <2>3. QED
    BY <1>0, <1>23, <2>1, <2>2 DEF Tick, ChannelsTyped, PassesTyped,
       HistoryTyped, WorkerInv, Current
<1>24. ASSUME UNCHANGED vars PROVE Goal
  <2>1. RowsTyped' /\ ChannelsTyped' /\ ClaimsTyped'
    BY <1>0, <1>24 DEF vars, RowsTyped, ChannelsTyped, ClaimsTyped
  <2>2. PassesTyped' /\ HistoryTyped'
    BY <1>0, <1>24 DEF vars, PassesTyped, HistoryTyped
  <2>3. WorkerInv'
    BY <1>0, <1>24 DEF vars, WorkerInv, Current
  <2>4. QED
    BY <2>1, <2>2, <2>3
<1>25. Goal => TypeInv'
  BY DEF TypeInv, TypeOK, RowsTyped, ChannelsTyped, ClaimsTyped, PassesTyped,
     HistoryTyped
<1>. HIDE DEF Goal
<1>26. ASSUME NEW w \in Workers, WorkerStep(w) PROVE Goal
  BY <1>5, <1>6, <1>7, <1>8, <1>9, <1>10, <1>11, <1>12, <1>13, <1>14, <1>15,
     <1>16, <1>17, <1>18, <1>19, <1>20, <1>21, <1>26, <1>30 DEF WorkerStep
<1>27. Next => Goal
  BY <1>1, <1>2, <1>3, <1>4, <1>22, <1>23, <1>26 DEF Next, Administration
<1>28. QED
  BY <1>24, <1>25, <1>27

\* Every variable keeps its type, and each worker holds what its place needs.
THEOREM TypeCorrect == Spec => []TypeInv
<1>1. QED
  BY InitTyped, NextTyped, PTL DEF Spec

-----------------------------------------------------------------------------
(* Settled rows                                                            *)

\* Every step keeps RowInv, and a settled row as it was settled.
LEMMA RowStep ==
    ASSUME TypeInv, RowInv, [Next]_vars
    PROVE  /\ RowInv'
           /\ \A r \in Rows : Processed(r) => status'[r] = status[r]
<1>. USE OutboxAssumption
<1>. USE DEF rowVars
<1>0. /\ status \in [Rows -> {"absent", "pending"} \cup Settled]
      /\ lease \in [Rows -> NoLease .. ClaimTtl]
      /\ attempts \in [Rows -> Nat]
      /\ snapshot \in [Workers -> Nat]
  BY DEF TypeInv, TypeOK
<1>. DEFINE Kept == \A r \in Rows : Processed(r) => status'[r] = status[r]
<1>. DEFINE Goal == RowInv' /\ Kept
<1>1. ASSUME NEW r \in Rows, Enqueue(r) PROVE Goal
  BY <1>0, <1>1 DEF Enqueue, RowInv, SettledRowsUnclaimed, AttemptsBelowMax,
     Processed, Settled
<1>2. ASSUME NEW w \in Workers, ClaimRow(w) PROVE Goal
  <2>1. \A r \in Rows : lease'[r] # lease[r] => status[r] = "pending"
    BY <1>0, <1>2 DEF ClaimRow, Claimable
  <2>2. UNCHANGED <<status, attempts>>
    BY <1>2 DEF ClaimRow
  <2>3. QED
    BY <1>0, <2>1, <2>2 DEF RowInv, SettledRowsUnclaimed, AttemptsBelowMax,
       Processed, Settled
<1>3. ASSUME NEW r \in Rows, NEW how \in Settled, MarkProcessed(r, how)
      PROVE  Goal
  BY <1>0, <1>3 DEF MarkProcessed, RowInv, SettledRowsUnclaimed,
     AttemptsBelowMax, Processed, Settled
<1>4. ASSUME NEW w \in Workers, FinishRetry(w) PROVE Goal
  <2>1. Current(w) \in Rows
    BY <1>4, CurrentIsRow DEF FinishRetry, PassDone, Working
  <2>2. QED
    BY <1>0, <1>4, <2>1 DEF FinishRetry, ScheduleRetry, RetriesRemain, RowInv,
       SettledRowsUnclaimed, AttemptsBelowMax, Processed, Settled
<1>5. ASSUME Tick PROVE Goal
  BY <1>0, <1>5 DEF Tick, RowInv, SettledRowsUnclaimed, AttemptsBelowMax,
     Processed, NoLease
<1>6. ASSUME UNCHANGED <<status, lease, attempts>> PROVE Goal
  BY <1>6 DEF RowInv, SettledRowsUnclaimed, AttemptsBelowMax, Processed
<1>7. ASSUME NEW w \in Workers,
             \/ DropUndeliverable(w) \/ TestUnaddressed(w) \/ TestUnreadable(w) \/ RecordTest(w)
             \/ FinishDelivered(w)   \/ FinishExhausted(w)
      PROVE  Goal
  <2>1. Current(w) \in Rows
    BY <1>7, CurrentIsRow DEF DropUndeliverable, TestUnaddressed, TestUnreadable, RecordTest,
       FinishDelivered, FinishExhausted, PassDone, Working
  <2>2. \E how \in Settled : MarkProcessed(Current(w), how)
    BY <1>7 DEF DropUndeliverable, TestUnaddressed, TestUnreadable, RecordTest, FinishDelivered,
       FinishExhausted, Settled
  <2>3. QED
    BY <1>3, <2>1, <2>2
<1>8. ASSUME NEW w \in Workers, WorkerStep(w) PROVE Goal
  <2>1. \/ ClaimRow(w) \/ FinishRetry(w)
        \/ DropUndeliverable(w) \/ TestUnaddressed(w) \/ TestUnreadable(w) \/ RecordTest(w)
        \/ FinishDelivered(w)   \/ FinishExhausted(w)
        \/ UNCHANGED <<status, lease, attempts>>
    BY <1>8 DEF WorkerStep, SelectBatch, SkipProcessed, BeginAlert, BeginTest,
       SkipInactive, FailUnreadable, SendAlert, RemoteAccepts, RemoteFails,
       RecordAlert, OpenFailure
  <2>2. QED
    BY <1>2, <1>4, <1>6, <1>7, <2>1
<1>9. ASSUME \/ \E w \in Workers : Crash(w)
             \/ Administration
             \/ UNCHANGED vars
      PROVE  Goal
  BY <1>6, <1>9 DEF Crash, Administration, DisableChannel, RemoveRoutes,
     ResolveFailure, vars
<1>. HIDE DEF Goal
<1>10. Goal
  BY <1>1, <1>5, <1>8, <1>9 DEF Next
<1>11. QED
  BY <1>10 DEF Goal

\* Every row begins pending and untried.
LEMMA InitRow == Init => RowInv
BY OutboxAssumption DEF Init, RowInv, SettledRowsUnclaimed, AttemptsBelowMax,
   Processed, Settled

\* However claims, stale passes and crashes interleave, no settled row carries a
\* lease, and attempt_count never reaches OUTBOX_MAX_ATTEMPTS.
THEOREM RowInvariant == Spec => []RowInv
<1>1. TypeInv /\ RowInv /\ [Next]_vars => RowInv'
  BY RowStep
<1>2. QED
  BY <1>1, InitRow, TypeCorrect, PTL DEF Spec

\* No step puts a settled row back into the queue.
THEOREM SettledForGood == Spec => SettledStaysSettled
<1>1. TypeInv /\ RowInv /\ [Next]_vars
        => [\A r \in Rows : Processed(r) => status'[r] = status[r]]_vars
  BY RowStep
<1>2. QED
  BY <1>1, TypeCorrect, RowInvariant, PTL DEF Spec, SettledStaysSettled

-----------------------------------------------------------------------------
(* Giving up                                                               *)

InPass(w) == pc[w] \in {"routes", "awaiting", "record"}

\* Overlapping passes overwrite attempt_count with older values, never with
\* more than the passes there were; the value a pass has read is bounded in
\* the same way.
PassInv ==
    /\ \A a \in Alerts : attempts[a] <= passes[a]
    /\ \A w \in Workers : InPass(w) /\ Current(w) \in Alerts =>
          snapshot[w] <= passes[Current(w)] /\ snapshot[w] < MaxAttempts
    /\ GivesUpOnlyAfterMaxAttempts

\* A step that leaves the places of the workers inside their passes as they
\* are, lowers no count of passes and writes no attempt_count keeps PassInv.
LEMMA PassFrame ==
    ASSUME TypeInv, PassInv,
           \A w \in Workers : InPass(w)' =>
              InPass(w) /\ batch'[w] = batch[w] /\ snapshot'[w] = snapshot[w],
           UNCHANGED <<attempts, passes>>,
           \A a \in Alerts : status'[a] = "exhausted" => status[a] = "exhausted"
    PROVE  PassInv'
BY DEF PassInv, GivesUpOnlyAfterMaxAttempts, Current, InPass

\* Every step keeps what a pass knows of its row.
LEMMA PassStep ==
    ASSUME TypeInv, RowInv, PassInv, [Next]_vars
    PROVE  PassInv'
<1>. USE OutboxAssumption
<1>. USE DEF rowVars, channelVars, passVars, workerVars
<1>0. /\ status \in [Rows -> {"absent", "pending"} \cup Settled]
      /\ attempts \in [Rows -> Nat]
      /\ passes \in [Alerts -> 0 .. MaxAttempts + 1]
      /\ snapshot \in [Workers -> Nat]
      /\ pc \in [Workers -> {"idle", "awaiting"} \cup Synchronous]
      /\ batch \in [Workers -> Seq(Rows)]
  BY DEF TypeInv, TypeOK
<1>1. ASSUME NEW r \in Rows, Enqueue(r) PROVE PassInv'
  BY <1>0, <1>1 DEF Enqueue, PassInv, GivesUpOnlyAfterMaxAttempts, Current,
     InPass, Rows
<1>2. ASSUME NEW w \in Workers, BeginAlert(w) PROVE PassInv'
  <2>1. /\ Current(w) \in Alerts
        /\ snapshot' = [snapshot EXCEPT ![w] = attempts[Current(w)]]
        /\ UNCHANGED <<status, attempts, batch, passes>>
        /\ pc' = [pc EXCEPT ![w] = "routes"]
    BY <1>2 DEF BeginAlert
  <2>2. attempts[Current(w)] < MaxAttempts
    BY <2>1 DEF RowInv, AttemptsBelowMax, Rows
  <2>3. QED
    BY <1>0, <2>1, <2>2 DEF PassInv, GivesUpOnlyAfterMaxAttempts, Current,
       InPass
<1>3. ASSUME NEW w \in Workers, FinishRetry(w) PROVE PassInv'
  <2>. DEFINE a == Current(w)
  <2>1. /\ a \in Alerts /\ pc[w] = "routes" /\ batch[w] # <<>>
        /\ snapshot[w] <= passes[a]
        /\ snapshot[w] + 1 < MaxAttempts
    BY <1>3 DEF FinishRetry, PassDone, RetriesRemain, TypeInv, WorkerInv,
       Working, PassInv, InPass
  <2>2. /\ attempts' = [attempts EXCEPT ![a] = snapshot[w] + 1]
        /\ passes' = [passes EXCEPT
                        ![a] = IF @ > MaxAttempts THEN @ ELSE @ + 1]
        /\ status' = status
    BY <1>3 DEF FinishRetry, ScheduleRetry, CountPass
  <2>3. /\ \A v \in Workers \ {w} : /\ pc'[v] = pc[v] /\ batch'[v] = batch[v]
                                     /\ snapshot'[v] = snapshot[v]
        /\ pc'[w] \in {"idle", "item"}
    BY <1>0, <1>3 DEF FinishRetry, Advance
  <2>4. \A b \in Alerts : passes[b] <= passes'[b]
    BY <1>0, <2>1, <2>2
  <2>5. \A b \in Alerts : attempts'[b] <= passes'[b]
    BY <1>0, <2>1, <2>2 DEF PassInv, Rows
  <2>6. \A v \in Workers : (InPass(v) /\ Current(v) \in Alerts)' =>
          /\ snapshot'[v] <= passes'[Current(v)']
          /\ snapshot'[v] < MaxAttempts
    <3>1. ASSUME NEW v \in Workers, (InPass(v) /\ Current(v) \in Alerts)'
          PROVE  snapshot'[v] <= passes'[Current(v)'] /\ snapshot'[v] < MaxAttempts
      <4>1. InPass(v) /\ v # w /\ batch'[v] = batch[v] /\ snapshot'[v] = snapshot[v]
        BY <1>0, <2>2, <2>3, <3>1 DEF InPass
      <4>2. Current(v)' = Current(v) /\ Current(v) \in Alerts
        BY <3>1, <4>1 DEF Current
      <4>3. snapshot[v] <= passes[Current(v)] /\ snapshot[v] < MaxAttempts
        BY <4>1, <4>2 DEF PassInv
      <4>4. /\ passes[Current(v)] \in Nat /\ passes'[Current(v)] \in Nat
            /\ passes[Current(v)] <= passes'[Current(v)]
        BY <1>0, <2>1, <2>2, <2>4, <4>2
      <4>5. QED
        BY <1>0, <4>1, <4>2, <4>3, <4>4
    <3>2. QED
      BY <3>1
  <2>7. \A b \in Alerts : status'[b] = "exhausted" => passes'[b] >= MaxAttempts
    BY <1>0, <2>2, <2>4 DEF PassInv, GivesUpOnlyAfterMaxAttempts
  <2>8. QED
    BY <2>5, <2>6, <2>7 DEF PassInv, GivesUpOnlyAfterMaxAttempts
<1>4. ASSUME NEW w \in Workers, FinishExhausted(w) PROVE PassInv'
  <2>. DEFINE a == Current(w)
  <2>1. /\ a \in Alerts /\ pc[w] = "routes"
        /\ snapshot[w] <= passes[a]
        /\ snapshot[w] + 1 >= MaxAttempts
    BY <1>0, <1>4 DEF FinishExhausted, PassDone, RetriesRemain, TypeInv,
       WorkerInv, PassInv, InPass
  <2>2. /\ attempts' = attempts
        /\ passes' = [passes EXCEPT
                        ![a] = IF @ > MaxAttempts THEN @ ELSE @ + 1]
        /\ status' = [status EXCEPT ![a] = IF @ = "pending" THEN "exhausted"
                                           ELSE @]
        /\ pc' = [pc EXCEPT ![w] = "giveUp"]
        /\ UNCHANGED <<batch, snapshot>>
    BY <1>4 DEF FinishExhausted, MarkProcessed, CountPass
  <2>3. /\ \A b \in Alerts : passes[b] <= passes'[b]
        /\ passes'[a] >= MaxAttempts
    BY <1>0, <2>1, <2>2
  <2>4. \A b \in Alerts : attempts'[b] <= passes'[b]
    BY <1>0, <2>2, <2>3 DEF PassInv, Rows
  <2>5. \A v \in Workers : (InPass(v) /\ Current(v) \in Alerts)' =>
          /\ snapshot'[v] <= passes'[Current(v)']
          /\ snapshot'[v] < MaxAttempts
    <3>1. ASSUME NEW v \in Workers, (InPass(v) /\ Current(v) \in Alerts)'
          PROVE  snapshot'[v] <= passes'[Current(v)'] /\ snapshot'[v] < MaxAttempts
      <4>1. InPass(v) /\ v # w /\ batch'[v] = batch[v] /\ snapshot'[v] = snapshot[v]
        BY <1>0, <2>2, <2>3, <3>1 DEF InPass
      <4>2. Current(v)' = Current(v) /\ Current(v) \in Alerts
        BY <3>1, <4>1 DEF Current
      <4>3. snapshot[v] <= passes[Current(v)] /\ snapshot[v] < MaxAttempts
        BY <4>1, <4>2 DEF PassInv
      <4>4. /\ passes[Current(v)] \in Nat /\ passes'[Current(v)] \in Nat
            /\ passes[Current(v)] <= passes'[Current(v)]
        BY <1>0, <2>1, <2>2, <2>3, <4>2
      <4>5. QED
        BY <1>0, <4>1, <4>2, <4>3, <4>4
    <3>2. QED
      BY <3>1
  <2>6. \A b \in Alerts : status'[b] = "exhausted" => passes'[b] >= MaxAttempts
    BY <1>0, <2>1, <2>2, <2>3 DEF PassInv, GivesUpOnlyAfterMaxAttempts, Rows
  <2>7. QED
    BY <2>4, <2>5, <2>6 DEF PassInv, GivesUpOnlyAfterMaxAttempts
<1>. DEFINE Frame ==
       /\ \A w \in Workers : InPass(w)' =>
            InPass(w) /\ batch'[w] = batch[w] /\ snapshot'[w] = snapshot[w]
       /\ UNCHANGED <<attempts, passes>>
       /\ \A a \in Alerts : status'[a] = "exhausted" => status[a] = "exhausted"
<1>5. Frame => PassInv'
  BY PassFrame
<1>6. ASSUME NEW w \in Workers,
             \/ DropUndeliverable(w) \/ TestUnaddressed(w) \/ TestUnreadable(w) \/ RecordTest(w)
             \/ FinishDelivered(w)   \/ SkipProcessed(w)  \/ OpenFailure(w)
      PROVE  Frame
  <2>1. Advance(w) /\ UNCHANGED <<attempts, passes>>
    BY <1>6 DEF DropUndeliverable, TestUnaddressed, TestUnreadable, RecordTest, FinishDelivered,
       SkipProcessed, OpenFailure, MarkProcessed
  <2>2. \A a \in Alerts : status'[a] = "exhausted" => status[a] = "exhausted"
    BY <1>0, <1>6 DEF DropUndeliverable, TestUnaddressed, TestUnreadable, RecordTest,
       FinishDelivered, SkipProcessed, OpenFailure, MarkProcessed, Rows
  <2>3. \A v \in Workers : InPass(v)' =>
            InPass(v) /\ batch'[v] = batch[v] /\ snapshot'[v] = snapshot[v]
    BY <1>0, <2>1 DEF Advance, InPass
  <2>4. QED
    BY <2>1, <2>2, <2>3
<1>7. ASSUME NEW w \in Workers,
             \/ SelectBatch(w) \/ ClaimRow(w)
             \/ SkipInactive(w) \/ FailUnreadable(w) \/ SendAlert(w)
             \/ RemoteAccepts(w) \/ RemoteFails(w) \/ RecordAlert(w)
      PROVE  Frame
  <2>1. UNCHANGED <<status, attempts, passes, snapshot>>
    BY <1>7 DEF SelectBatch, ClaimRow, SkipInactive, FailUnreadable, SendAlert,
       RemoteAccepts, RemoteFails, RecordAlert
  <2>2. \A v \in Workers : InPass(v)' => InPass(v) /\ batch'[v] = batch[v]
    BY <1>0, <1>7 DEF SelectBatch, ClaimRow, SkipInactive, FailUnreadable,
       SendAlert, RemoteAccepts, RemoteFails, RecordAlert, Await, InPass
  <2>3. QED
    BY <2>1, <2>2
<1>8. ASSUME NEW w \in Workers, Crash(w) PROVE Frame
  BY <1>0, <1>8 DEF Crash, InPass
<1>9. ASSUME Administration \/ Tick \/ UNCHANGED vars PROVE Frame
  BY <1>9 DEF Administration, DisableChannel, RemoveRoutes, ResolveFailure, Tick,
     vars, InPass
<1>. HIDE DEF Frame
<1>10. ASSUME NEW w \in Workers, BeginTest(w) PROVE PassInv'
  <2>1. Current(w) \notin Alerts
    BY <1>10 DEF BeginTest
  <2>2. /\ UNCHANGED <<status, attempts, passes, snapshot, batch>>
        /\ pc' = [pc EXCEPT ![w] = "awaiting"]
    BY <1>10 DEF BeginTest, Await
  <2>3. QED
    BY <1>0, <2>1, <2>2 DEF PassInv, GivesUpOnlyAfterMaxAttempts, Current,
       InPass
<1>11. ASSUME NEW w \in Workers, WorkerStep(w) PROVE PassInv'
  BY <1>2, <1>3, <1>4, <1>5, <1>6, <1>7, <1>10, <1>11 DEF WorkerStep
<1>12. QED
  BY <1>1, <1>5, <1>8, <1>9, <1>11 DEF Next

\* No pass has begun.
LEMMA InitPass == Init => PassInv
BY OutboxAssumption DEF Init, PassInv, GivesUpOnlyAfterMaxAttempts, InPass, Rows

\* No alert is given up before OUTBOX_MAX_ATTEMPTS passes over it have
\* failed, however many invocations overlap and overwrite each other.
THEOREM GivesUpLate == Spec => []GivesUpOnlyAfterMaxAttempts
<1>1. TypeInv /\ RowInv /\ PassInv /\ [Next]_vars => PassInv'
  BY PassStep
<1>2. PassInv => GivesUpOnlyAfterMaxAttempts
  BY DEF PassInv
<1>3. QED
  BY <1>1, <1>2, InitPass, TypeCorrect, RowInvariant, PTL DEF Spec

-----------------------------------------------------------------------------
(* Notified incidents                                                      *)

\* An endpoint has received alert a, and the attempt is on record as sent.
Delivered(a) == \E c \in Channels : <<a, c>> \in received \cap sentLog

\* What a worker believes to have sent was received: the answer it is about
\* to record, and the success it remembers for its current alert.
SentInv ==
    /\ \A w \in Workers : pc[w] = "record" /\ answer[w] = "sent" =>
          <<Current(w), target[w]>> \in received
    /\ \A w \in Workers : InPass(w) /\ Current(w) \in Alerts /\ "sent" \in results[w]
          => Delivered(Current(w))
    /\ NotifiedWasReceived

\* A step under which no worker comes nearer to a success keeps SentInv.
LEMMA SentFrame ==
    ASSUME SentInv,
           \A w \in Workers : InPass(w)' =>
              /\ InPass(w) /\ batch'[w] = batch[w] /\ results'[w] = results[w]
              /\ pc'[w] = "record" => /\ pc[w] = "record"
                                      /\ answer'[w] = answer[w]
                                      /\ target'[w] = target[w],
           received \subseteq received', sentLog \subseteq sentLog',
           notified' = notified
    PROVE  SentInv'
<1>1. \A w \in Workers : (pc[w] = "record" /\ answer[w] = "sent")' =>
         <<Current(w)', target'[w]>> \in received'
  BY DEF SentInv, InPass, Current
<1>2. \A a : Delivered(a) => Delivered(a)'
  BY DEF Delivered
<1>3. \A w \in Workers :
         (InPass(w) /\ Current(w) \in Alerts /\ "sent" \in results[w])'
           => Delivered(Current(w))'
  BY <1>2 DEF SentInv, Current, Delivered
<1>4. NotifiedWasReceived'
  BY DEF SentInv, NotifiedWasReceived
<1>5. QED
  BY <1>1, <1>3, <1>4 DEF SentInv

\* Every step keeps what the receivers have been sent.
LEMMA SentStep ==
    ASSUME TypeInv, SentInv, [Next]_vars
    PROVE  SentInv'
<1>. USE DEF rowVars, channelVars, passVars, workerVars
<1>0. /\ pc \in [Workers -> {"idle", "awaiting"} \cup Synchronous]
      /\ batch \in [Workers -> Seq(Rows)]
      /\ answer \in [Workers -> Outcome]
      /\ results \in [Workers -> SUBSET Outcome]
      /\ target \in [Workers -> Channels \cup {NoChannel}]
  BY DEF TypeInv, TypeOK
<1>. DEFINE Quiet(v) ==
       InPass(v)' =>
         /\ InPass(v) /\ batch'[v] = batch[v] /\ results'[v] = results[v]
         /\ pc'[v] = "record" => /\ pc[v] = "record"
                                 /\ answer'[v] = answer[v]
                                 /\ target'[v] = target[v]
<1>. DEFINE Frame == /\ \A v \in Workers : Quiet(v)
                     /\ received \subseteq received'
                     /\ sentLog \subseteq sentLog'
                     /\ notified' = notified
<1>1. Frame => SentInv'
  BY SentFrame
<1>2. ASSUME NEW w \in Workers,
             \/ SelectBatch(w) \/ ClaimRow(w) \/ SkipInactive(w) \/ SendAlert(w)
             \/ FinishExhausted(w)
      PROVE  Frame
  <2>1. UNCHANGED <<received, sentLog, notified, results, answer>>
    BY <1>2 DEF SelectBatch, ClaimRow, SkipInactive, SendAlert, FinishExhausted
  <2>2. \A v \in Workers : Quiet(v)
    BY <1>0, <1>2, <2>1 DEF SelectBatch, ClaimRow, SkipInactive, SendAlert,
       FinishExhausted, Await, InPass
  <2>3. QED
    BY <2>1, <2>2
<1>3. ASSUME NEW w \in Workers, Advance(w)
      PROVE  \A v \in Workers : Quiet(v)
  BY <1>0, <1>3 DEF Advance, InPass
<1>4. ASSUME NEW w \in Workers,
             \/ SkipProcessed(w) \/ DropUndeliverable(w) \/ TestUnaddressed(w) \/ TestUnreadable(w)
             \/ RecordTest(w)    \/ FinishRetry(w)       \/ OpenFailure(w)
      PROVE  Frame
  <2>1. Advance(w) /\ UNCHANGED <<received, notified>>
    BY <1>4 DEF SkipProcessed, DropUndeliverable, TestUnaddressed, TestUnreadable, RecordTest,
       FinishRetry, OpenFailure
  <2>2. sentLog \subseteq sentLog'
    BY <1>4 DEF SkipProcessed, DropUndeliverable, TestUnaddressed, TestUnreadable, RecordTest,
       RecordAttempt, FinishRetry, OpenFailure
  <2>3. QED
    BY <1>3, <2>1, <2>2
<1>5. ASSUME NEW w \in Workers, FinishDelivered(w) PROVE SentInv'
  <2>1. /\ Current(w) \in Alerts /\ InPass(w) /\ "sent" \in results[w]
        /\ notified' = notified \cup {IncidentOf[Current(w)]}
        /\ UNCHANGED <<received, sentLog>> /\ Advance(w)
    BY <1>5 DEF FinishDelivered, PassDone, AllSent, TypeInv, WorkerInv, InPass
  <2>2. Delivered(Current(w))
    BY <2>1 DEF SentInv
  <2>3. NotifiedWasReceived'
    BY <2>1, <2>2 DEF SentInv, NotifiedWasReceived, Delivered
  <2>4. \A v \in Workers : Quiet(v)
    BY <1>3, <2>1
  <2>5. /\ \A v \in Workers : (pc[v] = "record" /\ answer[v] = "sent")' =>
              <<Current(v)', target'[v]>> \in received'
        /\ \A v \in Workers :
              (InPass(v) /\ Current(v) \in Alerts /\ "sent" \in results[v])'
                => Delivered(Current(v))'
    BY <2>1, <2>4 DEF SentInv, InPass, Current, Delivered
  <2>6. QED
    BY <2>3, <2>5 DEF SentInv
<1>6. ASSUME NEW w \in Workers, BeginAlert(w) \/ BeginTest(w) PROVE SentInv'
  <2>1. /\ UNCHANGED <<received, sentLog, notified, batch, answer>>
        /\ \A v \in Workers \ {w} : /\ pc'[v] = pc[v] /\ results'[v] = results[v]
                                    /\ target'[v] = target[v]
        /\ pc'[w] \in {"routes", "awaiting"}
        /\ Current(w) \in Alerts => results'[w] = {}
    <3>1. CASE BeginAlert(w)
      BY <1>0, <3>1 DEF BeginAlert
    <3>2. CASE BeginTest(w)
      BY <1>0, <3>2, OutboxAssumption DEF BeginTest, Await
    <3>3. QED
      BY <1>6, <3>1, <3>2
  <2>2. QED
    BY <2>1 DEF SentInv, NotifiedWasReceived, InPass, Current, Delivered
<1>7. ASSUME NEW w \in Workers, FailUnreadable(w) PROVE SentInv'
  <2>1. /\ UNCHANGED <<received, sentLog, notified, batch, answer, pc, target>>
        /\ results' = [results EXCEPT ![w] = @ \cup {"failed"}]
    BY <1>7 DEF FailUnreadable, RecordAttempt
  <2>2. \A v \in Workers : "sent" \in results'[v] => "sent" \in results[v]
    BY <1>0, <2>1
  <2>3. QED
    BY <2>1, <2>2 DEF SentInv, NotifiedWasReceived, InPass, Current, Delivered
<1>8. ASSUME NEW w \in Workers, RemoteAccepts(w) \/ RemoteFails(w)
      PROVE  SentInv'
  <2>1. /\ UNCHANGED <<sentLog, notified, batch, results, target>>
        /\ received \subseteq received'
        /\ pc[w] = "awaiting"
        /\ pc' = [pc EXCEPT ![w] = "record"]
        /\ \A v \in Workers \ {w} : answer'[v] = answer[v]
        /\ answer'[w] = "sent" => <<Current(w), target[w]>> \in received'
    BY <1>0, <1>8 DEF RemoteAccepts, RemoteFails
  <2>2. \A v \in Workers : (pc[v] = "record" /\ answer[v] = "sent")' =>
           <<Current(v)', target'[v]>> \in received'
    BY <1>0, <2>1 DEF SentInv, Current
  <2>3. \A v \in Workers :
           (InPass(v) /\ Current(v) \in Alerts /\ "sent" \in results[v])'
             => Delivered(Current(v))'
    BY <1>0, <2>1 DEF SentInv, InPass, Current, Delivered
  <2>4. NotifiedWasReceived'
    BY <2>1 DEF SentInv, NotifiedWasReceived
  <2>5. QED
    BY <2>2, <2>3, <2>4 DEF SentInv
<1>9. ASSUME NEW w \in Workers, RecordAlert(w) PROVE SentInv'
  <2>1. /\ UNCHANGED <<received, notified, batch>>
        /\ pc[w] = "record" /\ pc' = [pc EXCEPT ![w] = "routes"]
        /\ results' = [results EXCEPT ![w] = @ \cup {answer[w]}]
        /\ target' = [target EXCEPT ![w] = NoChannel]
        /\ answer' = answer
        /\ sentLog' = IF answer[w] = "sent"
                        THEN sentLog \cup {<<Current(w), target[w]>>}
                        ELSE sentLog
    BY <1>9 DEF RecordAlert, RecordAttempt
  <2>2. target[w] \in Channels
    BY <2>1 DEF TypeInv, WorkerInv
  <2>3. sentLog \subseteq sentLog'
    BY <2>1
  <2>4. answer[w] = "sent" => Delivered(Current(w))'
    BY <2>1, <2>2 DEF SentInv, Delivered, Current
  <2>5. ASSUME NEW v \in Workers,
               (InPass(v) /\ Current(v) \in Alerts /\ "sent" \in results[v])'
        PROVE  Delivered(Current(v))'
    <3>1. InPass(v) /\ Current(v)' = Current(v)
      BY <1>0, <2>1, <2>5 DEF InPass, Current
    <3>2. CASE "sent" \in results[v]
      BY <2>1, <2>3, <2>5, <3>1, <3>2 DEF SentInv, Delivered, Current
    <3>3. CASE "sent" \notin results[v]
      <4>1. v = w /\ answer[w] = "sent"
        BY <1>0, <2>1, <2>5, <3>3
      <4>2. QED
        BY <2>4, <4>1
    <3>4. QED
      BY <3>2, <3>3
  <2>6. NotifiedWasReceived'
    BY <2>1, <2>3 DEF SentInv, NotifiedWasReceived
  <2>7. \A v \in Workers : (pc[v] = "record" /\ answer[v] = "sent")' =>
           <<Current(v)', target'[v]>> \in received'
    BY <1>0, <2>1 DEF SentInv, Current
  <2>8. QED
    BY <2>5, <2>6, <2>7 DEF SentInv
<1>10. ASSUME NEW w \in Workers, Crash(w) PROVE Frame
  BY <1>0, <1>10 DEF Crash, InPass
<1>11. ASSUME \/ \E r \in Rows : Enqueue(r)
              \/ Administration \/ Tick \/ UNCHANGED vars
       PROVE  Frame
  BY <1>11 DEF Enqueue, Administration, DisableChannel, RemoveRoutes,
     ResolveFailure, Tick, vars, InPass
<1>. HIDE DEF Frame
<1>12. ASSUME NEW w \in Workers, WorkerStep(w) PROVE SentInv'
  BY <1>1, <1>2, <1>4, <1>5, <1>6, <1>7, <1>8, <1>9, <1>12 DEF WorkerStep
<1>13. QED
  BY <1>1, <1>10, <1>11, <1>12 DEF Next

\* Nothing has been sent.
LEMMA InitSent == Init => SentInv
BY DEF Init, SentInv, InPass, NotifiedWasReceived

\* An incident is marked notified only if some endpoint has received an alert
\* about it and that delivery is on record.
THEOREM NotifiedTruthful == Spec => []NotifiedWasReceived
<1>1. TypeInv /\ SentInv /\ [Next]_vars => SentInv'
  BY SentStep
<1>2. SentInv => NotifiedWasReceived
  BY DEF SentInv
<1>3. QED
  BY <1>1, <1>2, InitSent, TypeCorrect, PTL DEF Spec
-----------------------------------------------------------------------------
(* Exclusive claims                                                        *)

\* A row is one of the rows of a batch or of a selection.
In(r, rows) == \E i \in DOMAIN rows : rows[i] = r

\* No invocation is at the end of a pass while another one is between its
\* SELECT and its last conditional UPDATE.  Within a process this holds, both
\* being executed without yielding; another process may do otherwise.
ClaimsUndisturbed ==
    \A v, w \in Workers : v # w /\ pc[w] = "claiming" => pc[v] # "routes"

\* Why a row that an invocation holds on a running lease cannot be claimed:
\* it is settled, or leased, or scheduled for later, for no less long.
KeptFrom(w, r) ==
    Processed(r) \/ lease[r] >= claimLeft[w] \/ availIn[r] >= claimLeft[w]

HoldInv ==
    /\ \A w \in Workers, r \in Rows :
          pc[w] = "claiming" /\ In(r, candidates[w]) => availIn[r] <= 0
    /\ \A w \in Workers, r \in Rows : In(r, batch[w]) =>
          status[r] # "absent" /\ (claimLeft[w] > 0 => KeptFrom(w, r))
    /\ \A v, w \in Workers, r \in Rows :
          /\ v # w
          /\ In(r, batch[v]) /\ claimLeft[v] > 0
          /\ In(r, batch[w]) /\ claimLeft[w] > 0
          => FALSE

\* What is left of a sequence holds nothing new.
LEMMA InTail ==
    ASSUME NEW S, NEW s \in Seq(S), s # <<>>
    PROVE  /\ In(Head(s), s) /\ Head(s) \in S
           /\ \A x : In(x, Tail(s)) => In(x, s)
<1>1. /\ Tail(s) \in Seq(S) /\ Len(Tail(s)) = Len(s) - 1
      /\ \A i \in 1 .. Len(Tail(s)) : Tail(s)[i] = s[i + 1]
      /\ Head(s) = s[1] /\ Head(s) \in S
  BY HeadTailProperties
<1>2. Len(s) \in Nat /\ DOMAIN s = 1 .. Len(s) /\ Len(s) # 0
  BY EmptySeq, LenProperties
<1>3. DOMAIN Tail(s) = 1 .. Len(Tail(s))
  BY <1>1, LenProperties
<1>4. QED
  BY <1>1, <1>2, <1>3 DEF In

\* A claimed row is added to the batch, and nothing else.
LEMMA InAppend ==
    ASSUME NEW S, NEW s \in Seq(S), NEW e \in S
    PROVE  \A x : In(x, Append(s, e)) => In(x, s) \/ x = e
<1>1. /\ Len(Append(s, e)) = Len(s) + 1
      /\ \A i \in 1 .. Len(s) : Append(s, e)[i] = s[i]
      /\ Append(s, e)[Len(s) + 1] = e
      /\ Append(s, e) \in Seq(S)
  BY AppendProperties
<1>2. Len(s) \in Nat /\ DOMAIN s = 1 .. Len(s)
  BY LenProperties
<1>3. DOMAIN Append(s, e) = 1 .. Len(s) + 1
  BY <1>1, LenProperties
<1>4. QED
  BY <1>1, <1>2, <1>3 DEF In

\* A row that is scheduled again waits for RetryBase at least.
LEMMA RetryWaits ==
    ASSUME NEW b \in Nat, NEW n \in Nat
    PROVE  b * (n + 1) \in Int /\ b * (n + 1) >= b
<1>1. b * (n + 1) = b * n + b /\ b * n \in Nat
  OBVIOUS
<1>2. QED
  BY <1>1

\* A step that claims no row and moves no clock, and after which a row is as
\* hard to claim as before, keeps HoldInv.
LEMMA HoldFrame ==
    ASSUME TypeInv, HoldInv,
           \A w \in Workers, r \in Rows : In(r, batch'[w]) =>
              In(r, batch[w]) /\ claimLeft'[w] = claimLeft[w],
           \A w \in Workers, r \in Rows :
              pc'[w] = "claiming" /\ In(r, candidates'[w]) =>
                /\ pc[w] = "claiming" /\ In(r, candidates[w])
                /\ availIn[r] <= 0 => availIn'[r] <= 0,
           \A r \in Rows : status[r] # "absent" =>
              /\ status'[r] # "absent"
              /\ Processed(r) => Processed(r)'
              /\ \/ Processed(r)'
                 \/ lease'[r] = lease[r] /\ availIn'[r] = availIn[r]
                 \/ availIn'[r] \in Int /\ availIn'[r] >= ClaimTtl
    PROVE  HoldInv'
<1>1. ASSUME NEW w \in Workers, NEW r \in Rows, In(r, batch'[w])
      PROVE  status'[r] # "absent" /\ (claimLeft'[w] > 0 => KeptFrom(w, r)')
  <2>1. /\ In(r, batch[w]) /\ claimLeft'[w] = claimLeft[w]
        /\ status[r] # "absent"
    BY <1>1 DEF HoldInv
  <2>2. /\ status'[r] # "absent"
        /\ Processed(r) => Processed(r)'
        /\ \/ Processed(r)'
           \/ lease'[r] = lease[r] /\ availIn'[r] = availIn[r]
           \/ availIn'[r] \in Int /\ availIn'[r] >= ClaimTtl
    BY <2>1
  <2>3. claimLeft[w] > 0 => KeptFrom(w, r)
    BY <2>1 DEF HoldInv
  <2>4. claimLeft[w] \in NoLease .. ClaimTtl /\ ClaimTtl \in Nat
    BY OutboxAssumption DEF TypeInv, TypeOK
  <2>5. QED
    BY <2>1, <2>2, <2>3, <2>4 DEF KeptFrom, NoLease
<1>2. QED
  BY <1>1 DEF HoldInv

\* The rows a SELECT returns are due.
LEMMA SelectionIsDue ==
    ASSUME TypeInv, NEW w \in Workers, SelectBatch(w)
    PROVE  \A r \in Rows : In(r, candidates'[w]) => availIn[r] <= 0
<1>1. PICK n \in 1 .. BatchLimit : \E s \in [1 .. n -> Due] :
         candidates' = [candidates EXCEPT ![w] = s]
  BY DEF SelectBatch
<1>2. PICK s \in [1 .. n -> Due] : candidates' = [candidates EXCEPT ![w] = s]
  BY <1>1
<1>3. candidates'[w] = s
  BY <1>2 DEF TypeInv, TypeOK
<1>4. QED
  BY <1>2, <1>3 DEF In, Due

\* A claim takes the first of the rows selected, if it can be taken.
LEMMA ClaimDoes ==
    ASSUME TypeInv, NEW w \in Workers, ClaimRow(w),
           NEW r, r = Head(candidates[w])
    PROVE  /\ r \in Rows /\ In(r, candidates[w])
           /\ \A x : In(x, candidates'[w]) => In(x, candidates[w])
           /\ \A v \in Workers : v # w =>
                 candidates'[v] = candidates[v] /\ batch'[v] = batch[v]
                 /\ pc'[v] = pc[v]
           /\ \A x : In(x, batch'[w]) => In(x, batch[w]) \/ (x = r /\ Claimable(r))
           /\ \A x \in Rows : lease'[x] = IF x = r /\ Claimable(r) THEN ClaimTtl
                                          ELSE lease[x]
           /\ UNCHANGED <<status, availIn, claimLeft>>
<1>0. /\ pc \in [Workers -> {"idle", "awaiting"} \cup Synchronous]
      /\ candidates \in [Workers -> Seq(Rows)]
      /\ batch \in [Workers -> Seq(Rows)]
      /\ lease \in [Rows -> NoLease .. ClaimTtl]
      /\ candidates[w] # <<>>
  BY DEF TypeInv, TypeOK, WorkerInv, ClaimRow
<1>1. /\ r \in Rows /\ In(r, candidates[w])
      /\ \A x : In(x, Tail(candidates[w])) => In(x, candidates[w])
  <2>1. candidates[w] \in Seq(Rows)
    BY <1>0
  <2>2. QED
    BY <1>0, <2>1, InTail
<1>. DEFINE mine == IF Claimable(r) THEN Append(batch[w], r) ELSE batch[w]
<1>2. /\ lease' = [lease EXCEPT ![r] = IF Claimable(r) THEN ClaimTtl ELSE @]
      /\ batch' = [batch EXCEPT ![w] = mine]
      /\ candidates' = [candidates EXCEPT ![w] = Tail(@)]
      /\ \A v \in Workers : v # w => pc'[v] = pc[v]
      /\ UNCHANGED <<status, availIn, claimLeft>>
  BY <1>0 DEF ClaimRow
<1>3. \A x : In(x, mine) => In(x, batch[w]) \/ (x = r /\ Claimable(r))
  <2>1. batch[w] \in Seq(Rows)
    BY <1>0
  <2>2. \A x : In(x, Append(batch[w], r)) => In(x, batch[w]) \/ x = r
    BY <1>1, <2>1, InAppend
  <2>3. CASE Claimable(r)
    BY <2>2, <2>3
  <2>4. CASE ~Claimable(r)
    BY <2>4
  <2>5. QED
    BY <2>3, <2>4
<1>. HIDE DEF mine
<1>4. QED
  BY <1>0, <1>1, <1>2, <1>3

\* No step lets a second invocation hold a row, if a row that is scheduled
\* again waits out the leases that may run.
LEMMA HoldStep ==
    ASSUME TypeInv, ClaimsUndisturbed, RetryBase >= ClaimTtl, HoldInv, [Next]_vars
    PROVE  HoldInv'
<1>. USE DEF rowVars, channelVars, passVars, workerVars
<1>0. /\ status \in [Rows -> {"absent", "pending"} \cup Settled]
      /\ availIn \in [Rows -> Int]
      /\ lease \in [Rows -> NoLease .. ClaimTtl]
      /\ pc \in [Workers -> {"idle", "awaiting"} \cup Synchronous]
      /\ candidates \in [Workers -> Seq(Rows)]
      /\ batch \in [Workers -> Seq(Rows)]
      /\ claimLeft \in [Workers -> NoLease .. ClaimTtl]
      /\ snapshot \in [Workers -> Nat]
      /\ ClaimTtl \in Nat \ {0} /\ RetryBase \in Nat \ {0}
  BY OutboxAssumption DEF TypeInv, TypeOK
<1>. DEFINE Batches == \A w \in Workers, r \in Rows : In(r, batch'[w]) =>
                          In(r, batch[w]) /\ claimLeft'[w] = claimLeft[w]
<1>. DEFINE Selections ==
       \A w \in Workers, r \in Rows :
          pc'[w] = "claiming" /\ In(r, candidates'[w]) =>
            /\ pc[w] = "claiming" /\ In(r, candidates[w])
            /\ availIn[r] <= 0 => availIn'[r] <= 0
<1>. DEFINE RowsKept ==
       \A r \in Rows : status[r] # "absent" =>
          /\ status'[r] # "absent"
          /\ Processed(r) => Processed(r)'
          /\ \/ Processed(r)'
             \/ lease'[r] = lease[r] /\ availIn'[r] = availIn[r]
             \/ availIn'[r] \in Int /\ availIn'[r] >= ClaimTtl
<1>1. Batches /\ Selections /\ RowsKept => HoldInv'
  BY HoldFrame
<1>2. ASSUME UNCHANGED <<status, lease, availIn>> PROVE RowsKept
  BY <1>2 DEF Processed
<1>3. ASSUME NEW r \in Rows, NEW how \in Settled, MarkProcessed(r, how)
      PROVE  RowsKept
  BY <1>0, <1>3 DEF MarkProcessed, Processed, Settled
<1>4. ASSUME NEW w \in Workers, Advance(w), pc[w] \in Working
      PROVE  Batches /\ (UNCHANGED availIn => Selections)
  <2>1. batch[w] \in Seq(Rows) /\ batch[w] # <<>>
    BY <1>4, CurrentIsRow
  <2>2. \A x : In(x, Tail(batch[w])) => In(x, batch[w])
    BY <2>1, InTail
  <2>3. /\ batch' = [batch EXCEPT ![w] = Tail(@)]
        /\ pc' = [pc EXCEPT ![w] = IF Len(batch[w]) = 1 THEN "idle" ELSE "item"]
        /\ UNCHANGED <<candidates, claimLeft>>
    BY <1>4 DEF Advance
  <2>4. QED
    BY <1>0, <2>2, <2>3
<1>5. ASSUME NEW w \in Workers,
             \/ DropUndeliverable(w) \/ TestUnaddressed(w) \/ TestUnreadable(w) \/ RecordTest(w)
             \/ FinishDelivered(w)
      PROVE  HoldInv'
  <2>1. Current(w) \in Rows /\ pc[w] \in Working
    BY <1>5, CurrentIsRow DEF DropUndeliverable, TestUnaddressed, TestUnreadable, RecordTest,
       FinishDelivered, PassDone, Working
  <2>2. PICK how \in Settled : MarkProcessed(Current(w), how)
    BY <1>5 DEF DropUndeliverable, TestUnaddressed, TestUnreadable, RecordTest, FinishDelivered,
       Settled
  <2>3. Advance(w) /\ UNCHANGED availIn
    BY <1>5, <2>2 DEF DropUndeliverable, TestUnaddressed, TestUnreadable, RecordTest,
       FinishDelivered, MarkProcessed
  <2>4. QED
    BY <1>1, <1>3, <1>4, <2>1, <2>2, <2>3
<1>6. ASSUME NEW w \in Workers, SkipProcessed(w) \/ OpenFailure(w) PROVE HoldInv'
  <2>1. Advance(w) /\ UNCHANGED <<status, lease, availIn>> /\ pc[w] \in Working
    BY <1>6 DEF SkipProcessed, OpenFailure, Working
  <2>2. QED
    BY <1>1, <1>2, <1>4, <2>1
<1>7. ASSUME NEW w \in Workers, FinishRetry(w) PROVE HoldInv'
  <2>1. Current(w) \in Rows /\ pc[w] = "routes" /\ Advance(w)
    BY <1>7, CurrentIsRow DEF FinishRetry, PassDone, Working
  <2>2. /\ availIn' = [availIn EXCEPT ![Current(w)] = RetryBase * (snapshot[w] + 1)]
        /\ lease' = [lease EXCEPT ![Current(w)] = NoLease]
        /\ status' = status
    BY <1>7 DEF FinishRetry, ScheduleRetry
  <2>3. /\ RetryBase * (snapshot[w] + 1) \in Int
        /\ RetryBase * (snapshot[w] + 1) >= RetryBase
    <3>1. RetryBase \in Nat /\ snapshot[w] \in Nat
      BY <1>0
    <3>2. QED
      BY <3>1, RetryWaits
  <2>. DEFINE wait == RetryBase * (snapshot[w] + 1)
  <2>4. wait \in Int /\ wait >= ClaimTtl
    BY <1>0, <2>3
  <2>5. availIn' = [availIn EXCEPT ![Current(w)] = wait]
    BY <2>2
  <2>. HIDE DEF wait
  <2>6. RowsKept
    BY <1>0, <2>1, <2>2, <2>4, <2>5 DEF Processed
  <2>7. \A v \in Workers : pc'[v] # "claiming"
    BY <1>0, <2>1 DEF Advance, ClaimsUndisturbed
  <2>8. Batches
    BY <1>4, <2>1 DEF Working
  <2>9. QED
    BY <1>1, <2>6, <2>7, <2>8
<1>8. ASSUME NEW w \in Workers, FinishExhausted(w) PROVE HoldInv'
  <2>1. Current(w) \in Rows
    BY <1>8, CurrentIsRow DEF FinishExhausted, PassDone, Working
  <2>2. /\ MarkProcessed(Current(w), "exhausted") /\ UNCHANGED availIn
        /\ pc' = [pc EXCEPT ![w] = "giveUp"]
        /\ UNCHANGED <<candidates, batch, claimLeft>>
    BY <1>8 DEF FinishExhausted, MarkProcessed
  <2>3. RowsKept
    BY <1>3, <2>1, <2>2 DEF Settled
  <2>4. Batches /\ Selections
    BY <1>0, <2>2
  <2>5. QED
    BY <1>1, <2>3, <2>4
<1>9. ASSUME NEW w \in Workers,
             \/ BeginAlert(w) \/ BeginTest(w) \/ SkipInactive(w)
             \/ FailUnreadable(w) \/ SendAlert(w) \/ RemoteAccepts(w)
             \/ RemoteFails(w) \/ RecordAlert(w)
      PROVE  HoldInv'
  <2>1. UNCHANGED <<status, lease, availIn, candidates, batch, claimLeft>>
    BY <1>9 DEF BeginAlert, BeginTest, SkipInactive, FailUnreadable, SendAlert,
       RemoteAccepts, RemoteFails, RecordAlert
  <2>2. \A v \in Workers : pc'[v] = "claiming" => pc[v] = "claiming"
    BY <1>0, <1>9 DEF BeginAlert, BeginTest, SkipInactive, FailUnreadable,
       SendAlert, RemoteAccepts, RemoteFails, RecordAlert, Await
  <2>3. QED
    BY <1>1, <1>2, <2>1, <2>2
<1>10. ASSUME NEW w \in Workers, SelectBatch(w) PROVE HoldInv'
  <2>1. \A r \in Rows : In(r, candidates'[w]) => availIn[r] <= 0
    BY <1>10, SelectionIsDue
  <2>2. /\ UNCHANGED <<status, lease, availIn>>
        /\ \A v \in Workers : v # w =>
              /\ candidates'[v] = candidates[v] /\ batch'[v] = batch[v]
              /\ pc'[v] = pc[v] /\ claimLeft'[v] = claimLeft[v]
        /\ \A r : ~In(r, batch'[w])
    BY <1>0, <1>10 DEF SelectBatch, In
  <2>3. QED
    BY <2>1, <2>2 DEF HoldInv, KeptFrom, Processed
<1>11. ASSUME NEW w \in Workers, ClaimRow(w) PROVE HoldInv'
  <2>1. PICK r : r = Head(candidates[w])
    OBVIOUS
  <2>2. /\ r \in Rows /\ In(r, candidates[w])
        /\ \A x : In(x, candidates'[w]) => In(x, candidates[w])
        /\ \A v \in Workers : v # w =>
              candidates'[v] = candidates[v] /\ batch'[v] = batch[v]
              /\ pc'[v] = pc[v]
        /\ \A x : In(x, batch'[w]) => In(x, batch[w]) \/ (x = r /\ Claimable(r))
        /\ \A x \in Rows : lease'[x] = IF x = r /\ Claimable(r) THEN ClaimTtl
                                       ELSE lease[x]
        /\ UNCHANGED <<status, availIn, claimLeft>>
    BY <1>11, <2>1, ClaimDoes
  <2>3. pc[w] = "claiming"
    BY <1>11 DEF ClaimRow
  <2>4. \A v \in Workers, x \in Rows :
           pc'[v] = "claiming" /\ In(x, candidates'[v]) => availIn'[x] <= 0
    BY <2>2, <2>3 DEF HoldInv
  <2>5. ASSUME Claimable(r), NEW v \in Workers, In(r, batch[v])
        PROVE  claimLeft[v] <= 0
    <3>1. availIn[r] <= 0 /\ lease[r] = -1 /\ ~Processed(r)
      BY <2>2, <2>3, <2>5 DEF HoldInv, Claimable, Processed, Settled, NoLease
    <3>2. claimLeft[v] > 0 => KeptFrom(v, r)
      BY <2>2, <2>5 DEF HoldInv
    <3>3. claimLeft[v] \in Int /\ availIn[r] \in Int
      BY <1>0, <2>2 DEF NoLease
    <3>4. QED
      BY <3>1, <3>2, <3>3 DEF KeptFrom
  <2>6. \A v \in Workers, x \in Rows : In(x, batch'[v]) =>
           In(x, batch[v]) \/ (v = w /\ x = r /\ Claimable(r))
    BY <2>2
  <2>7. ASSUME NEW v \in Workers, NEW x \in Rows, In(x, batch'[v])
        PROVE  status'[x] # "absent" /\ (claimLeft'[v] > 0 => KeptFrom(v, x)')
    <3>1. CASE x = r /\ Claimable(r)
      BY <1>0, <2>2, <3>1 DEF KeptFrom, Claimable, NoLease
    <3>2. CASE ~(x = r /\ Claimable(r))
      BY <1>0, <2>2, <2>6, <2>7, <3>2 DEF HoldInv, KeptFrom, Processed
    <3>3. QED
      BY <3>1, <3>2
  <2>8. ASSUME NEW u \in Workers, NEW v \in Workers, NEW x \in Rows, u # v,
               In(x, batch'[u]), claimLeft'[u] > 0, In(x, batch'[v]), claimLeft'[v] > 0
        PROVE  FALSE
    <3>1. claimLeft[u] > 0 /\ claimLeft[v] > 0
      BY <2>2, <2>8
    <3>2. CASE x = r /\ Claimable(r)
      <4>1. ~In(x, batch[u]) /\ ~In(x, batch[v])
        BY <1>0, <2>5, <3>1, <3>2
      <4>2. u = w /\ v = w
        BY <2>6, <2>8, <4>1
      <4>3. QED
        BY <2>8, <4>2
    <3>3. CASE ~(x = r /\ Claimable(r))
      BY <2>6, <2>8, <3>1, <3>3 DEF HoldInv
    <3>4. QED
      BY <3>2, <3>3
  <2>9. QED
    BY <2>4, <2>7, <2>8 DEF HoldInv
<1>12. ASSUME NEW w \in Workers, WorkerStep(w) PROVE HoldInv'
  BY <1>5, <1>6, <1>7, <1>8, <1>9, <1>10, <1>11, <1>12 DEF WorkerStep
<1>13. ASSUME NEW w \in Workers, Crash(w) PROVE HoldInv'
  <2>1. /\ UNCHANGED <<status, lease, availIn>>
        /\ \A v \in Workers : v # w =>
              /\ candidates'[v] = candidates[v] /\ batch'[v] = batch[v]
              /\ pc'[v] = pc[v] /\ claimLeft'[v] = claimLeft[v]
        /\ \A r : ~In(r, batch'[w]) /\ ~In(r, candidates'[w])
    BY <1>0, <1>13 DEF Crash, In
  <2>2. QED
    BY <2>1 DEF HoldInv, KeptFrom, Processed
<1>14. ASSUME NEW r \in Rows, Enqueue(r) PROVE HoldInv'
  <2>1. /\ UNCHANGED <<pc, candidates, batch, claimLeft>>
        /\ status[r] = "absent"
        /\ \A x \in Rows : x # r => /\ status'[x] = status[x]
                                    /\ lease'[x] = lease[x]
                                    /\ availIn'[x] = availIn[x]
        /\ availIn'[r] = 0
    BY <1>0, <1>14 DEF Enqueue
  <2>2. RowsKept
    BY <2>1 DEF Processed
  <2>3. Batches /\ Selections
    BY <2>1
  <2>4. QED
    BY <1>1, <2>2, <2>3
<1>15. ASSUME Administration \/ UNCHANGED vars PROVE HoldInv'
  <2>1. UNCHANGED <<status, lease, availIn, pc, candidates, batch, claimLeft>>
    BY <1>15 DEF Administration, DisableChannel, RemoveRoutes, ResolveFailure, vars
  <2>2. Batches /\ Selections
    BY <2>1
  <2>3. QED
    BY <1>1, <1>2, <2>1, <2>2
<1>16. ASSUME Tick PROVE HoldInv'
  <2>1. /\ \A w \in Workers : pc[w] # "claiming"
        /\ UNCHANGED <<status, pc, batch>>
        /\ \A r \in Rows : /\ availIn'[r] \in {availIn[r], availIn[r] - 1}
                           /\ lease'[r] = IF lease[r] > NoLease THEN lease[r] - 1
                                          ELSE NoLease
        /\ \A w \in Workers : claimLeft'[w] = IF claimLeft[w] > NoLease
                                              THEN claimLeft[w] - 1 ELSE NoLease
    BY <1>0, <1>16 DEF Tick, Synchronous
  <2>2. \A w \in Workers : claimLeft'[w] > 0 =>
           claimLeft[w] > 0 /\ claimLeft'[w] = claimLeft[w] - 1
    BY <1>0, <2>1 DEF NoLease
  <2>3. ASSUME NEW w \in Workers, NEW r \in Rows, In(r, batch'[w])
        PROVE  status'[r] # "absent" /\ (claimLeft'[w] > 0 => KeptFrom(w, r)')
    <3>1. status[r] # "absent" /\ (claimLeft[w] > 0 => KeptFrom(w, r))
      BY <2>1, <2>3 DEF HoldInv
    <3>2. ASSUME claimLeft'[w] > 0 PROVE KeptFrom(w, r)'
      <4>1. /\ claimLeft[w] > 0 /\ claimLeft'[w] = claimLeft[w] - 1
            /\ KeptFrom(w, r)
        BY <2>2, <3>1, <3>2
      <4>2. /\ claimLeft[w] \in Int /\ availIn[r] \in Int /\ lease[r] \in Int
            /\ availIn'[r] \in {availIn[r], availIn[r] - 1}
            /\ lease[r] > -1 => lease'[r] = lease[r] - 1
        BY <1>0, <2>1 DEF NoLease
      <4>3. Processed(r)' <=> Processed(r)
        BY <2>1 DEF Processed
      <4>4. QED
        BY <4>1, <4>2, <4>3 DEF KeptFrom
    <3>3. QED
      BY <2>1, <3>1, <3>2
  <2>4. QED
    BY <2>1, <2>2, <2>3 DEF HoldInv
<1>17. QED
  BY <1>12, <1>13, <1>14, <1>15, <1>16 DEF Next

\* Nothing is held at the start.
LEMMA InitHold == Init => HoldInv
BY DEF Init, HoldInv, In

\* Invocations that hold different rows satisfy the property.
LEMMA HoldExcludes == TypeInv /\ HoldInv => ClaimExclusive
<1>. SUFFICES ASSUME TypeInv, HoldInv,
                     NEW v \in Workers, NEW w \in Workers, v # w,
                     NEW i \in DOMAIN batch[v], NEW j \in DOMAIN batch[w],
                     claimLeft[v] > 0, claimLeft[w] > 0,
                     batch[v][i] = batch[w][j]
              PROVE  FALSE
  BY DEF ClaimExclusive
<1>1. batch[v] \in Seq(Rows)
  BY DEF TypeInv, TypeOK
<1>2. batch[v][i] \in Rows
  BY <1>1, LenProperties, ElementOfSeq
<1>3. In(batch[v][i], batch[v]) /\ In(batch[v][i], batch[w])
  BY DEF In
<1>4. QED
  BY <1>2, <1>3 DEF HoldInv

\* Two invocations never hold a row on leases that both run, however long the
\* deliveries take, if a row that is scheduled again waits no less than a lease
\* lasts and no pass ends within another invocation's claiming.
THEOREM ClaimsExclude == Spec /\ []ClaimsUndisturbed => []ClaimExclusive
<1>1. CASE RetryBase >= ClaimTtl
  <2>1. TypeInv /\ ClaimsUndisturbed /\ HoldInv /\ [Next]_vars => HoldInv'
    BY <1>1, HoldStep
  <2>2. QED
    BY <2>1, InitHold, HoldExcludes, TypeCorrect, PTL DEF Spec
<1>2. CASE ~(RetryBase >= ClaimTtl)
  <2>1. ClaimExclusive
    BY <1>2 DEF ClaimExclusive
  <2>2. QED
    BY <2>1, PTL
<1>3. QED
  BY <1>1, <1>2
=============================================================================
