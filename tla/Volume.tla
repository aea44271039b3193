-------------------------------- MODULE Volume --------------------------------
(***************************************************************************)
(* The evaluation of a volume rule (run-volume-evaluator.ts) over windows  *)
(* of local days, weeks or months (compute-window.ts), by the watchers of  *)
(* several processes.                                                      *)
(*                                                                         *)
(* A tick reads the clock once and then executes one statement after the   *)
(* other; other processes may act, and time may pass, between any two.     *)
(* Rules do not touch each other's rows, so there is one.  Reports of a    *)
(* failure count for nothing and are left out.                             *)
(***************************************************************************)
EXTENDS Incidents, Integers, FiniteSets, FiniteSetsExt

CONSTANTS
    Processes,
    Midnights,     \* the instants at which a local day begins
    Firsts,        \* those that begin a month
    DayLength,     \* 86 400 000 ms, which a local day need not have
    WeekLength,    \* days in a week
    WindowTypes,   \* what the rule may count by
    Grace,         \* evaluationGraceMinutes
    Minimum, Maximum,
    ActivatedAt,   \* when the rule was activated
    ClaimTtl,
    Items,         \* what reports count; NoCount if they do not say
    Begin, End,    \* bound: the clock
    TickEvery,     \* the interval of the watcher's timer
    MaxStall,      \* bound: how long a tick may take
    MaxLate,       \* bound: how old an execution may be when it is reported
    MaxReports, MaxPauses, MaxCrashes   \* bounds

NoCount == -1
NoWindow == [start |-> -1, end |-> -1]
DriftType == {"volume_below_minimum", "volume_above_maximum"}
Instants == 0 .. End

\* The calendar begins a week and a month before the clock, and goes on behind it.
ASSUME VolumeAssumption ==
    /\ Midnights \subseteq Nat /\ Firsts \subseteq Midnights
    /\ IsFiniteSet(Midnights)
    /\ DayLength \in Nat \ {0} /\ WeekLength \in Nat \ {0}
    /\ WindowTypes \subseteq {"daily", "weekly", "monthly"}
    /\ Grace \in Nat /\ Minimum \in Nat /\ Maximum \in Nat /\ ActivatedAt \in Nat
    /\ ClaimTtl \in Nat \ {0}
    /\ Items \subseteq Nat \cup {NoCount}
    /\ Begin \in Nat /\ End \in Nat /\ Begin <= End
    /\ \E m, n \in Firsts : m + WeekLength * DayLength <= n /\ n <= Begin
    /\ \E m \in Firsts : m > End
    /\ TickEvery \in Nat \ {0}
    /\ MaxStall \in Nat /\ MaxLate \in Nat
    /\ MaxReports \in Nat /\ MaxPauses \in Nat /\ MaxCrashes \in Nat

VARIABLES
    windowType,   \* of the rule, fixed in a run
    now,
    reports,      \* heartbeat_events: when executed, when received, how many items
    evaluations,  \* volume_band_evaluations, by window_start; "about" is history: the
                  \* end of the window that the result is about
    claims,       \* volume_evaluation_claims, by window_start
    active,       \* the contract and the workflow are active
    pc,
    at,           \* the instant at which the tick began
    window,       \* the window it evaluates
    result, total,  \* what it has found out
    fresh,        \* there was no row to update
    pauses, crashes

envVars == <<now, reports, active, pauses, crashes>>
locals == <<at, window, result, total, fresh>>
vars == <<windowType, incidents, envVars, evaluations, claims, pc, locals>>

Result == {"collecting", "within_band", "below_minimum", "above_maximum",
           "inconclusive"}

TypeOK ==
    /\ windowType \in WindowTypes
    /\ incidents \in Seq(Incident)
    /\ now \in Begin .. End
    /\ reports \in Seq([executed : Instants, received : Instants, items : Items])
    /\ \A s \in DOMAIN evaluations :
          /\ s \in Int
          /\ evaluations[s] \in
                [end : Int, about : Int, result : Result, total : Nat \cup {NoCount},
                 final : BOOLEAN]
    /\ \A s \in DOMAIN claims :
          claims[s] \in [owner : Processes, until : Nat]
    /\ active \in BOOLEAN
    /\ pc \in [Processes -> {"idle", "claim", "read", "look", "recheck", "write", "find",
                             "open", "resolve", "release"}]
    /\ at \in [Processes -> Int]
    /\ window \in [Processes -> [start : Int, end : Int]]
    /\ result \in [Processes -> Result]
    /\ total \in [Processes -> Nat \cup {NoCount}]
    /\ fresh \in [Processes -> BOOLEAN]
    /\ pauses \in 0 .. MaxPauses
    /\ crashes \in 0 .. MaxCrashes

Init ==
    /\ windowType \in WindowTypes
    /\ incidents = <<>>
    /\ now = Begin
    /\ reports = <<>>
    /\ evaluations = <<>>
    /\ claims = <<>>
    /\ active = TRUE
    /\ pc = [p \in Processes |-> "idle"]
    /\ at \in [Processes -> (Begin - TickEvery) .. (Begin - 1)]
    /\ window = [p \in Processes |-> NoWindow]
    /\ result = [p \in Processes |-> "collecting"]
    /\ total = [p \in Processes |-> 0]
    /\ fresh = [p \in Processes |-> FALSE]
    /\ pauses = 0
    /\ crashes = 0

-----------------------------------------------------------------------------
(* Windows                                                                 *)

\* startOfLocalDay and startOfLocalMonth
LocalMidnight(t) == Max({m \in Midnights : m <= t})
FirstOfMonth(t) == Max({m \in Firsts : m <= t})

\* addLocalDays adds days of the nominal length to a local midnight.
AddDays(t, n) == LocalMidnight(t) + n * DayLength

\* Days since the configured first day of the week.
Weekday(t) == (Cardinality({m \in Midnights : m <= t}) - 1) % WeekLength

\* computeVolumeWindow
CurrentWindow(t) ==
    CASE windowType = "daily" ->
           [start |-> LocalMidnight(t), end |-> AddDays(t, 1)]
      [] windowType = "weekly" ->
           LET start == AddDays(t, -Weekday(t))
           IN  [start |-> start, end |-> AddDays(start, WeekLength)]
      [] windowType = "monthly" ->
           [start |-> FirstOfMonth(t), end |-> Min({m \in Firsts : m > t})]

\* previousVolumeWindow, of the window that starts at t.
PreviousWindow(t) ==
    [start |-> CASE windowType = "daily" -> AddDays(t, -1)
                 [] windowType = "weekly" -> AddDays(t, -WeekLength)
                 [] windowType = "monthly" -> FirstOfMonth(t - 1),
     end |-> t]

\* evaluationDeadline
Deadline(w) == w.end + Grace

\* computeVolumeWindowForInstant: the window over for less than the grace, or
\* over at this instant; the current one otherwise.
WindowFor(t) ==
    LET current == CurrentWindow(t)
        previous == PreviousWindow(current.start)
    IN  IF \/ t >= previous.end /\ t < Deadline(previous)
           \/ t >= Deadline(previous) /\ t <= current.start
        THEN previous ELSE current

FirstPartial(w) == w.start < ActivatedAt /\ ActivatedAt < w.end

\* listHeartbeatsForVolumeWindow and heartbeatInWindow
Counted(w) ==
    {i \in DOMAIN reports : /\ w.start <= reports[i].executed
                            /\ reports[i].executed < w.end
                            /\ ActivatedAt <= reports[i].executed}

\* The loop over the reports.
AddUp(rows, S) ==
    LET sum[n \in 0 .. Len(rows)] ==
            IF n = 0 THEN 0
            ELSE sum[n - 1] + (IF n \in S THEN rows[n].items ELSE 0)
    IN  sum[Len(rows)]

ItemsOf(S) == AddUp(reports, S)
Known(S) == {i \in S : reports[i].items # NoCount}

TotalOf(w) == IF Known(Counted(w)) # Counted(w) THEN NoCount ELSE ItemsOf(Counted(w))

Measured(w) ==
    CASE TotalOf(w) = NoCount -> "inconclusive"
      [] TotalOf(w) # NoCount /\ TotalOf(w) < Minimum -> "below_minimum"
      [] TotalOf(w) \in Minimum .. Maximum -> "within_band"
      [] TotalOf(w) > Maximum -> "above_maximum"

\* Mutant: the end of the window is not waited for.
BandEarly(w, t) == IF FirstPartial(w) THEN "collecting" ELSE Measured(w)

\* evaluateVolumeBand, at instant t
Band(w, t) == IF FirstPartial(w) \/ t < Deadline(w) THEN "collecting" ELSE Measured(w)

Final(r) == r # "collecting"

\* volumeIncidentTypeForResult, as a set of at most one type.
Drift(r) ==
    {t \in DriftType : \/ t = "volume_below_minimum" /\ r = "below_minimum"
                       \/ t = "volume_above_maximum" /\ r = "above_maximum"}

-----------------------------------------------------------------------------
(* A tick                                                                  *)

Goto(p, place) == pc' = [pc EXCEPT ![p] = place]

\* The row of key s is inserted, or replaced.
Put(rows, s, row) ==
    [x \in DOMAIN rows \cup {s} |-> IF x = s THEN row ELSE rows[x]]

\* The timer fires; the claim is asked for the window of this instant.
StartTick(p) ==
    /\ pc[p] = "idle"
    /\ at[p] < now
    /\ at' = [at EXCEPT ![p] = now]
    /\ IF active
       THEN window' = [window EXCEPT ![p] = WindowFor(now)] /\ Goto(p, "claim")
       ELSE UNCHANGED <<windowType, window, pc>>
    /\ UNCHANGED <<windowType, incidents, envVars, evaluations, claims, result,
                   total, fresh>>

\* Mutant: claims are not looked at.
HeldNever(p, s) == FALSE

\* tryClaimVolumeEvaluation: the INSERT overrides what has expired.
Held(p, s) ==
    /\ s \in DOMAIN claims
    /\ claims[s].owner # p
    /\ claims[s].until >= at[p]

Claim(p) ==
    /\ pc[p] = "claim"
    /\ LET s == window[p].start
       IN  IF Held(p, s) THEN Goto(p, "idle") /\ UNCHANGED claims
           ELSE /\ claims' = Put(claims, s, [owner |-> p, until |-> at[p] + ClaimTtl])
                /\ Goto(p, "read")
    /\ UNCHANGED <<windowType, incidents, envVars, evaluations, locals>>

Read(p) ==
    /\ pc[p] = "read"
    /\ result' = [result EXCEPT ![p] = Band(window[p], at[p])]
    /\ total' = [total EXCEPT ![p] = TotalOf(window[p])]
    /\ Goto(p, "look")
    /\ UNCHANGED <<windowType, incidents, envVars, evaluations, claims, at,
                   window, fresh>>

\* Mutant: what is final is evaluated again.
FinalizedNever(s) == FALSE

Finalized(s) == s \in DOMAIN evaluations /\ evaluations[s].final

\* A window that has its verdict is left alone.
Look(p) ==
    /\ pc[p] = "look"
    /\ Goto(p, IF Finalized(window[p].start) THEN "release" ELSE "recheck")
    /\ UNCHANGED <<windowType, incidents, envVars, evaluations, claims, locals>>

\* upsertVolumeEvaluation looks again; its caller goes on with its own result
\* even if there is a verdict by now.
Recheck(p) ==
    /\ pc[p] = "recheck"
    /\ fresh' = [fresh EXCEPT ![p] = window[p].start \notin DOMAIN evaluations]
    /\ Goto(p, IF Finalized(window[p].start) THEN "find" ELSE "write")
    /\ UNCHANGED <<windowType, incidents, envVars, evaluations, claims, at,
                   window, result, total>>

\* An INSERT or an UPDATE, which leaves window_end; the unique index refuses the
\* INSERT of a row that has appeared meanwhile, and the exception ends the tick.
Write(p) ==
    /\ pc[p] = "write"
    /\ LET s == window[p].start
           old == s \in DOMAIN evaluations
           row == [end |-> IF old THEN evaluations[s].end ELSE window[p].end,
                   about |-> window[p].end, result |-> result[p], total |-> total[p],
                   final |-> Final(result[p])]
       IN  IF fresh[p] /\ old THEN Goto(p, "release") /\ UNCHANGED evaluations
           ELSE /\ evaluations' = Put(evaluations, s, row)
                /\ Goto(p, "find")
    /\ UNCHANGED <<windowType, incidents, envVars, claims, locals>>

Problem(p, t) == <<window[p].start, t>>

\* Is there an incident of this drift already?
Find(p) ==
    /\ pc[p] = "find"
    /\ Goto(p, IF \E t \in Drift(result[p]) : Unresolved(incidents, Problem(p, t)) = {}
               THEN "open" ELSE "resolve")
    /\ UNCHANGED <<windowType, incidents, envVars, evaluations, claims, locals>>

\* openOrObserveIncident looks again.
Open(p) ==
    /\ pc[p] = "open"
    /\ \E t \in Drift(result[p]) :
          incidents' = IF Unresolved(incidents, Problem(p, t)) = {}
                       THEN Opened(incidents, Problem(p, t)) ELSE incidents
    /\ Goto(p, "resolve")
    /\ UNCHANGED <<windowType, envVars, evaluations, claims, locals>>

\* Any other verdict resolves the incidents of the window.
Resolve(p) ==
    /\ pc[p] = "resolve"
    /\ incidents' =
          IF result[p] \in {"within_band", "inconclusive"}
          THEN [i \in DOMAIN incidents |->
                  IF \E t \in DriftType : i \in Unresolved(incidents, Problem(p, t))
                  THEN Resolved(incidents, i)[i] ELSE incidents[i]]
          ELSE incidents
    /\ Goto(p, "release")
    /\ UNCHANGED <<windowType, envVars, evaluations, claims, locals>>

Forget(p) ==
    /\ window' = [window EXCEPT ![p] = NoWindow]
    /\ result' = [result EXCEPT ![p] = "collecting"]
    /\ total' = [total EXCEPT ![p] = 0]
    /\ fresh' = [fresh EXCEPT ![p] = FALSE]
    /\ Goto(p, "idle")
    /\ UNCHANGED at

\* releaseVolumeEvaluationClaim deletes the claim if it is still this owner's.
Release(p) ==
    /\ pc[p] = "release"
    /\ LET s == window[p].start
       IN  claims' = [x \in {y \in DOMAIN claims : y # s \/ claims[y].owner # p} |->
                        claims[x]]
    /\ Forget(p)
    /\ UNCHANGED <<windowType, incidents, envVars, evaluations>>

-----------------------------------------------------------------------------
(* The rest of the program and the world                                   *)

Report(executed, items) ==
    /\ Len(reports) < MaxReports
    /\ reports' = Append(reports, [executed |-> executed, received |-> now,
                                   items |-> items])
    /\ UNCHANGED <<windowType, incidents, now, active, pauses, crashes,
                   evaluations, claims, pc, locals>>

\* Somebody resolves an incident.
ResolveByHand(i) ==
    /\ Resolvable(incidents[i])
    /\ incidents' = Resolved(incidents, i)
    /\ UNCHANGED <<windowType, envVars, evaluations, claims, pc, locals>>

\* The contract is paused or activated again.
Pause ==
    /\ pauses < MaxPauses
    /\ pauses' = pauses + 1
    /\ active' = ~active
    /\ UNCHANGED <<windowType, incidents, now, reports, crashes, evaluations,
                   claims, pc, locals>>

\* A process dies within a tick; its claim stays.
Crash(p) ==
    /\ pc[p] # "idle"
    /\ crashes < MaxCrashes
    /\ crashes' = crashes + 1
    /\ Forget(p)
    /\ UNCHANGED <<windowType, incidents, now, reports, active, pauses,
                   evaluations, claims>>

\* A tick takes no longer than MaxStall, and the next one starts TickEvery later
\* at the latest.
Time ==
    /\ now < End
    /\ \A p \in Processes :
          now - at[p] < IF pc[p] = "idle" THEN TickEvery ELSE MaxStall
    /\ now' = now + 1
    /\ UNCHANGED <<windowType, incidents, reports, active, pauses, crashes,
                   evaluations, claims, pc, locals>>

-----------------------------------------------------------------------------

Step(p) ==
    \/ StartTick(p) \/ Claim(p) \/ Read(p)    \/ Look(p) \/ Recheck(p)
    \/ Write(p)     \/ Find(p)  \/ Open(p)    \/ Resolve(p) \/ Release(p)

Next ==
    \/ \E p \in Processes : Step(p) \/ Crash(p)
    \/ \E age \in 0 .. MaxLate, items \in Items : age <= now /\ Report(now - age, items)
    \/ \E i \in DOMAIN incidents : ResolveByHand(i)
    \/ Pause
    \/ Time

Spec == Init /\ [][Next]_vars

-----------------------------------------------------------------------------
(* Properties                                                              *)

\* A verdict is given once: what a customer has been shown as the result of a
\* window does not change, whatever is reported or evaluated later.
FinalForGood ==
    [][\A s \in DOMAIN evaluations :
         evaluations[s].final =>
             s \in DOMAIN evaluations' /\ evaluations'[s] = evaluations[s]]_vars

Sum(S) == ItemsOf(Known(S))
InTime(w) == {i \in Counted(w) : reports[i].received < Deadline(w)}

\* A verdict is never given before the deadline of the window: what was
\* reported in time, and what came until now, agree with it.  The window is the
\* one the row shows, unless the rule counts by weeks.
VerdictIsFair ==
    \A s \in DOMAIN evaluations :
        LET row == evaluations[s]
            w == [start |-> s, end |-> row.about]
        IN  /\ windowType # "weekly" => row.end = row.about
            /\ row.result = "below_minimum" => Sum(InTime(w)) < Minimum
            /\ row.result = "above_maximum" => Sum(Counted(w)) > Maximum
            /\ row.result = "within_band" =>
                 /\ Sum(InTime(w)) <= Maximum /\ Minimum <= Sum(Counted(w))
                 /\ Known(InTime(w)) = InTime(w)
            /\ row.result = "inconclusive" => Known(Counted(w)) # Counted(w)

\* An incident about a window says what the verdict on the window says, and a
\* verdict of too little or too much is followed by an incident, as long as no
\* process dies.
IncidentsMatchVerdicts ==
    /\ \A i \in DOMAIN incidents :
          LET s == incidents[i].problem[1]
          IN  Finalized(s) /\ incidents[i].problem[2] \in Drift(evaluations[s].result)
    /\ crashes = 0 =>
          \A s \in DOMAIN evaluations : \A t \in DriftType :
            /\ evaluations[s].final
            /\ evaluations[s].result = (IF t = "volume_below_minimum" THEN "below_minimum"
                                        ELSE "above_maximum")
            => \/ \E i \in DOMAIN incidents : incidents[i].problem = <<s, t>>
               \/ \E p \in Processes : window[p].start = s /\ pc[p] \in {"find", "open"}
=============================================================================
